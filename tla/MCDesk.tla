------------------------------- MODULE MCDesk -------------------------------
(*****************************************************************************)
(* The components that take work in, promise it and hand it over. They share *)
(* no state in the code, so one run checks them side by side: a behaviour    *)
(* picks a component at the start and is a behaviour of that component       *)
(* alone, in the slots s1, s2, ... Sizes are chosen per component; the       *)
(* README says why they are enough.                                          *)
(*****************************************************************************)
EXTENDS Integers, FiniteSets, Sequences, TLC

VARIABLES
  part,     \* which component this behaviour is of
  s1, s2, s3, s4, s5, s6, s7, s8, s9, s10, s11, s12, s13, s14     \* its variables, in the order it declares them

slots == <<part, s1, s2, s3, s4, s5, s6, s7, s8, s9, s10, s11, s12, s13, s14>>

Off == "off"

\* One order must be signed for, the other photographed twice.
Proofs == (1 :> [photos |-> 2, signature |-> FALSE]) @@ (2 :> [photos |-> 1, signature |-> TRUE])

\* A live order, another client's history under the same reference, and one
\* with no reference to the first one's door.
Asks == <<[client |-> "A", ref |-> "x", door |-> 1, mode |-> "live"],
          [client |-> "B", ref |-> "x", door |-> 1, mode |-> "backfill"],
          [client |-> "A", ref |-> "none", door |-> 1, mode |-> "live"]>>

\* The same live order sent twice, and an import of it.
Replays == <<[client |-> "A", ref |-> "x", door |-> 1, mode |-> "live"],
             [client |-> "A", ref |-> "x", door |-> 1, mode |-> "live"],
             [client |-> "A", ref |-> "x", door |-> 1, mode |-> "backfill"]>>

Windows == [HOT_SHOT |-> 0, T1 |-> 1, T2 |-> 2, T3 |-> 3]

Files == UNION {[1..n -> {"blank", "bad", "now", "unsaid"}] : n \in 1..5}

\* Two platform offers: one with a drop-off, one whose window closes soon.
GigOffers ==
  <<[pickup |-> 1, drop |-> 2, open |-> 0, close |-> 9, dropOpen |-> 3, dropClose |-> -1, pay |-> 9],
    [pickup |-> 3, drop |-> -1, open |-> 0, close |-> 3, dropOpen |-> -1, dropClose |-> -1, pay |-> 9]>>

Webhooks == INSTANCE StatusWebhooks WITH
  txn <- s1, row <- s2, endpoint <- s3, owed <- s4, session <- s5,
  told <- s6, Events <- {1}, MAX_ATTEMPTS <- 2, MAX_FAILURES <- 2

Cash == INSTANCE CashOnDelivery WITH
  door <- s1, evidence <- s2, wrongPins <- s3, records <- s4, asking <- s5,
  Carried <- {1, 2}, CodOrders <- {1, 2}, Proof <- Proofs, MAX_PIN <- 2

Taking == INSTANCE Intake WITH
  pc <- s1, row <- s2, answer <- s3, twin <- s4, settled <- s5, asked <- s6,
  dropped <- s7, queue <- s8, billed <- s9, Requests <- 1..3, Ask <- Asks,
  NoRef <- "none", Nobody <- 0

Again == INSTANCE Intake WITH
  pc <- s1, row <- s2, answer <- s3, twin <- s4, settled <- s5, asked <- s6,
  dropped <- s7, queue <- s8, billed <- s9, Requests <- 1..3, Ask <- Replays,
  NoRef <- "none", Nobody <- 0

Hold == INSTANCE HoldQueue WITH
  clock <- s1, order <- s2, waiting <- s3, queued <- s4, kept <- s5,
  Orders <- {1, 2}, Spots <- {0, 1}, Rules <- {"T3"}, Window <- Windows,
  Promises <- {3}, NoPromise <- 9, RADIUS <- 0, BUFFER <- 1, RISK <- 1,
  MaxTime <- 2

File == INSTANCE Manifest WITH
  file <- s1, chunks <- s2, results <- s3, orders <- s4, aborted <- s5,
  MAX_ROWS <- 4, MAX_BATCH_ROWS <- 2, Files <- Files

Gig == INSTANCE GigJobs WITH
  jobs <- s1, book <- s2, req <- s3, lock <- s4, Refs <- {1, 2},
  Intake <- GigOffers, Requests <- 1..3, Records <- {11, 12}, Times <- 1..3,
  NOW <- 2, HERE <- 1, BUFFER <- 1, CAPACITY <- 2, COST <- 1

Planner == INSTANCE RouteClient WITH
  clock <- s1, failures <- s2, openedAt <- s3, calls <- s4, cyc <- s5,
  Cycles <- {1, 2}, Drivers <- {1, 2}, Capacity <- <<3, 2>>,
  Start <- <<1, 4>>, StopIds <- {1, 2}, Tier <- <<1, 0>>, Weight <- <<1, 3>>,
  Place <- <<2, 3>>, HasDrop <- <<TRUE, FALSE>>, FAILURE_THRESHOLD <- 2,
  COOLDOWN <- 2, MaxCalls <- 5, MaxTime <- 4

Track == INSTANCE Tracking WITH
  clock <- s1, stops <- s2, ping <- s3, throttle <- s4, delivered <- s5,
  ratings <- s6, Stops <- 1..3, Drops <- {2, 3},
  Carries <- <<{1, 2}, {1}, {2}>>, Place <- <<1, 3, 2>>,
  Located <- <<TRUE, TRUE, TRUE>>, SERVICE <- 1, Spots <- {3}, GRACE <- 0,
  PING_REFRESH <- 1, PING_RETRY <- 1, MaxTime <- 2, MaxPings <- 2

Cores == INSTANCE Returns WITH
  items <- s1, taken <- s2, taps <- s3, serving <- s4, Orders <- {1, 2},
  Shop <- <<1, 1>>, Expects <- {1}, Manifests <- {"m"}, MaxTakes <- 1,
  MaxTaps <- 2

Watch == INSTANCE OpsWatch WITH
  now <- s1, order <- s2, queue <- s3, snapshot <- s4, bus <- s5, open <- s6,
  losses <- s7, cycled <- s8, Orders <- {1}, HOLD <- 1, PROMISE <- 2,
  GRACE <- 1, STALE <- 1, FRESH <- 1, MaxTime <- 4, MaxLosses <- 1

Asking == INSTANCE Measures WITH
  now <- s1, term <- s2, order <- s3, doing <- s4, ledger <- s5, edits <- s6,
  offer <- s7, told <- s8, stop <- s9, stored <- s10, visit <- s11,
  ret <- s12, flags <- s13, nights <- s14, Clients <- {}, Nobody <- 0,
  Orders <- {}, Who <- <<>>, Tier <- <<>>, Minutes <- {1}, SINCE <- 1,
  Offers <- {}, Reasons <- {"far"}, WINDOW <- 1, Stops <- {},
  Requested <- <<1, 0, 1>>, RouteAt <- <<0, 0, 1>>, Planned <- <<1, -1, 2>>,
  Shop <- <<1, 2>>, Ref <- <<1, 1>>, Root <- <<1, 1>>, Returns <- {1},
  ReturnShop <- <<1>>, STALE <- 2, DAY <- 2, MaxTime <- 2, MaxTerms <- 0,
  MaxCrossings <- 0, MaxNights <- 2

-----------------------------------------------------------------------------
Init ==
  \/ part = "webhooks" /\ Webhooks!Init /\ s7 = Off /\ s8 = Off /\ s9 = Off /\ s10 = Off /\ s11 = Off /\ s12 = Off /\ s13 = Off /\ s14 = Off
  \/ part = "cash" /\ Cash!Init /\ s6 = Off /\ s7 = Off /\ s8 = Off /\ s9 = Off /\ s10 = Off /\ s11 = Off /\ s12 = Off /\ s13 = Off /\ s14 = Off
  \/ part = "intake" /\ Taking!Init /\ s10 = Off /\ s11 = Off /\ s12 = Off /\ s13 = Off /\ s14 = Off
  \/ part = "replay" /\ Again!Init /\ s10 = Off /\ s11 = Off /\ s12 = Off /\ s13 = Off /\ s14 = Off
  \/ part = "hold" /\ Hold!Init /\ s6 = Off /\ s7 = Off /\ s8 = Off /\ s9 = Off /\ s10 = Off /\ s11 = Off /\ s12 = Off /\ s13 = Off /\ s14 = Off
  \/ part = "manifest" /\ File!Init /\ s6 = Off /\ s7 = Off /\ s8 = Off /\ s9 = Off /\ s10 = Off /\ s11 = Off /\ s12 = Off /\ s13 = Off /\ s14 = Off
  \/ part = "gig" /\ Gig!Init /\ s5 = Off /\ s6 = Off /\ s7 = Off /\ s8 = Off /\ s9 = Off /\ s10 = Off /\ s11 = Off /\ s12 = Off /\ s13 = Off /\ s14 = Off
  \/ part = "planner" /\ Planner!Init /\ s6 = Off /\ s7 = Off /\ s8 = Off /\ s9 = Off /\ s10 = Off /\ s11 = Off /\ s12 = Off /\ s13 = Off /\ s14 = Off
  \/ part = "tracking" /\ Track!Init /\ s7 = Off /\ s8 = Off /\ s9 = Off /\ s10 = Off /\ s11 = Off /\ s12 = Off /\ s13 = Off /\ s14 = Off
  \/ part = "returns" /\ Cores!Init /\ s5 = Off /\ s6 = Off /\ s7 = Off /\ s8 = Off /\ s9 = Off /\ s10 = Off /\ s11 = Off /\ s12 = Off /\ s13 = Off /\ s14 = Off
  \/ part = "watch" /\ Watch!Init /\ s9 = Off /\ s10 = Off /\ s11 = Off /\ s12 = Off /\ s13 = Off /\ s14 = Off
  \/ part = "links" /\ Asking!Init

Next ==
  \/ part = "webhooks" /\ Webhooks!Next /\ UNCHANGED <<part, s7, s8, s9, s10, s11, s12, s13, s14>>
  \/ part = "cash" /\ Cash!Next /\ UNCHANGED <<part, s6, s7, s8, s9, s10, s11, s12, s13, s14>>
  \/ part = "intake" /\ Taking!Next /\ UNCHANGED <<part, s10, s11, s12, s13, s14>>
  \/ part = "replay" /\ Again!Next /\ UNCHANGED <<part, s10, s11, s12, s13, s14>>
  \/ part = "hold" /\ Hold!Next /\ UNCHANGED <<part, s6, s7, s8, s9, s10, s11, s12, s13, s14>>
  \/ part = "manifest" /\ File!Next /\ UNCHANGED <<part, s6, s7, s8, s9, s10, s11, s12, s13, s14>>
  \/ part = "gig" /\ Gig!Next /\ UNCHANGED <<part, s5, s6, s7, s8, s9, s10, s11, s12, s13, s14>>
  \/ part = "planner" /\ Planner!Next /\ UNCHANGED <<part, s6, s7, s8, s9, s10, s11, s12, s13, s14>>
  \/ part = "tracking" /\ Track!Next /\ UNCHANGED <<part, s7, s8, s9, s10, s11, s12, s13, s14>>
  \/ part = "returns" /\ Cores!Next /\ UNCHANGED <<part, s5, s6, s7, s8, s9, s10, s11, s12, s13, s14>>
  \/ part = "watch" /\ Watch!Next /\ UNCHANGED <<part, s9, s10, s11, s12, s13, s14>>
  \/ part = "links" /\ Asking!Next /\ UNCHANGED <<part>>

\* The scheduler keeps calling the webhook sweep; one that is not cut short
\* ends (StatusWebhooks).
Does(A) == part = "webhooks" /\ A /\ UNCHANGED <<part, s7, s8, s9, s10, s11, s12, s13, s14>>
Fairness ==
  /\ WF_slots(Does(Webhooks!Sweep))
  /\ SF_slots(Does(\E answer \in {"2xx", "4xx", "retryable"} : Webhooks!Attempt("sweep", answer)))
  /\ SF_slots(Does(Webhooks!Settle("sweep")))
  /\ WF_slots(Does(Webhooks!ComesDue(1)))

Spec == Init /\ [][Next]_slots /\ Fairness

-----------------------------------------------------------------------------
\* A piece of work is taken in once and as what it is: one order per client
\* reference whatever is sent again or at the same time, history never joins
\* the queue, answers to a question about a duplicate leave one copy, every
\* line of an uploaded file is answered, and a platform job's record is in order.
WorkIsTakenOnce ==
  /\ part = "intake" => Taking!OneOrderPerReference /\ Taking!HistoryStaysHistory /\ Taking!OneCopySurvives
  /\ part = "replay" => Again!OneOrderPerReference /\ Again!HistoryStaysHistory
  /\ part = "manifest" => File!EveryLineIsAnswered
  /\ part = "gig" => Gig!RecordsAreSound

\* Waiting and planning keep what was promised: no order is held past its
\* promise, a plan can be driven and says when it came from the fallback, an
\* outage is not paid for by every cycle, a platform job taken on does not
\* break the pickups already owed, and arrival times can be met. When a wait
\* does go wrong a person hears of it.
PromisesAreKept ==
  /\ part = "hold" => Hold!HoldKeepsThePromise
  /\ part = "planner" => Planner!PlansAreDrivable /\ Planner!DegradedPlansSaySo /\ Planner!OutageIsPaidOnce
  /\ part = "gig" => Gig!GateKeepsPickups
  /\ part = "tracking" => Track!EtasAreReachable
  /\ part = "watch" => Watch!StoppedDispatchIsHeard /\ Watch!PagerAndListAgree

\* What leaves the system is right: goods against money and proof, news of
\* committed changes only, one driver shown to one recipient at a time, no
\* returned part recorded that nobody handed over, and a part waiting where a
\* van goes asked about, once.
HandedOverProperly ==
  /\ part = "cash" => Cash!HandedOverProperly
  /\ part = "webhooks" => Webhooks!NewsIsCommitted
  /\ part = "tracking" => Track!TrackingIsPrivate
  /\ part = "returns" => Cores!NoPartIsInvented
  /\ part = "links" => Asking!QuestionsAskedOnce

\* An owed notification is settled, although the immediate attempt and the
\* sweep overwrite each other's record of it and either may die.
OwedIsSettled ==
  (part = "webhooks" /\ Webhooks!IsOwed(1)) ~> (part = "webhooks" /\ ~Webhooks!IsOwed(1))

\* The forecast a stop had when the driver reached it is never rewritten by a
\* ping's refresh that began before.
ForecastsStand == [][part = "tracking" => Track!KeepsReachedEtas]_slots
=============================================================================
