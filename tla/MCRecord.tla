------------------------------ MODULE MCRecord ------------------------------
(*****************************************************************************)
(* The components behind the counter: who may use the system, what is owed,  *)
(* and the record that experiments, settlements and reviews are read from.   *)
(* They share no state in the code, so one run checks them side by side: a   *)
(* behaviour picks a component at the start and is a behaviour of that       *)
(* component alone, in the slots s1, s2, ...                                 *)
(*****************************************************************************)
EXTENDS Integers, FiniteSets, Sequences, TLC

CONSTANTS Unknown

VARIABLES
  part,     \* which component this behaviour is of
  s1, s2, s3, s4, s5, s6, s7, s8, s9, s10, s11, s12, s13, s14     \* its variables, in the order it declares them

slots == <<part, s1, s2, s3, s4, s5, s6, s7, s8, s9, s10, s11, s12, s13, s14>>

Off == "off"

Rates == {[drop |-> 5, mile |-> 1, piece |-> 0, weight |-> 1, minimum |-> 6],
          [drop |-> 0, mile |-> 2, piece |-> 3, weight |-> 0, minimum |-> Unknown]}
Goods == {[pieces |-> 0, weight |-> 3], [pieces |-> 1, weight |-> 0]}
Lateness == {[percent |-> 50, min |-> Unknown, max |-> Unknown],
             [percent |-> 0, min |-> 9, max |-> Unknown]}

\* Two worlds that differ in one order's cost on each of two driver-days.
Costs == [w \in {1, 2} |->
           [d \in {"mon", "tue"} |-> IF d = "mon" THEN (1 :> w) @@ (2 :> 2) ELSE (2 :> 4 - w)]]

Failures == {<<"ACCESS_ISSUE", "dropoff">>, <<"COD_DISPUTE", "dropoff">>}

\* Blocks of the contracted percentages, smaller than the 10 to 20 in use.
BlockSize == [f \in {33, 45, 50} |-> IF f = 33 THEN 3 ELSE 2]

\* What the rules make of the names of three docks.
Guesses == <<"shop", "none", "dealer">>

\* A visit with tapped times only, one the geofence saw as well, one whose
\* entry came late and one that failed.
Visited == [enter |-> -1, exit |-> -1, arrived |-> 1, completed |-> 2, status |-> "completed"]
VisitKinds ==
  {Visited,
   [enter |-> 1, exit |-> 6, arrived |-> 2, completed |-> 4, status |-> "completed"],
   [enter |-> 3, exit |-> -1, arrived |-> -1, completed |-> 2, status |-> "completed"],
   [enter |-> -1, exit |-> -1, arrived |-> 1, completed |-> -1, status |-> "failed"]}

\* Two sets of answers about a dock that disagree, one of them partial, and
\* two sets of places found at its address.
Survey == {[landing |-> "a", stop_point |-> "null"], [landing |-> "b", stop_point |-> "b"]}
Shut == [kind |-> "b", open |-> FALSE, at |-> 2]
Places == {{[kind |-> "a", open |-> TRUE, at |-> 1], Shut},
           {[kind |-> "a", open |-> TRUE, at |-> 1], [kind |-> "b", open |-> TRUE, at |-> 2]}}

\* A yes, and a no that names only a missing fact; and the digests that pick a
\* block's test site under two salts.
Verdicts == {[verdict |-> "yes", reasons |-> {}], [verdict |-> "no", reasons |-> {"missing"}]}
Digests == <<[a |-> <<0, 1>>, b |-> <<1, 0>>], [a |-> <<1, 1>>, b |-> <<0, 1>>]>>

\* Header rows of an export, --map options (one names no column), the shifts
\* behind it, one of them across midnight, and the cells a row fills in.
Spellings == [driver_id |-> <<"driver", "emp">>, stop_ref |-> <<"stop", "ticket">>, route_ref |-> <<"route", "run">>]
HeaderRows == UNION {[1..n -> {"driver", "emp", "stop", "ticket", "run"}] : n \in 1..3}
Maps == {<<>>} \cup [{"route_ref"} -> {"stop", "ticket", "zip"}] \cup [{"driver_id"} -> {"emp", "stop"}]
WorkedShifts == {[driver |-> 1, from |-> 0, to |-> 2], [driver |-> 1, from |-> 3, to |-> 5]}
FilledCells ==
  {{"driver", "completed", "start", "end", "hours"}, {"driver", "completed", "start"}, {"driver", "completed", "end"},
   {"driver", "completed", "hours"}, {"driver", "completed"}, {"completed", "hours"}}

Entry == INSTANCE SignIn WITH
  active <- s1, switched <- s2, codes <- s3, device <- s4, signing <- s5,
  admin <- s6, doomed <- s7, attempts <- s8, Devices <- {1, 2},
  MAX_CODES <- 3, MAX_SWITCHES <- 2, MAX_FAILED <- 2, NoCode <- 0

Accounts == INSTANCE ClientAccounts WITH
  account <- s1, user <- s2, review <- s3, edit <- s4, link <- s5, key <- s6,
  terms <- s7, ordered <- s8, unpriced <- s9, Users <- {1}, Applicant <- 1,
  Reviewers <- {1, 2}, MAX_VERSION <- 2

People == INSTANCE ClientAccounts WITH
  account <- s1, user <- s2, review <- s3, edit <- s4, link <- s5, key <- s6,
  terms <- s7, ordered <- s8, unpriced <- s9, Users <- {1, 2},
  Applicant <- 1, Reviewers <- {1}, MAX_VERSION <- 1

Bills == INSTANCE Billing WITH
  rate <- s1, order <- s2, invoices <- s3, draft <- s4, Orders <- {1, 2},
  RateCards <- Rates, Terms <- Lateness, Days <- 1..2, Clerks <- {1},
  BillingEvent <- "order_delivered", MAX_INVOICES <- 2, Loads <- Goods,
  Unknown <- Unknown

Arms == INSTANCE Experiment WITH
  terms <- s1, clause <- s2, excluded <- s3, work <- s4, rows <- s5,
  abstained <- s6, draws <- s7, taken <- s8, Sessions <- {1, 2},
  Docks <- {1}, NoDock <- 0, Fractions <- {33, 50}, block_size <- BlockSize,
  GRAIN <- 6, MAX_ORDERS <- 3, MAX_CLAUSES <- 1

Clauses == INSTANCE Experiment WITH
  terms <- s1, clause <- s2, excluded <- s3, work <- s4, rows <- s5,
  abstained <- s6, draws <- s7, taken <- s8, Sessions <- {1, 2},
  Docks <- {1}, NoDock <- 0, Fractions <- {33, 45, 50},
  block_size <- BlockSize, GRAIN <- 6, MAX_ORDERS <- 2, MAX_CLAUSES <- 2

Settle == INSTANCE Settlement WITH
  world <- s1, exclusions <- s2, ledger <- s3, bases <- s4, run <- s5,
  signing <- s6, papers <- s7, Runs <- {1}, Worlds <- {1, 2},
  DriverDays <- <<"mon", "tue">>, Cost <- Costs, MAX_ENTRIES <- 4,
  MAX_BASES <- 2

Hours == INSTANCE DriverDay WITH
  clock <- s1, log <- s2, duty <- s3, at <- s4, stop <- s5, phone <- s6,
  crossings <- s7, Stops <- {}, Fenced <- {}, Carries <- <<>>, DAY <- 2,
  WEEK <- 4, LIMIT <- 1, SHARES <- 1, MaxTime <- 6

Day == INSTANCE DriverDay WITH
  clock <- s1, log <- s2, duty <- s3, at <- s4, stop <- s5, phone <- s6,
  crossings <- s7, Stops <- {1, 2}, Fenced <- {1},
  Carries <- <<{1, 2}, {1}>>, DAY <- 2, WEEK <- 2, LIMIT <- 1, SHARES <- 2,
  MaxTime <- 2

Play == INSTANCE Playbook WITH
  order <- s1, mode <- s2, calls <- s3, spots <- s4, pool <- s5, sweep <- s6,
  person <- s7, resolved <- s8, Drivers <- {1}, Failures <- Failures,
  MAX_ATTEMPTS <- 2, VETO <- 1, MaxAttempt <- 2, MaxCalls <- 0,
  MaxSweeps <- 2

Waits == INSTANCE Playbook WITH
  order <- s1, mode <- s2, calls <- s3, spots <- s4, pool <- s5, sweep <- s6,
  person <- s7, resolved <- s8, Drivers <- {1},
  Failures <- {<<"SHOP_CLOSED", "dropoff">>}, MAX_ATTEMPTS <- 2, VETO <- 1,
  MaxAttempt <- 1, MaxCalls <- 2, MaxSweeps <- 2

Same == INSTANCE SiteIdentity WITH
  into <- s1, shop <- s2, merges <- s3, fact <- s4, adm <- s5, req <- s6,
  desk <- s7, given <- s8, lost <- s9, Docks <- 1..3,
  Alike <- {<<2, 1>>, <<3, 1>>, <<3, 2>>}, Shops <- {}, Home <- <<>>,
  Stops <- {1, 2}, At <- <<3, 1>>, Values <- {"a", "b"},
  Says <- <<{"a"}, {"a", "b"}>>,
  Guessed <- [d \in 1..3 |-> IF d = 1 THEN "b" ELSE "none"], Shared <- {},
  Denial <- "b", Admins <- 1..2, MAX_DISPUTES <- 2, MAX_SETTLED <- 2,
  MAX_REMEMBERED <- 4, MaxMerges <- 2, MaxAnswers <- 2

Crowded == INSTANCE SiteIdentity WITH
  into <- s1, shop <- s2, merges <- s3, fact <- s4, adm <- s5, req <- s6,
  desk <- s7, given <- s8, lost <- s9, Docks <- 1..2, Alike <- {<<2, 1>>},
  Shops <- {}, Home <- <<>>, Stops <- {1, 2, 3}, At <- <<1, 2, 2>>,
  Values <- {"a", "b"}, Says <- <<{"a"}, {"a", "b"}, {"b"}>>,
  Guessed <- <<"none", "none">>, Shared <- {1}, Denial <- "a", Admins <- {1},
  MAX_DISPUTES <- 1, MAX_SETTLED <- 1, MAX_REMEMBERED <- 2, MaxMerges <- 2,
  MaxAnswers <- 3

Aliases == INSTANCE SiteIdentity WITH
  into <- s1, shop <- s2, merges <- s3, fact <- s4, adm <- s5, req <- s6,
  desk <- s7, given <- s8, lost <- s9, Docks <- 1..3,
  Alike <- {<<2, 1>>, <<3, 1>>, <<3, 2>>}, Shops <- {1}, Home <- <<3>>,
  Stops <- {}, At <- <<>>, Values <- {"a"}, Says <- <<>>,
  Guessed <- [d \in 1..3 |-> "none"], Shared <- {}, Denial <- "a",
  Admins <- 1..3, MAX_DISPUTES <- 1, MAX_SETTLED <- 1, MAX_REMEMBERED <- 1,
  MaxMerges <- 3, MaxAnswers <- 1

Shade == INSTANCE Shadow WITH
  clock <- s1, lastRun <- s2, lock <- s3, proc <- s4, log <- s5, real <- s6,
  overran <- s7, Procs <- {1, 2}, Drivers <- {1}, Orders <- {1, 2},
  CADENCE <- 1, LOCK_TTL <- 1, OpenFrom <- 1, OpenUntil <- 2, MaxTime <- 2,
  MaxCycles <- 2

Decided == INSTANCE DecisionRecord WITH
  clock <- s1, order <- s2, snaps <- s3, plan <- s4, overrides <- s5,
  ledger <- s6, flags <- s7, hand <- s8, night <- s9, Orders <- {1, 2},
  Shop <- <<1, 1>>, SCAN_LIMIT <- 2, Followed <- {1}, WINDOW <- 1,
  MaxTime <- 2, MaxCycles <- 2, MaxNotes <- 1

Papers == INSTANCE Documents WITH
  day <- s1, docs <- s2, files <- s3, open <- s4, screen <- s5,
  cleared <- s6, Required <- {1}, Phones <- {1}, Admins <- {11, 12},
  Dates <- {1, 2}, MaxFiles <- 2, MaxDay <- 2

Turns == INSTANCE DockProfiles WITH
  night <- s1, visits <- s2, profile <- s3, inherited <- s4, waited <- s5,
  class <- s6, canonical <- s7, open <- s8, answers <- s9, Docks <- 1..3,
  Visits <- {Visited}, Histories <- {}, Labellers <- {}, MaxVisits <- 2,
  MaxMerged <- 1, MaxNights <- 3, Guess <- Guesses,
  Classes <- {"shop", "dealer"}, MIN_OWN_SAMPLES <- 3,
  THIN_SAMPLE_COUNT <- 2, FLOOR <- 2, PLACEHOLDER <- 9, REFRESH_LIMIT <- 2,
  CLASSIFY_LIMIT <- 1

Dwell == INSTANCE DockProfiles WITH
  night <- s1, visits <- s2, profile <- s3, inherited <- s4, waited <- s5,
  class <- s6, canonical <- s7, open <- s8, answers <- s9, Docks <- {1},
  Visits <- VisitKinds, Histories <- {<<4>>, <<0, 5, 7>>}, Labellers <- {},
  MaxVisits <- 4, MaxMerged <- 0, MaxNights <- 3, Guess <- Guesses,
  Classes <- {"shop", "dealer"}, MIN_OWN_SAMPLES <- 3,
  THIN_SAMPLE_COUNT <- 2, FLOOR <- 2, PLACEHOLDER <- 9, REFRESH_LIMIT <- 1,
  CLASSIFY_LIMIT <- 1

Labels == INSTANCE DockProfiles WITH
  night <- s1, visits <- s2, profile <- s3, inherited <- s4, waited <- s5,
  class <- s6, canonical <- s7, open <- s8, answers <- s9, Docks <- {1, 2},
  Visits <- {}, Histories <- {}, Labellers <- {1, 2}, MaxVisits <- 2,
  MaxMerged <- 0, MaxNights <- 3, Guess <- Guesses,
  Classes <- {"shop", "dealer"}, MIN_OWN_SAMPLES <- 3,
  THIN_SAMPLE_COUNT <- 2, FLOOR <- 2, PLACEHOLDER <- 9, REFRESH_LIMIT <- 1,
  CLASSIFY_LIMIT <- 1

Nights == INSTANCE LearningLoop WITH
  clock <- s1, polled <- s2, run <- s3, lock <- s4, lastRun <- s5,
  faults <- s6, flags <- s7, proposals <- s8, rules <- s9, open <- s10,
  Procs <- {1, 2}, HOUR <- 12, Admins <- {}, MaxFaults <- 3, MaxFlags <- 0,
  MaxRules <- 1, MIN_OCCURRENCES <- 1, ADJUSTMENT <- 10, DEFAULT_T2 <- 90,
  LOCK_TTL <- 2, MaxRun <- 1, MaxNights <- 2

Rules == INSTANCE LearningLoop WITH
  clock <- s1, polled <- s2, run <- s3, lock <- s4, lastRun <- s5,
  faults <- s6, flags <- s7, proposals <- s8, rules <- s9, open <- s10,
  Procs <- {1}, HOUR <- 1, Admins <- {1, 2}, MaxFaults <- 0, MaxFlags <- 1,
  MaxRules <- 2, MIN_OCCURRENCES <- 1, ADJUSTMENT <- 10, DEFAULT_T2 <- 90,
  LOCK_TTL <- 2, MaxRun <- 1, MaxNights <- 1

Surveys == INSTANCE DockSurvey WITH
  day <- s1, profile <- s2, subs <- s3, open <- s4, point <- s5, fact <- s6,
  asked <- s7, said <- s8, Submissions <- {1, 2}, Admins <- {1, 2},
  Spots <- {}, MaxDay <- 1, Fields <- {"landing", "stop_point"},
  Values <- {"a", "b"}, Drivers <- {1}, Answers <- Survey, Gold <- {"type"},
  Evidence <- Places, MAX_SURVEYS <- 1, RESURVEY_AFTER <- 1

Walks == INSTANCE DockSurvey WITH
  day <- s1, profile <- s2, subs <- s3, open <- s4, point <- s5, fact <- s6,
  asked <- s7, said <- s8, Submissions <- {}, Admins <- {}, Spots <- {1, 3},
  MaxDay <- 2, Fields <- {"landing", "stop_point"}, Values <- {"a", "b"},
  Drivers <- {1}, Answers <- Survey, Gold <- {"type"}, Evidence <- Places,
  MAX_SURVEYS <- 1, RESURVEY_AFTER <- 1

Duty == INSTANCE Scorecards WITH
  now <- s1, log <- s2, was <- s3, drops <- s4, yard <- s5, stored <- s6,
  lost <- s7, order <- s8, report <- s9, Drivers <- {1, 2}, Viewer <- 1,
  DAY <- 2, OFFSET <- 1, SINCE <- 1, MIN_SHIFT <- 2, MIN_OTHER <- 1,
  MAX_PLAUSIBLE <- 2, Orders <- {}, Tier <- <<1, 1, 2>>, MaxTime <- 3,
  MaxToggles <- 3, MaxDrops <- 1, MaxCrossings <- 0, MaxLost <- 0,
  MaxReports <- 0

Yard == INSTANCE Scorecards WITH
  now <- s1, log <- s2, was <- s3, drops <- s4, yard <- s5, stored <- s6,
  lost <- s7, order <- s8, report <- s9, Drivers <- {}, Viewer <- 1,
  DAY <- 3, OFFSET <- 1, SINCE <- 0, MIN_SHIFT <- 1, MIN_OTHER <- 1,
  MAX_PLAUSIBLE <- 2, Orders <- {}, Tier <- <<1, 1, 2>>, MaxTime <- 6,
  MaxToggles <- 3, MaxDrops <- 0, MaxCrossings <- 5, MaxLost <- 1,
  MaxReports <- 0

Exposure == INSTANCE Scorecards WITH
  now <- s1, log <- s2, was <- s3, drops <- s4, yard <- s5, stored <- s6,
  lost <- s7, order <- s8, report <- s9, Drivers <- {}, Viewer <- 1,
  DAY <- 3, OFFSET <- 1, SINCE <- 1, MIN_SHIFT <- 1, MIN_OTHER <- 1,
  MAX_PLAUSIBLE <- 2, Orders <- {1, 2, 3}, Tier <- <<1, 1, 2>>, MaxTime <- 2,
  MaxToggles <- 3, MaxDrops <- 0, MaxCrossings <- 0, MaxLost <- 0,
  MaxReports <- 1

Scores == INSTANCE GoldenRecord WITH
  facts <- s1, labels <- s2, saving <- s3, limits <- s4, adding <- s5,
  group <- s6, draws <- s7, drawing <- s8, held <- s9, work <- s10,
  pool <- s11, planning <- s12, Records <- {1}, IsVisit <- {},
  Scorers <- {1, 2}, Machines <- {"car"}, Given <- Verdicts, Versions <- {1},
  Clerks <- {1}, Sites <- {}, Groups <- {}, Sizes <- {2}, Hash <- Digests,
  Drivers <- {}, Planners <- {}, MaxOffers <- 0

Doors == INSTANCE GoldenRecord WITH
  facts <- s1, labels <- s2, saving <- s3, limits <- s4, adding <- s5,
  group <- s6, draws <- s7, drawing <- s8, held <- s9, work <- s10,
  pool <- s11, planning <- s12, Records <- {1}, IsVisit <- {1},
  Scorers <- {1, 2, 3}, Machines <- {"car"}, Given <- Verdicts,
  Versions <- {1, 2}, Clerks <- {1}, Sites <- {}, Groups <- {}, Sizes <- {2},
  Hash <- Digests, Drivers <- {}, Planners <- {}, MaxOffers <- 0

Draws == INSTANCE GoldenRecord WITH
  facts <- s1, labels <- s2, saving <- s3, limits <- s4, adding <- s5,
  group <- s6, draws <- s7, drawing <- s8, held <- s9, work <- s10,
  pool <- s11, planning <- s12, Records <- {}, IsVisit <- {}, Scorers <- {},
  Machines <- {}, Given <- Verdicts, Versions <- {1}, Clerks <- {1},
  Sites <- 1..3, Groups <- {"a", "b"}, Sizes <- {2}, Hash <- Digests,
  Drivers <- {}, Planners <- {}, MaxOffers <- 0

Redraws == INSTANCE GoldenRecord WITH
  facts <- s1, labels <- s2, saving <- s3, limits <- s4, adding <- s5,
  group <- s6, draws <- s7, drawing <- s8, held <- s9, work <- s10,
  pool <- s11, planning <- s12, Records <- {}, IsVisit <- {}, Scorers <- {},
  Machines <- {}, Given <- Verdicts, Versions <- {1}, Clerks <- {1, 2},
  Sites <- 1..3, Groups <- {"a"}, Sizes <- {2}, Hash <- Digests,
  Drivers <- {}, Planners <- {}, MaxOffers <- 0

Technicians == INSTANCE GoldenRecord WITH
  facts <- s1, labels <- s2, saving <- s3, limits <- s4, adding <- s5,
  group <- s6, draws <- s7, drawing <- s8, held <- s9, work <- s10,
  pool <- s11, planning <- s12, Records <- {}, IsVisit <- {}, Scorers <- {},
  Machines <- {}, Given <- Verdicts, Versions <- {1}, Clerks <- {1},
  Sites <- {}, Groups <- {}, Sizes <- {2}, Hash <- Digests, Drivers <- {1},
  Planners <- {"p", "q"}, MaxOffers <- 3

Columns == INSTANCE Baseline WITH
  file <- s1, activity <- s2, invoices <- s3,
  Known <- <<"driver_id", "stop_ref", "route_ref">>,
  Required <- {"driver_id"}, Synonyms <- Spellings, Headers <- HeaderRows,
  Overrides <- Maps, DAY <- 4, Shifts <- {}, Styles <- {"total"},
  Fills <- {}, StopRefs <- {}, Charges <- {2}, MaxRows <- 1

Engaged == INSTANCE Baseline WITH
  file <- s1, activity <- s2, invoices <- s3,
  Known <- <<"driver_id", "stop_ref", "route_ref">>,
  Required <- {"driver_id"}, Synonyms <- Spellings,
  Headers <- {<<"driver">>}, Overrides <- {<<>>}, DAY <- 4,
  Shifts <- WorkedShifts, Styles <- {"total", "share"}, Fills <- FilledCells,
  StopRefs <- {}, Charges <- {}, MaxRows <- 2

Charged == INSTANCE Baseline WITH
  file <- s1, activity <- s2, invoices <- s3,
  Known <- <<"driver_id", "stop_ref", "route_ref">>,
  Required <- {"driver_id"}, Synonyms <- Spellings,
  Headers <- {<<"driver">>}, Overrides <- {<<>>}, DAY <- 4,
  Shifts <- {[driver |-> 1, from |-> 0, to |-> 1]}, Styles <- {"total"},
  Fills <- {{"driver", "completed"}}, StopRefs <- {1, 2}, Charges <- {5, -2},
  MaxRows <- 2

Promised == INSTANCE Measures WITH
  now <- s1, term <- s2, order <- s3, doing <- s4, ledger <- s5, edits <- s6,
  offer <- s7, told <- s8, stop <- s9, stored <- s10, visit <- s11,
  ret <- s12, flags <- s13, nights <- s14, Clients <- {1, 2}, Nobody <- 0,
  Orders <- {1, 2}, Who <- <<{1}, {0, 2}>>, Tier <- <<1, 1>>, Minutes <- {1},
  SINCE <- 1, Offers <- {}, Reasons <- {"far"}, WINDOW <- 1, Stops <- {},
  Requested <- <<1, 0, 1>>, RouteAt <- <<0, 0, 1>>, Planned <- <<1, -1, 2>>,
  Shop <- <<>>, Ref <- <<>>, Root <- <<1, 1>>, Returns <- {},
  ReturnShop <- <<1>>, STALE <- 2, DAY <- 2, MaxTime <- 2, MaxTerms <- 1,
  MaxCrossings <- 0, MaxNights <- 0

Turned == INSTANCE Measures WITH
  now <- s1, term <- s2, order <- s3, doing <- s4, ledger <- s5, edits <- s6,
  offer <- s7, told <- s8, stop <- s9, stored <- s10, visit <- s11,
  ret <- s12, flags <- s13, nights <- s14, Clients <- {}, Nobody <- 0,
  Orders <- {}, Who <- <<>>, Tier <- <<>>, Minutes <- {1}, SINCE <- 1,
  Offers <- {1, 2}, Reasons <- {"far"}, WINDOW <- 1, Stops <- {},
  Requested <- <<1, 0, 1>>, RouteAt <- <<0, 0, 1>>, Planned <- <<1, -1, 2>>,
  Shop <- <<>>, Ref <- <<>>, Root <- <<1, 1>>, Returns <- {},
  ReturnShop <- <<1>>, STALE <- 2, DAY <- 2, MaxTime <- 2, MaxTerms <- 0,
  MaxCrossings <- 0, MaxNights <- 0

Crossed == INSTANCE Measures WITH
  now <- s1, term <- s2, order <- s3, doing <- s4, ledger <- s5, edits <- s6,
  offer <- s7, told <- s8, stop <- s9, stored <- s10, visit <- s11,
  ret <- s12, flags <- s13, nights <- s14, Clients <- {}, Nobody <- 0,
  Orders <- {}, Who <- <<>>, Tier <- <<>>, Minutes <- {1}, SINCE <- 0,
  Offers <- {}, Reasons <- {"far"}, WINDOW <- 1, Stops <- {1, 2},
  Requested <- <<1, 0, 1>>, RouteAt <- <<0, 0, 1>>, Planned <- <<1, -1, 2>>,
  Shop <- <<>>, Ref <- <<>>, Root <- <<1, 1>>, Returns <- {},
  ReturnShop <- <<1>>, STALE <- 2, DAY <- 2, MaxTime <- 2, MaxTerms <- 0,
  MaxCrossings <- 2, MaxNights <- 0

Reached == INSTANCE Measures WITH
  now <- s1, term <- s2, order <- s3, doing <- s4, ledger <- s5, edits <- s6,
  offer <- s7, told <- s8, stop <- s9, stored <- s10, visit <- s11,
  ret <- s12, flags <- s13, nights <- s14, Clients <- {}, Nobody <- 0,
  Orders <- {}, Who <- <<>>, Tier <- <<>>, Minutes <- {1}, SINCE <- 0,
  Offers <- {}, Reasons <- {"far"}, WINDOW <- 1, Stops <- {1, 2, 3},
  Requested <- <<1, 0, 1>>, RouteAt <- <<0, 0, 1>>, Planned <- <<1, -1, 2>>,
  Shop <- <<>>, Ref <- <<>>, Root <- <<1, 1>>, Returns <- {},
  ReturnShop <- <<1>>, STALE <- 2, DAY <- 2, MaxTime <- 4, MaxTerms <- 0,
  MaxCrossings <- 0, MaxNights <- 0

-----------------------------------------------------------------------------
Init ==
  \/ part = "signin" /\ Entry!Init /\ s9 = Off /\ s10 = Off /\ s11 = Off /\ s12 = Off /\ s13 = Off /\ s14 = Off
  \/ part = "accounts" /\ Accounts!Init /\ s10 = Off /\ s11 = Off /\ s12 = Off /\ s13 = Off /\ s14 = Off
  \/ part = "users" /\ People!Init /\ s10 = Off /\ s11 = Off /\ s12 = Off /\ s13 = Off /\ s14 = Off
  \/ part = "billing" /\ Bills!Init /\ s5 = Off /\ s6 = Off /\ s7 = Off /\ s8 = Off /\ s9 = Off /\ s10 = Off /\ s11 = Off /\ s12 = Off /\ s13 = Off /\ s14 = Off
  \/ part = "arms" /\ Arms!Init /\ s9 = Off /\ s10 = Off /\ s11 = Off /\ s12 = Off /\ s13 = Off /\ s14 = Off
  \/ part = "clauses" /\ Clauses!Init /\ s9 = Off /\ s10 = Off /\ s11 = Off /\ s12 = Off /\ s13 = Off /\ s14 = Off
  \/ part = "settle" /\ Settle!Init /\ s8 = Off /\ s9 = Off /\ s10 = Off /\ s11 = Off /\ s12 = Off /\ s13 = Off /\ s14 = Off
  \/ part = "hours" /\ Hours!Init /\ s8 = Off /\ s9 = Off /\ s10 = Off /\ s11 = Off /\ s12 = Off /\ s13 = Off /\ s14 = Off
  \/ part = "day" /\ Day!Init /\ s8 = Off /\ s9 = Off /\ s10 = Off /\ s11 = Off /\ s12 = Off /\ s13 = Off /\ s14 = Off
  \/ part = "playbook" /\ Play!Init /\ s9 = Off /\ s10 = Off /\ s11 = Off /\ s12 = Off /\ s13 = Off /\ s14 = Off
  \/ part = "unplaced" /\ Waits!Init /\ s9 = Off /\ s10 = Off /\ s11 = Off /\ s12 = Off /\ s13 = Off /\ s14 = Off
  \/ part = "sites" /\ Same!Init /\ s10 = Off /\ s11 = Off /\ s12 = Off /\ s13 = Off /\ s14 = Off
  \/ part = "crowded" /\ Crowded!Init /\ s10 = Off /\ s11 = Off /\ s12 = Off /\ s13 = Off /\ s14 = Off
  \/ part = "aliases" /\ Aliases!Init /\ s10 = Off /\ s11 = Off /\ s12 = Off /\ s13 = Off /\ s14 = Off
  \/ part = "shadow" /\ Shade!Init /\ s8 = Off /\ s9 = Off /\ s10 = Off /\ s11 = Off /\ s12 = Off /\ s13 = Off /\ s14 = Off
  \/ part = "decisions" /\ Decided!Init /\ s10 = Off /\ s11 = Off /\ s12 = Off /\ s13 = Off /\ s14 = Off
  \/ part = "papers" /\ Papers!Init /\ s7 = Off /\ s8 = Off /\ s9 = Off /\ s10 = Off /\ s11 = Off /\ s12 = Off /\ s13 = Off /\ s14 = Off
  \/ part = "turns" /\ Turns!Init /\ s10 = Off /\ s11 = Off /\ s12 = Off /\ s13 = Off /\ s14 = Off
  \/ part = "dwell" /\ Dwell!Init /\ s10 = Off /\ s11 = Off /\ s12 = Off /\ s13 = Off /\ s14 = Off
  \/ part = "labels" /\ Labels!Init /\ s10 = Off /\ s11 = Off /\ s12 = Off /\ s13 = Off /\ s14 = Off
  \/ part = "nights" /\ Nights!Init /\ s11 = Off /\ s12 = Off /\ s13 = Off /\ s14 = Off
  \/ part = "rules" /\ Rules!Init /\ s11 = Off /\ s12 = Off /\ s13 = Off /\ s14 = Off
  \/ part = "survey" /\ Surveys!Init /\ s9 = Off /\ s10 = Off /\ s11 = Off /\ s12 = Off /\ s13 = Off /\ s14 = Off
  \/ part = "walks" /\ Walks!Init /\ s9 = Off /\ s10 = Off /\ s11 = Off /\ s12 = Off /\ s13 = Off /\ s14 = Off
  \/ part = "duty" /\ Duty!Init /\ s10 = Off /\ s11 = Off /\ s12 = Off /\ s13 = Off /\ s14 = Off
  \/ part = "yard" /\ Yard!Init /\ s10 = Off /\ s11 = Off /\ s12 = Off /\ s13 = Off /\ s14 = Off
  \/ part = "exposure" /\ Exposure!Init /\ s10 = Off /\ s11 = Off /\ s12 = Off /\ s13 = Off /\ s14 = Off
  \/ part = "scores" /\ Scores!Init /\ s13 = Off /\ s14 = Off
  \/ part = "doors" /\ Doors!Init /\ s13 = Off /\ s14 = Off
  \/ part = "draws" /\ Draws!Init /\ s13 = Off /\ s14 = Off
  \/ part = "redraws" /\ Redraws!Init /\ s13 = Off /\ s14 = Off
  \/ part = "technicians" /\ Technicians!Init /\ s13 = Off /\ s14 = Off
  \/ part = "columns" /\ Columns!Init /\ s4 = Off /\ s5 = Off /\ s6 = Off /\ s7 = Off /\ s8 = Off /\ s9 = Off /\ s10 = Off /\ s11 = Off /\ s12 = Off /\ s13 = Off /\ s14 = Off
  \/ part = "engaged" /\ Engaged!Init /\ s4 = Off /\ s5 = Off /\ s6 = Off /\ s7 = Off /\ s8 = Off /\ s9 = Off /\ s10 = Off /\ s11 = Off /\ s12 = Off /\ s13 = Off /\ s14 = Off
  \/ part = "charges" /\ Charged!Init /\ s4 = Off /\ s5 = Off /\ s6 = Off /\ s7 = Off /\ s8 = Off /\ s9 = Off /\ s10 = Off /\ s11 = Off /\ s12 = Off /\ s13 = Off /\ s14 = Off
  \/ part = "promises" /\ Promised!Init
  \/ part = "answers" /\ Turned!Init
  \/ part = "fence" /\ Crossed!Init
  \/ part = "arrivals" /\ Reached!Init

Next ==
  \/ part = "signin" /\ Entry!Next /\ UNCHANGED <<part, s9, s10, s11, s12, s13, s14>>
  \/ part = "accounts" /\ Accounts!Next /\ UNCHANGED <<part, s10, s11, s12, s13, s14>>
  \/ part = "users" /\ People!Next /\ UNCHANGED <<part, s10, s11, s12, s13, s14>>
  \/ part = "billing" /\ Bills!Next /\ UNCHANGED <<part, s5, s6, s7, s8, s9, s10, s11, s12, s13, s14>>
  \/ part = "arms" /\ Arms!Next /\ UNCHANGED <<part, s9, s10, s11, s12, s13, s14>>
  \/ part = "clauses" /\ Clauses!Next /\ UNCHANGED <<part, s9, s10, s11, s12, s13, s14>>
  \/ part = "settle" /\ Settle!Next /\ UNCHANGED <<part, s8, s9, s10, s11, s12, s13, s14>>
  \/ part = "hours" /\ Hours!Next /\ UNCHANGED <<part, s8, s9, s10, s11, s12, s13, s14>>
  \/ part = "day" /\ Day!Next /\ UNCHANGED <<part, s8, s9, s10, s11, s12, s13, s14>>
  \/ part = "playbook" /\ Play!Next /\ UNCHANGED <<part, s9, s10, s11, s12, s13, s14>>
  \/ part = "unplaced" /\ Waits!Next /\ UNCHANGED <<part, s9, s10, s11, s12, s13, s14>>
  \/ part = "sites" /\ Same!Next /\ UNCHANGED <<part, s10, s11, s12, s13, s14>>
  \/ part = "crowded" /\ Crowded!Next /\ UNCHANGED <<part, s10, s11, s12, s13, s14>>
  \/ part = "aliases" /\ Aliases!Next /\ UNCHANGED <<part, s10, s11, s12, s13, s14>>
  \/ part = "shadow" /\ Shade!Next /\ UNCHANGED <<part, s8, s9, s10, s11, s12, s13, s14>>
  \/ part = "decisions" /\ Decided!Next /\ UNCHANGED <<part, s10, s11, s12, s13, s14>>
  \/ part = "papers" /\ Papers!Next /\ UNCHANGED <<part, s7, s8, s9, s10, s11, s12, s13, s14>>
  \/ part = "turns" /\ Turns!Next /\ UNCHANGED <<part, s10, s11, s12, s13, s14>>
  \/ part = "dwell" /\ Dwell!Next /\ UNCHANGED <<part, s10, s11, s12, s13, s14>>
  \/ part = "labels" /\ Labels!Next /\ UNCHANGED <<part, s10, s11, s12, s13, s14>>
  \/ part = "nights" /\ Nights!Next /\ UNCHANGED <<part, s11, s12, s13, s14>>
  \/ part = "rules" /\ Rules!Next /\ UNCHANGED <<part, s11, s12, s13, s14>>
  \/ part = "survey" /\ Surveys!Next /\ UNCHANGED <<part, s9, s10, s11, s12, s13, s14>>
  \/ part = "walks" /\ Walks!Next /\ UNCHANGED <<part, s9, s10, s11, s12, s13, s14>>
  \/ part = "duty" /\ Duty!Next /\ UNCHANGED <<part, s10, s11, s12, s13, s14>>
  \/ part = "yard" /\ Yard!Next /\ UNCHANGED <<part, s10, s11, s12, s13, s14>>
  \/ part = "exposure" /\ Exposure!Next /\ UNCHANGED <<part, s10, s11, s12, s13, s14>>
  \/ part = "scores" /\ Scores!Next /\ UNCHANGED <<part, s13, s14>>
  \/ part = "doors" /\ Doors!Next /\ UNCHANGED <<part, s13, s14>>
  \/ part = "draws" /\ Draws!Next /\ UNCHANGED <<part, s13, s14>>
  \/ part = "redraws" /\ Redraws!Next /\ UNCHANGED <<part, s13, s14>>
  \/ part = "technicians" /\ Technicians!Next /\ UNCHANGED <<part, s13, s14>>
  \/ part = "columns" /\ Columns!Next /\ UNCHANGED <<part, s4, s5, s6, s7, s8, s9, s10, s11, s12, s13, s14>>
  \/ part = "engaged" /\ Engaged!Next /\ UNCHANGED <<part, s4, s5, s6, s7, s8, s9, s10, s11, s12, s13, s14>>
  \/ part = "charges" /\ Charged!Next /\ UNCHANGED <<part, s4, s5, s6, s7, s8, s9, s10, s11, s12, s13, s14>>
  \/ part = "promises" /\ Promised!Next /\ UNCHANGED <<part>>
  \/ part = "answers" /\ Turned!Next /\ UNCHANGED <<part>>
  \/ part = "fence" /\ Crossed!Next /\ UNCHANGED <<part>>
  \/ part = "arrivals" /\ Reached!Next /\ UNCHANGED <<part>>

Spec == Init /\ [][Next]_slots

-----------------------------------------------------------------------------
\* Access ends when it is taken away and begins only when it is granted: a
\* driver switched off keeps no phone signed in, every order of a client has
\* an approved account and accepted terms behind it, and a driver's shift rests
\* on papers an administrator passed.
AccessIsGranted ==
  /\ part = "accounts" => Accounts!OrdersHaveABasis
  /\ part = "users" => People!OrdersHaveABasis
  /\ part = "signin" => Entry!SwitchOffIsFinal
  /\ part = "papers" => Papers!ShiftsAreCleared

\* Money adds up: statements bill an order once and credit what is late, a
\* cost is recorded once, a settlement is final when both sides agreed the
\* same figures, hours paid are hours on duty, loaded costs sum to wages and
\* the credit lateness costs is counted once, and so are an export's charges.
MoneyAddsUp ==
  /\ part = "billing" => Bills!InvoicesAddUp
  /\ part = "settle" => Settle!FinalIsAgreed /\ Settle!OneLiveCost
  /\ part = "hours" => Hours!HoursAreTimeOnDuty
  /\ part = "day" => Day!UploadsConverge /\ Day!LoadedSumsToWage
  /\ part = "exposure" => Exposure!ExposureIsCountedOnce
  /\ part = "charges" => Charged!ChargesAddUp

\* What is measured is measured fairly: experiment arms are balanced block by
\* block, a rule acts only with the authority its own record earned it, one
\* shadow cycle runs at a time and compares like with like, a decision is
\* credited to the plan that made it, every dock's dwell is measured in turn
\* and planned on enough visits, every night is worked by one process at a time,
\* a review moves a rule by one step, a scorecard counts a shift's own deliveries and
\* shows no single colleague, a turnaround is a visit of the yard, scorers are
\* compared with each other, every block has its test site, a technician's
\* day is not planned over work, the baseline reads an export's columns and
\* hours for what they are, screens and ledger agree on what was on time, and
\* the shares and medians of a scorecard are shares and medians.
EvidenceIsSound ==
  /\ part = "arms" => Arms!ArmsAreFair
  /\ part = "clauses" => Clauses!ArmsAreFair
  /\ part = "playbook" => Play!EvidenceIsTrue /\ Play!ActsWithAuthority
  /\ part = "unplaced" => Waits!EvidenceIsTrue /\ Waits!ActsWithAuthority /\ Waits!OneCallStands
  /\ part = "shadow" => Shade!OneCycleAtATime /\ Shade!ReportIsFair
  /\ part = "decisions" => Decided!ProvenanceIsTrue /\ Decided!LabelsAreSound /\ Decided!FindingsStayResolved
  /\ part = "turns" => Turns!EveryDockGetsItsTurn /\ Turns!PlansRestOnEnough
  /\ part = "dwell" => Dwell!PlansRestOnEnough
  /\ part = "nights" => Nights!NightsAreWorked
  /\ part = "rules" => Rules!OneStepPerReview
  /\ part = "duty" => Duty!ShiftsOwnTheirDeliveries /\ Duty!TeamFigureHidesEveryone
  /\ part = "yard" => Yard!TurnaroundsAreVisits
  /\ part = "scores" => Scores!AgreementIsBetweenTwo
  /\ part = "doors" => Doors!AgreementIsBetweenTwo
  /\ part = "draws" => Draws!BlocksHoldOneTestSite
  /\ part = "redraws" => Redraws!BlocksHoldOneTestSite
  /\ part = "technicians" => Technicians!DaysAreNotPlannedOverWork
  /\ part = "columns" => Columns!ColumnsFeedOneField
  /\ part = "engaged" => Engaged!HoursAreNotOverstated
  /\ part = "promises" => Promised!ScreensAndLedgerAgree
  /\ part = "answers" => Turned!OfferSharesAddUp
  /\ part = "fence" => Crossed!ArrivalsAreMeasured
  /\ part = "arrivals" => Reached!ArrivalsAreMeasured

\* Merging and reverting sites never loses anything: every alias leads to a
\* site, and every answer a driver gave is kept where it can be found. What a
\* profile says of a dock somebody said, its walk joins its own two ends, and
\* a human label is a human's.
SitesAreKept ==
  /\ part = "sites" => Same!AliasesEnd /\ Same!AnswersAreKept /\ Same!AnswersCountOnce
  /\ part = "crowded" => Crowded!AnswersAreKept /\ Crowded!AnswersCountOnce
  /\ part = "aliases" => Aliases!AliasesEnd
  /\ part = "labels" => Labels!LabelsHaveAnAuthor
  /\ part = "survey" => Surveys!AnswersHaveAnAuthor
  /\ part = "walks" => Walks!WalkMatchesTheEnds

\* An override or a settled dispute changes what its author saw, and nothing
\* else: a step that wrote over a row that had moved would be a false record.
\* What the desk works out never replaces what a driver found, and more evidence
\* never lowers a record's grade, but where the desk's guess completes it.
ChangesWereSeen ==
  [][/\ part = "sites" => Same!SettlesWhatWasSeen
     /\ part = "crowded" => Crowded!SettlesWhatWasSeen
     /\ part = "decisions" => Decided!OverrideTakesEffect
     /\ part = "survey" => Surveys!KeepsDriversFact
     /\ part = "scores" => Scores!GradesDoNotFall
     /\ part = "doors" => Doors!GradesDoNotFall]_slots
=============================================================================
