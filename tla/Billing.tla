------------------------------ MODULE Billing ------------------------------
(***************************************************************************)
(* What a delivery costs the client (app/billing).  An order is priced     *)
(* once, by the rate in force when it comes in; a statement sweeps the     *)
(* delivered, priced orders of a period that are on no statement yet and   *)
(* takes the credits off for the late ones.  Generating one reads its      *)
(* candidates, adds them up and stamps them in separate steps, and no row  *)
(* is locked on the way.  Money is in cents, a day is a number.            *)
(***************************************************************************)
EXTENDS Integers, FiniteSets, FiniteSetsExt, Sequences

CONSTANTS
  Orders,          \* orders of the client
  RateCards,       \* rates it may be given
  Terms,           \* contract terms for lateness it may have
  Days,            \* days of delivery
  Clerks,          \* requests that may generate a statement at the same time
  BillingEvent,    \* settings.billing_event
  MAX_INVOICES,    \* bound on the statements
  Loads,           \* the pieces and the weight of what is sent
  Unknown          \* no rate, no fee, no distance, no limit, no statement

VARIABLES
  rate,      \* the rate in force
  order,     \* priced orders
  invoices,  \* statements issued
  draft      \* the statement each clerk is adding up

vars == <<rate, order, invoices, draft>>

Order == [status : {"none", "moving", "delivered", "failed"}, taken : Days, day : Days,
          fee : Nat \cup {Unknown}, late : BOOLEAN, live : BOOLEAN, invoice : Nat]
NoDraft == [lines |-> {}, gross |-> 0, credit |-> 0]

TypeOK ==
  /\ rate \in RateCards \cup {Unknown}
  /\ order \in [Orders -> Order]
  /\ invoices \in Seq([gross : Nat, credit : Nat]) /\ Len(invoices) <= MAX_INVOICES
  /\ DOMAIN draft = Clerks

Init ==
  /\ rate \in RateCards \cup {Unknown}
  /\ order = [o \in Orders |->
       [status |-> "none", taken |-> Min(Days), day |-> Min(Days), fee |-> Unknown,
        late |-> FALSE, live |-> TRUE, invoice |-> 0]]
  /\ invoices = <<>>
  /\ draft = [c \in Clerks |-> NoDraft]

\* round() takes a half to the even cent.
Rounded(n, d) ==
  LET q == n \div d  twice == 2 * (n % d)
  IN IF twice > d \/ (twice = d /\ q % 2 = 1) THEN q + 1 ELSE q

\* price_drop: what each component of the rate adds, for miles and weight in
\* halves and rounded to the cent, each on its own.  Distance that could not be
\* worked out is not charged.
Base(r) == r.drop
Mileage(r, miles) == IF miles = Unknown THEN 0 ELSE Rounded(miles * r.mile, 2)
Pieces(r, goods) == goods.pieces * r.piece
Weight(r, goods) == Rounded(goods.weight * r.weight, 2)
Subtotal(r, miles, goods) == Base(r) + Mileage(r, miles) + Pieces(r, goods) + Weight(r, goods)
TopUp(r, miles, goods) ==
  IF r.minimum = Unknown THEN 0 ELSE Max({0, r.minimum - Subtotal(r, miles, goods)})
Fee(r, miles, goods) == Subtotal(r, miles, goods) + TopUp(r, miles, goods)

\* _price_order, frozen on the row; history gets no fee.
TakeIn(o, miles, goods, live, day) ==
  /\ order[o].status = "none"
  /\ order' = [order EXCEPT ![o].status = "moving", ![o].live = live, ![o].taken = day,
       ![o].fee = IF live /\ rate # Unknown THEN Fee(rate, miles, goods) ELSE Unknown]
  /\ UNCHANGED <<rate, invoices, draft>>

\* upsert_client_rate
ChangeRate(r) ==
  /\ r # rate /\ rate' = r
  /\ UNCHANGED <<order, invoices, draft>>

Finish(o, status, day, late) ==
  /\ order[o].status = "moving" /\ day >= order[o].taken
  /\ order' = [order EXCEPT ![o].status = status, ![o].day = day, ![o].late = late]
  /\ UNCHANGED <<rate, invoices, draft>>

\* _billed_in_period: the end of the period is not in it.
InPeriod(o, from, to) ==
  IF BillingEvent = "order_ingested"
  THEN order[o].status # "none" /\ order[o].taken \in from..(to - 1)
  ELSE order[o].status = "delivered" /\ order[o].day \in from..(to - 1)

\* mutant: the orders of the period, billed or not
Billable_Again(from, to) ==
  {o \in Orders : InPeriod(o, from, to) /\ order[o].live /\ order[o].fee # Unknown}

Billable(from, to) ==
  {o \in Orders : /\ InPeriod(o, from, to) /\ order[o].live /\ order[o].fee # Unknown
                  /\ order[o].invoice = 0}

\* _credit_for: a share of the fee within the contract's limits, and never
\* more than the fee.
Credit(term, fee) ==
  LET share == Rounded(fee * term.percent, 100)
      atLeast == IF term.min = Unknown THEN share ELSE Max({share, term.min})
      atMost == IF term.max = Unknown THEN atLeast ELSE Min({atLeast, term.max})
  IN Max({0, Min({atMost, fee})})

\* assess_credits: a late delivery under a term that grants something.
CreditOf(o, term) ==
  IF order[o].status # "delivered" \/ ~order[o].late \/ term = Unknown THEN 0
  ELSE IF term.percent <= 0 /\ term.min = Unknown THEN 0
  ELSE Credit(term, order[o].fee)

Gross(S) == MapThenSumSet(LAMBDA o : order[o].fee, S)
Credits(S, term) == MapThenSumSet(LAMBDA o : CreditOf(o, term), S)

\* generate_invoice: the candidates are read and added up ...
AddUp(c, from, to, term) ==
  /\ draft[c] = NoDraft /\ Len(invoices) < MAX_INVOICES
  /\ LET lines == Billable(from, to)
     IN /\ lines # {}
        /\ draft' = [draft EXCEPT ![c] =
             [lines |-> lines,
              gross |-> Gross(lines),
              credit |-> Credits(lines, term)]]
  /\ UNCHANGED <<rate, order, invoices>>

\* ... and the statement is written and its orders stamped.
Issue(c) ==
  /\ draft[c] # NoDraft /\ Len(invoices) < MAX_INVOICES
  /\ invoices' = Append(invoices, [gross |-> draft[c].gross, credit |-> draft[c].credit])
  /\ order' = [o \in Orders |-> IF o \in draft[c].lines
                 THEN [order[o] EXCEPT !.invoice = Len(invoices) + 1] ELSE order[o]]
  /\ draft' = [draft EXCEPT ![c] = NoDraft]
  /\ UNCHANGED rate

\* reconcile_period: where it puts each order that came in.
Bucket(o) ==
  CASE order[o].invoice # 0 -> "billed"
    [] order[o].invoice = 0 /\ order[o].status = "delivered" ->
         IF order[o].fee = Unknown THEN "unpriced" ELSE "delivered_not_invoiced"
    [] order[o].invoice = 0 /\ order[o].status = "failed" -> "not_delivered"
    [] OTHER -> "in_flight"

Next ==
  \/ \E o \in Orders, miles \in {Unknown, 5}, goods \in Loads, live \in BOOLEAN, day \in Days :
       TakeIn(o, miles, goods, live, day)
  \/ \E r \in RateCards : ChangeRate(r)
  \/ \E o \in Orders, status \in {"delivered", "failed"}, day \in Days, late \in BOOLEAN :
       Finish(o, status, day, late)
  \/ \E c \in Clerks, from \in Days, to \in Days, term \in Terms \cup {Unknown} :
       from < to /\ AddUp(c, from, to, term)
  \/ \E c \in Clerks : Issue(c)

Spec == Init /\ [][Next]_vars

-----------------------------------------------------------------------------
Lines(i) == {o \in Orders : order[o].invoice = i}

\* Statements can be checked against their lines: what a statement charged is
\* the sum of the fees of the orders on it, its credits never exceed it, and
\* history is on none.  What the reconciliation calls earned and never asked
\* for is exactly what a statement over the order's day would still take.
InvoicesAddUp ==
  /\ \A i \in DOMAIN invoices :
       /\ invoices[i].gross = Gross(Lines(i))
       /\ invoices[i].credit <= invoices[i].gross
  /\ \A o \in Orders : order[o].invoice # 0 => order[o].live
  /\ BillingEvent = "order_delivered" =>
       \A o \in Orders : (Bucket(o) = "delivered_not_invoiced") <=>
                         (o \in Billable(order[o].day, order[o].day + 1))

=============================================================================
