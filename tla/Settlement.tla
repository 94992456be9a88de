----------------------------- MODULE Settlement -----------------------------
(***************************************************************************)
(* The monthly savings statement (app/settle, app/record/cost.py and the   *)
(* scripts settle_month and sign_basis).  A run costs every driver-day     *)
(* into the append-only ledger, builds a statement from the live costs,    *)
(* issues the basis it rests on, and writes a paper: final only when both  *)
(* sides signed the basis and the statement still reproduces under it.     *)
(* Inputs change between runs, runs overlap, and signatures arrive at any  *)
(* moment.                                                                 *)
(***************************************************************************)
EXTENDS Naturals, FiniteSets, Sequences, FiniteSetsExt

CONSTANTS
  Runs,         \* settle_month processes
  Worlds,       \* what the trace and the rates say, as they get corrected
  DriverDays,   \* driver-days of the month, in the order they are costed
  Cost,         \* Cost[w][d]: order -> loaded cents, on driver-day d
  MAX_ENTRIES,  \* bound: ledger entries of a run
  MAX_BASES     \* bound: bases issued

VARIABLES
  world,      \* which of Worlds holds
  exclusions, \* the excluded docks, as a version
  ledger,     \* cost entries
  bases,      \* issued bases, by version
  run,        \* what each process is doing
  signing,    \* the version each side is about to sign
  papers      \* final papers written

vars == <<world, exclusions, ledger, bases, run, signing, papers>>

Sides == {"lmx", "customer"}
Idle == [at |-> "idle", wrote |-> 0]
\* A basis: the definition, the costs it read, who signed, and whether a later
\* one replaced it.
IsBasis(b) == /\ DOMAIN b = {"inputs", "costs", "signed", "live"}
              /\ b.signed \subseteq Sides /\ b.live \in BOOLEAN

TypeOK ==
  /\ world \in Worlds /\ exclusions \in 1..2
  /\ \A e \in ledger : DOMAIN e = {"id", "order", "cents", "supersedes"}
  /\ \A v \in DOMAIN bases : IsBasis(bases[v])
  /\ signing \in [Sides -> 0..MAX_BASES]

Init ==
  /\ world \in Worlds /\ exclusions = 1
  /\ ledger = {} /\ bases = <<>> /\ papers = {}
  /\ run = [r \in Runs |-> Idle]
  /\ signing = [s \in Sides |-> 0]

\* A rate is recorded or a crossing arrives late; a dock is excluded.
Correct(w) ==
  /\ w # world
  /\ world' = w
  /\ UNCHANGED <<exclusions, ledger, bases, run, signing, papers>>

ChangeExclusions ==
  /\ exclusions' = 3 - exclusions
  /\ UNCHANGED <<world, ledger, bases, run, signing, papers>>

Live(es) == {e \in es : \A f \in es : f.supersedes # e.id}

Begin(r, recompute) ==
  /\ run[r].at = "idle"
  /\ run' = [run EXCEPT ![r] = [at |-> "costing", wrote |-> run[r].wrote, day |-> 1,
                                new |-> {}, recompute |-> recompute]]
  /\ UNCHANGED <<world, exclusions, ledger, bases, signing, papers>>

\* mutant: a second run writes a second cost
Written_Again(r, day, seen) == DOMAIN day

\* Orders already costed are skipped, unless they are to be superseded.
Written(r, day, seen) ==
  IF run[r].recompute THEN DOMAIN day ELSE {o \in DOMAIN day : \A e \in Live(seen) : e.order # o}

\* One driver-day of record_costs_for_period: what is live is looked up again
\* for every day, in what is committed and what this run has flushed.
CostDay(r) ==
  LET day == Cost[world][DriverDays[run[r].day]]
      seen == ledger \cup run[r].new
      os == Written(r, day, seen)
      Before(o) == {e \in Live(seen) : e.order = o}
      Entry(o, e) == [id |-> <<r, run[r].wrote, run[r].day, o>>, order |-> o, cents |-> day[o], supersedes |-> e]
  IN /\ run[r].at = "costing" /\ run[r].day <= Len(DriverDays)
     /\ run[r].wrote + Cardinality(os) <= MAX_ENTRIES
     /\ \E es \in [os -> {e.id : e \in Live(seen)} \cup {<<>>}] :
          /\ \A o \in os : es[o] \in IF run[r].recompute /\ Before(o) # {} THEN {e.id : e \in Before(o)} ELSE {<<>>}
          /\ run' = [run EXCEPT ![r] = [at |-> "costing", wrote |-> @.wrote + Cardinality(os), day |-> @.day + 1,
                                        new |-> @.new \cup {Entry(o, es[o]) : o \in os}, recompute |-> @.recompute]]
     /\ UNCHANGED <<world, exclusions, ledger, bases, signing, papers>>

CommitCosts(r) ==
  /\ run[r].at = "costing" /\ run[r].day > Len(DriverDays)
  /\ ledger' = ledger \cup run[r].new
  /\ run' = [run EXCEPT ![r] = [at |-> "costed", wrote |-> run[r].wrote]]
  /\ UNCHANGED <<world, exclusions, bases, signing, papers>>

\* The costs build_statement reads: one live entry of every costed order.
Readings ==
  {c \in [{e.order : e \in Live(ledger)} -> {e.cents : e \in Live(ledger)}] :
     \A o \in DOMAIN c : \E e \in Live(ledger) : e.order = o /\ e.cents = c[o]}

\* freeze_statement_basis: the method's terms and the figures that came out.
Definition(costs) ==
  [exclusions |-> exclusions, drops |-> Cardinality(DOMAIN costs),
   total |-> FoldSet(LAMBDA o, t : t + costs[o], 0, DOMAIN costs)]

Build(r) ==
  /\ run[r].at = "costed"
  /\ \E c \in Readings :
       run' = [run EXCEPT ![r] = [at |-> "built", wrote |-> run[r].wrote,
                                  costs |-> c, inputs |-> Definition(c)]]
  /\ UNCHANGED <<world, exclusions, ledger, bases, signing, papers>>

LiveBases == {v \in DOMAIN bases : bases[v].live}
LiveOrNone == IF LiveBases = {} THEN {0} ELSE LiveBases

\* live_basis: kept as it was read, signatures included.
ReadBasis(r) ==
  /\ run[r].at = "built"
  /\ \E v \in LiveOrNone :
       run' = [run EXCEPT ![r] = [at |-> "read", wrote |-> @.wrote, costs |-> @.costs, inputs |-> @.inputs,
                                  basis |-> v, signed |-> IF v = 0 THEN {} ELSE bases[v].signed]]
  /\ UNCHANGED <<world, exclusions, ledger, bases, signing, papers>>

\* mutant: only the definition is compared
Reproduces_MethodOnly(v, inputs, costs) == bases[v].inputs = inputs

\* reproduce: the definition's hash and the costs' fingerprint.
Reproduces(v, inputs, costs) == bases[v].inputs = inputs /\ bases[v].costs = costs

\* issue: the live basis again if nothing moved, or the next version.
IssueRead(r) ==
  /\ run[r].at = "read"
  /\ \E v \in LiveOrNone :
       IF v # 0 /\ Reproduces(v, run[r].inputs, run[r].costs)
       THEN run' = [run EXCEPT ![r].at = "issued", ![r].basis = v,
                               ![r].signed = IF v = run[r].basis THEN @ ELSE bases[v].signed]
       ELSE run' = [run EXCEPT ![r].at = "issuing", ![r].basis = v]
  /\ UNCHANGED <<world, exclusions, ledger, bases, signing, papers>>

IssueCommit(r) ==
  /\ run[r].at = "issuing" /\ Len(bases) < MAX_BASES
  /\ bases' = Append([v \in DOMAIN bases |-> [bases[v] EXCEPT !.live = @ /\ v # run[r].basis]],
                     [inputs |-> run[r].inputs, costs |-> run[r].costs, signed |-> {}, live |-> TRUE])
  /\ run' = [run EXCEPT ![r].at = "issued", ![r].basis = Len(bases) + 1, ![r].signed = {}]
  /\ UNCHANGED <<world, exclusions, ledger, signing, papers>>

\* mutant: one signature will do
Agreed_One(signed) == signed # {}

\* require_agreed
Agreed(signed) == signed = Sides

\* The paper: final, or refused (a draft says so on the page).
Write(r) ==
  /\ run[r].at \in {"read", "issued"}
  /\ papers' = IF run[r].basis # 0 /\ Agreed(run[r].signed) /\ Reproduces(run[r].basis, run[r].inputs, run[r].costs)
               THEN papers \cup {[version |-> run[r].basis, inputs |-> run[r].inputs, costs |-> run[r].costs]}
               ELSE papers
  /\ run' = [run EXCEPT ![r] = [at |-> "idle", wrote |-> @.wrote]]
  /\ UNCHANGED <<world, exclusions, ledger, bases, signing>>

\* sign_basis: the live basis is read, and the signature committed to that row.
SignRead(s) ==
  /\ signing[s] = 0
  /\ \E v \in LiveBases : s \notin bases[v].signed /\ signing' = [signing EXCEPT ![s] = v]
  /\ UNCHANGED <<world, exclusions, ledger, bases, run, papers>>

SignCommit(s) ==
  /\ signing[s] # 0
  /\ bases' = [bases EXCEPT ![signing[s]].signed = @ \cup {s}]
  /\ signing' = [signing EXCEPT ![s] = 0]
  /\ UNCHANGED <<world, exclusions, ledger, run, papers>>

Next ==
  \/ \E w \in Worlds : Correct(w)
  \/ ChangeExclusions
  \/ \E r \in Runs : (\E b \in BOOLEAN : Begin(r, b)) \/ CostDay(r) \/ CommitCosts(r) \/ Build(r)
  \/ \E r \in Runs : ReadBasis(r) \/ IssueRead(r) \/ IssueCommit(r) \/ Write(r)
  \/ \E s \in Sides : SignRead(s) \/ SignCommit(s)

Spec == Init /\ [][Next]_vars

-----------------------------------------------------------------------------
\* A figure on a final paper is one both sides signed: the same costs, order
\* by order, and the same definition as a basis with both signatures, whatever
\* was recosted, reissued or signed while the paper was made.
FinalIsAgreed ==
  \A p \in papers :
    /\ bases[p.version].signed = Sides
    /\ bases[p.version].costs = p.costs /\ bases[p.version].inputs = p.inputs

\* While one run costs at a time, an order never has two live costs that
\* nothing downstream could choose between, recomputed or not.
OneLiveCost ==
  Cardinality(Runs) = 1 => \A e, f \in Live(ledger) : e.order = f.order => e = f
=============================================================================
