------------------------------ MODULE Baseline ------------------------------
(***************************************************************************)
(* The baseline (app/baseline): two exports of somebody else's system, a     *)
(* row per drop and a row per charge, reduced to the figures the optimizer   *)
(* will be measured against.  The files are written a row at a time by a     *)
(* world that is known here, so what the loaders and the metrics make of     *)
(* them can be compared with what happened.  A cell is what it would parse   *)
(* to, with the marks that change its meaning; Blank is an empty cell, Junk  *)
(* one no format reads.  Times are whole numbers, DAY of them a day.         *)
(***************************************************************************)
EXTENDS Integers, FiniteSets, FiniteSetsExt, Sequences

CONSTANTS
  Known, Required, Synonyms,   \* fields in the order they are bound; header spellings
  Headers, Overrides,          \* header rows, and --map options, that are tried
  DAY,
  Shifts,                      \* [driver, from, to]: who really worked when
  Styles,                      \* what an hours column holds: "total" or "share"
  Fills,                       \* which cells of a row may be filled in
  StopRefs,
  Charges,                     \* true amounts that may be charged
  MaxRows

Blank == -1
Junk == -2
Unbound == "unbound"

VARIABLES
  file,      \* the activity export: its header row, the --map options, whether its
             \* shift columns are clock times, and what its hours column holds
  activity,  \* its rows
  invoices   \* the rows of the invoice export

vars == <<file, activity, invoices>>

Files == [headers : Headers, overrides : Overrides, clock : BOOLEAN, style : Styles]
TypeOK == /\ file \in Files /\ Len(activity) + Len(invoices) <= MaxRows

Init == file \in Files /\ activity = <<>> /\ invoices = <<>>

-----------------------------------------------------------------------------
(* Columns.                                                                 *)

Cols == {file.headers[i] : i \in DOMAIN file.headers}
Overridden == DOMAIN file.overrides
Candidates(f) == <<f>> \o Synonyms[f]

\* mutant: a column may be used twice
Taken_Never(bound, h) == FALSE
Taken(bound, h) == \E f \in DOMAIN bound : bound[f] = h
\* The first spelling, the field's own before its synonyms, that is a column
\* nothing else is bound to.
Detected(bound, f) ==
  LET free == {i \in DOMAIN Candidates(f) : Candidates(f)[i] \in Cols /\ ~Taken(bound, Candidates(f)[i])}
  IN IF free = {} THEN Unbound ELSE Candidates(f)[Min(free)]
\* resolve: --map first, then the rest in order; refused when --map names no
\* column or a required field is left over.
Bound ==
  LET byMap == [f \in {Known[i] : i \in DOMAIN Known} |-> IF f \in Overridden THEN file.overrides[f] ELSE Unbound]
      upTo[i \in 0..Len(Known)] ==
        IF i = 0 THEN byMap
        ELSE LET b == upTo[i - 1] IN
             IF b[Known[i]] # Unbound THEN b ELSE [b EXCEPT ![Known[i]] = Detected(b, Known[i])]
  IN upTo[Len(Known)]
resolves ==
  /\ \A f \in Overridden : file.overrides[f] \in Cols
  /\ \A f \in Required : Bound[f] # Unbound

-----------------------------------------------------------------------------
(* Rows.                                                                    *)

\* A drop of one shift is written: cells for a completion time, clock times or
\* full times of the shift, and hours; some are left out or cannot be read.
Length(s) == s.to - s.from
HoursCell(s) ==
  IF file.style = "total" THEN Length(s) ELSE 1
WriteDrop(s, at, ref, filled) ==
  /\ Len(activity) + Len(invoices) < MaxRows /\ s.from <= at /\ at <= s.to
  /\ activity' = Append(activity,
       [shift |-> s, at |-> at, stop_ref |-> ref,
        driver |-> IF "driver" \in filled THEN s.driver ELSE Blank,
        completed |-> IF "completed" \in filled THEN at ELSE Junk,
        start |-> IF "start" \in filled THEN s.from ELSE Blank,
        end |-> IF "end" \in filled THEN s.to ELSE Blank,
        hours |-> IF "hours" \in filled THEN HoursCell(s) ELSE Blank])
  /\ UNCHANGED <<file, invoices>>

\* A charge is written plainly, in parentheses, with a trailing minus or so that
\* nothing can read it, with or without the number of stops it covers.
WriteCharge(amount, mark, ref, stops, counted) ==
  /\ Len(activity) + Len(invoices) < MaxRows
  /\ mark \in IF amount > 0 THEN {"plain", "junk"} ELSE {"parens", "minus", "junk"}
  /\ invoices' = Append(invoices,
       [true |-> amount, stop_ref |-> ref, stops |-> stops, stop_count |-> IF counted THEN Cardinality(stops) ELSE Blank,
        amount |-> [digits |-> IF amount < 0 THEN -amount ELSE amount, mark |-> mark]])
  /\ UNCHANGED <<file, activity>>

\* mutant: parentheses are noise
parse_number_Positive(cell) == IF cell.mark = "minus" THEN -cell.digits ELSE cell.digits
parse_number(cell) == IF cell.mark \in {"parens", "minus"} THEN -cell.digits ELSE cell.digits

\* parse_timestamp puts a bare clock time on a placeholder date.
Stamp(t) == IF file.clock THEN (t % DAY) - 9 * DAY ELSE t

\* load_activity: a row with no driver or no readable completion is an issue;
\* a shift end that is only a clock time and comes before its start is pushed
\* over midnight.
Usable == {i \in DOMAIN activity : activity[i].driver # Blank /\ activity[i].completed # Junk}
Issues == DOMAIN activity \ Usable
shift_start(i) == Stamp(activity[i].start)
shift_end(i) ==
  LET r == activity[i]
      e == Stamp(r.end)
  IN IF r.start # Blank /\ file.clock /\ e < Stamp(r.start) THEN e + DAY ELSE e

-----------------------------------------------------------------------------
(* Metrics.                                                                 *)

_driver_days == {<<activity[i].driver, activity[i].completed \div DAY>> : i \in Usable}
Members(k) == {i \in Usable : activity[i].driver = k[1] /\ activity[i].completed \div DAY = k[2]}

\* mutant: a daily total repeated on every row is added up
Stated_Summed(is) == MapThenSumSet(LAMBDA i : activity[i].hours, is)
\* Several rows that all agree repeat one daily total.
Stated(is) ==
  IF Cardinality({activity[i].hours : i \in is}) = 1 /\ Cardinality(is) > 1
  THEN activity[CHOOSE i \in is : TRUE].hours
  ELSE MapThenSumSet(LAMBDA i : activity[i].hours, is)
\* The best source a driver-day has: its shift, the hours stated, the span of
\* its drops.
DayHours(k) ==
  LET started == {i \in Members(k) : activity[i].start # Blank}
      ended == {i \in Members(k) : activity[i].end # Blank}
      shift == IF started = {} \/ ended = {} THEN 0
               ELSE Max({shift_end(i) : i \in ended}) - Min({shift_start(i) : i \in started})
      stated == {i \in Members(k) : activity[i].hours # Blank}
      at == {activity[i].completed : i \in Members(k)}
  IN CASE shift > 0 -> [source |-> "shift", hours |-> shift]
       [] shift <= 0 /\ stated # {} -> [source |-> "stated", hours |-> Stated(stated)]
       [] shift <= 0 /\ stated = {} -> [source |-> "span", hours |-> Max(at) - Min(at)]
engaged_hours ==
  LET days == {k \in _driver_days : DayHours(k).hours > 0} IN
  [total |-> MapThenSumSet(LAMBDA k : DayHours(k).hours, days), covered |-> days,
   sources |-> {DayHours(k).source : k \in days}]

Refs(is, rows) == {rows[i].stop_ref : i \in is} \ {Blank}
a_refs == Refs(Usable, activity)
\* load_invoices: a line whose amount cannot be read is an issue.
Charged == {i \in DOMAIN invoices : invoices[i].amount.mark # "junk"}
i_refs == Refs(Charged, invoices)
\* The stops the lines state, if every line does; otherwise a line is a stop.
StateCounts == \A i \in Charged : invoices[i].stop_count # Blank
\* mutant: a line is a stop
_billed_stops_Lines == Cardinality(Charged)
_billed_stops ==
  IF StateCounts THEN MapThenSumSet(LAMBDA i : invoices[i].stop_count, Charged) ELSE Cardinality(Charged)
total_charged == MapThenSumSet(LAMBDA i : parse_number(invoices[i].amount), Charged)

\* _add_reconciliation: what was completed and never billed, and the reverse.
_add_reconciliation ==
  LET joined == a_refs # {} /\ i_refs # {} IN
  [available |-> joined,
   unbilled |-> IF joined THEN a_refs \ i_refs ELSE {}, unserved |-> IF joined THEN i_refs \ a_refs ELSE {}]

Next ==
  \/ \E s \in Shifts, ref \in StopRefs \cup {Blank}, filled \in Fills :
       \E at \in s.from..s.to : WriteDrop(s, at, ref, filled)
  \/ \E amount \in Charges, mark \in {"plain", "parens", "minus", "junk"}, ref \in StopRefs \cup {Blank}, stops \in {{1}, {1, 2}}, counted \in BOOLEAN :
       WriteCharge(amount, mark, ref, stops, counted)

Spec == Init /\ [][Next]_vars

-----------------------------------------------------------------------------
\* A column feeds one field unless a person said otherwise: a field that was
\* detected shares its column with no other, and what --map says stands.
ColumnsFeedOneField ==
  resolves =>
    /\ \A f \in Overridden : Bound[f] = file.overrides[f]
    /\ \A f, g \in DOMAIN Bound :
         f \notin Overridden /\ Bound[f] # Unbound /\ f # g => Bound[f] # Bound[g]

\* Hours are not overstated, however the export repeats, splits or leaves out
\* the shift: they never exceed the hours really worked on the driver-days of
\* the file, and are those hours when shifts or daily totals cover every day.
\* (A shift with drops either side of midnight is two driver-days, and its
\* hours count twice.)
OneShiftADay ==
  \A i, j \in Usable : activity[i].shift = activity[j].shift
    <=> activity[i].driver = activity[j].driver /\ activity[i].completed \div DAY = activity[j].completed \div DAY
Worked == MapThenSumSet(LAMBDA s : Length(s), {activity[i].shift : i \in Usable})
HoursAreNotOverstated ==
  OneShiftADay =>
    /\ engaged_hours.total <= Worked
    /\ (engaged_hours.covered = _driver_days
        /\ engaged_hours.sources \subseteq {"shift"} \cup (IF file.style = "total" THEN {"stated"} ELSE {}))
         => engaged_hours.total = Worked

\* Charges keep their sign and number: a credit lowers the total whichever way
\* it is written, lines that say how many stops they bill count them all, and a
\* stop is reported as unbilled or unserved exactly when the other file, as far
\* as it could be read, has no row for it.
ChargesAddUp ==
  /\ total_charged = MapThenSumSet(LAMBDA i : invoices[i].true, Charged)
  /\ StateCounts => _billed_stops = Cardinality(UNION {{i} \X invoices[i].stops : i \in Charged})
  /\ _add_reconciliation.available =>
       \A r \in StopRefs :
         /\ r \in _add_reconciliation.unbilled <=>
              (\E i \in Usable : activity[i].stop_ref = r) /\ (\A j \in Charged : invoices[j].stop_ref # r)
         /\ r \in _add_reconciliation.unserved <=>
              (\E j \in Charged : invoices[j].stop_ref = r) /\ (\A i \in Usable : activity[i].stop_ref # r)
=============================================================================
