------------------------------ MODULE Manifest ------------------------------
(***************************************************************************)
(* A day's deliveries in one file (app/ingestion/manifest.py and the       *)
(* portal's upload and batch routes).  The file is parsed to the end       *)
(* first; the good rows are grouped by deadline, sent in chunks through    *)
(* the batch route, each row committed on its own, and every result is     *)
(* put back against the line it came from.                                 *)
(***************************************************************************)
EXTENDS Naturals, Sequences, FiniteSets, SequencesExt

CONSTANTS
  Files,           \* files, as sequences of what each line holds
  MAX_ROWS,        \* rows read of a file
  MAX_BATCH_ROWS   \* rows per batch

VARIABLES
  file,      \* the upload
  chunks,    \* batches still to send, as sequences of line numbers
  results,   \* what has been reported so far
  orders,    \* lines whose order was committed
  aborted    \* an exception ended the upload: an error page, no results

vars == <<file, chunks, results, orders, aborted>>

\* What a line holds: nothing, no address, an address that is too long or a
\* priority nobody knows, or a delivery with or without its own deadline.
Kinds == {"blank", "noaddress", "bad", "now", "today", "unsaid"}
Result == [line : Nat, what : {"order", "error"}]

TypeOK ==
  /\ file \in Seq(Kinds)
  /\ \A i \in DOMAIN chunks : Range(chunks[i]) \subseteq DOMAIN file
  /\ results \in Seq(Result)
  /\ orders \subseteq DOMAIN file /\ aborted \in BOOLEAN

\* len(rows) + len(errors) when line i is reached
RowsBefore(f, i) == Cardinality({j \in 1..(i - 1) : f[j] # "blank"})

Read(f) == {i \in DOMAIN f : RowsBefore(f, i) < MAX_ROWS}

\* parse_manifest: rows, and errors with their line; past the limit only the
\* first line is reported, and the rest of the file is not looked at.
Rows(f) == {i \in Read(f) : f[i] \in {"now", "today", "unsaid"}}
Errors(f) == {i \in Read(f) : f[i] \in {"noaddress", "bad"}}
             \cup {i \in DOMAIN f \ Read(f) : \A j \in DOMAIN f \ Read(f) : i <= j}

Lines(S) == SetToSortSeq(S, <)

\* by_deadline: a row without a deadline takes the upload's, which is today.
Group(f, d) == Lines({i \in Rows(f) : f[i] = d \/ (f[i] = "unsaid" /\ d = "today")})

\* mutant: the last, partial chunk is left out
InChunks_FullOnly(s) ==
  [k \in 1..(Len(s) \div MAX_BATCH_ROWS) |->
     SubSeq(s, (k - 1) * MAX_BATCH_ROWS + 1, k * MAX_BATCH_ROWS)]

InChunks(s) ==
  [k \in 1..((Len(s) + MAX_BATCH_ROWS - 1) \div MAX_BATCH_ROWS) |->
     SubSeq(s, (k - 1) * MAX_BATCH_ROWS + 1,
            IF k * MAX_BATCH_ROWS < Len(s) THEN k * MAX_BATCH_ROWS ELSE Len(s))]

\* upload_order_manifest: a file without rows or errors is refused whole.
Init ==
  /\ file \in Files
  /\ Rows(file) \cup Errors(file) # {}
  /\ chunks = InChunks(Group(file, "now")) \o InChunks(Group(file, "today"))
  /\ results = [k \in 1..Cardinality(Errors(file)) |->
                  [line |-> Lines(Errors(file))[k], what |-> "error"]]
  /\ orders = {} /\ aborted = FALSE

\* The answer is sorted by line once the last batch is in.
Answered(rs) ==
  IF Len(chunks) = 1 THEN SortSeq(rs, LAMBDA a, b : a.line < b.line) ELSE rs

\* mutant: a row is reported as sent before its order is in
SendChunk_Hopeful ==
  /\ chunks # <<>> /\ ~aborted
  /\ \E taken \in SUBSET Range(Head(chunks)) : \E told \in SUBSET Range(Head(chunks)) :
       /\ orders' = orders \cup taken
       /\ results' = Answered(results \o [k \in DOMAIN Head(chunks) |->
            [line |-> Head(chunks)[k],
             what |-> IF Head(chunks)[k] \in told THEN "order" ELSE "error"]])
  /\ chunks' = Tail(chunks)
  /\ UNCHANGED <<file, aborted>>

\* submit_orders_batch: each row of the next chunk becomes an order or an
\* error of its own; an address nobody can find costs only its row.  A step
\* of intake that fails after the commit, such as the write to the queue,
\* leaves an order that is reported as an error.
SendChunk ==
  /\ chunks # <<>> /\ ~aborted
  /\ \E taken \in SUBSET Range(Head(chunks)) : \E told \in SUBSET taken :
       /\ orders' = orders \cup taken
       /\ results' = Answered(results \o [k \in DOMAIN Head(chunks) |->
            [line |-> Head(chunks)[k],
             what |-> IF Head(chunks)[k] \in told THEN "order" ELSE "error"]])
  /\ chunks' = Tail(chunks)
  /\ UNCHANGED <<file, aborted>>

\* The account is no longer approved, or the pickup location is not the
\* client's, not known or gone midway: the whole upload fails, and what
\* earlier rows and chunks committed stays.
Abort ==
  /\ chunks # <<>> /\ ~aborted
  /\ \E k \in 0..Len(Head(chunks)) : \E taken \in SUBSET Range(SubSeq(Head(chunks), 1, k)) :
       orders' = orders \cup taken
  /\ aborted' = TRUE
  /\ UNCHANGED <<file, chunks, results>>

Next == SendChunk \/ Abort
Spec == Init /\ [][Next]_vars

-----------------------------------------------------------------------------
\* "Never silently drop a row": once the upload is answered, every line that
\* holds something and lies within the limit is reported exactly once, under
\* its own number and in the file's order; a line reported as an order has
\* one; and a file that is longer says where it was cut.
EveryLineIsAnswered ==
  chunks = <<>> =>
    /\ \A k \in 1..(Len(results) - 1) : results[k].line < results[k + 1].line
    /\ \A i \in DOMAIN file :
         file[i] # "blank" /\ Cardinality({j \in 1..i : file[j] # "blank"}) <= MAX_ROWS =>
           Cardinality({k \in DOMAIN results : results[k].line = i}) = 1
    /\ \A k \in DOMAIN results : results[k].what = "order" => results[k].line \in orders
    /\ Cardinality({i \in DOMAIN file : file[i] # "blank"}) > MAX_ROWS =>
         \E k \in DOMAIN results : results[k].what = "error" /\
           Cardinality({i \in 1..(results[k].line - 1) : file[i] # "blank"}) = MAX_ROWS
=============================================================================
