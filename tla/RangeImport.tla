---------------------------- MODULE RangeImport ----------------------------
(* The import of bus traces (import_range.py, utils/import_range_utils.py,  *)
(* utils/db.py): the rows of a file are sorted and split where the value    *)
(* changes, each piece becomes a span of time, spans of one key that are    *)
(* close are grouped together, and the result is inserted with retries.     *)
EXTENDS Integers, Sequences, FiniteSets, SequencesExt

CONSTANTS
    Traces,     \* files: sets of rows [left, right, dt], NoValue for a null
    NoValue,
    Joined,     \* concat_str(split_on) of a row's key; two keys may have the same
    THRESHOLD,  \* GROUP_THRESHOLDS[range_model]
    MaxBreaks   \* bound: broken database connections

ASSUME ImportAssumption ==
    /\ THRESHOLD \in Nat \ {0} /\ MaxBreaks \in Nat
    /\ \A file \in Traces :
          /\ IsFiniteSet(file)
          /\ \A row \in file : /\ row.left \in Nat /\ row.dt \in Nat
                               /\ row.right # NoValue => Joined[<<row.left, row.right>>] # ""

VARIABLES
    trace,    \* the file
    ranges,   \* per key, the spans found so far
    stage,
    stored,   \* how often each span is in the table
    inOrder,  \* history: the keys whose pieces were taken in order
    breaks

importVars == <<trace, ranges, stage, stored, inOrder, breaks>>

Key(row) == <<row.left, row.right>>
KeysOf(rows) == {Key(row) : row \in rows}
Piece(row) == IF row.right = NoValue THEN "" ELSE Joined[Key(row)]

(* sort_split_dataframes: the rows sorted by the left key and the time,     *)
(* those that tie in any order; a row begins a piece when its key, written  *)
(* as one string, is not that of the row before.  A piece is named by the   *)
(* place of its first row.                                                  *)
RowsBefore(a, b) == a.left < b.left \/ (a.left = b.left /\ a.dt < b.dt)

Sortings(rows) ==
    {s \in SetToSeqs(rows) : \A m, n \in DOMAIN s : m < n => ~ RowsBefore(s[n], s[m])}

sort_split_dataframes(s) == {n \in DOMAIN s : n = 1 \/ Piece(s[n]) # Piece(s[n - 1])}

RowsFrom(s, n) ==
    {m \in DOMAIN s : m >= n /\ \A k \in sort_split_dataframes(s) : k <= n \/ k > m}

Earliest(dts) == CHOOSE t \in dts : \A u \in dts : t <= u
Latest_dt(dts) == CHOOSE t \in dts : \A u \in dts : u <= t

(* aggregate_start_end_dt drops the pieces with a null key, files the span  *)
(* of each other under the key of its first row, and takes them as polars'  *)
(* group_by yields them: those of a key, `pieces[key]', in any order.       *)
PiecesOf(s, key) == {n \in sort_split_dataframes(s) : Key(s[n]) = key}

FiledKeys(s) == {key \in {Key(s[n]) : n \in sort_split_dataframes(s)} : key[2] # NoValue}

Span(s, n) ==
    LET dts == {s[m].dt : m \in RowsFrom(s, n)} IN
    [start_dt |-> Earliest(dts), end_dt |-> Latest_dt(dts)]

aggregate_start_end_dt(s, pieces) ==
    [key \in FiledKeys(s) |-> [n \in DOMAIN pieces[key] |-> Span(s, pieces[key][n])]]

Split(file) ==
    /\ stage = "read"
    /\ trace' = file
    /\ \E s \in Sortings(file) :
          \E pieces \in [FiledKeys(s) -> UNION {SetToSeqs(PiecesOf(s, key)) : key \in FiledKeys(s)}] :
             /\ \A key \in FiledKeys(s) : pieces[key] \in SetToSeqs(PiecesOf(s, key))
             /\ ranges' = aggregate_start_end_dt(s, pieces)
             /\ inOrder' = {key \in FiledKeys(s) : \A m, n \in DOMAIN pieces[key] :
                               m < n => pieces[key][m] < pieces[key][n]}
    /\ stage' = "merge"
    /\ UNCHANGED <<stored, breaks>>

---------------------------------------------------------------------------
(* group_is_close_dt: the first two neighbours in the list that are close   *)
(* become one, until there are none.                                        *)
CloseAt(spans) == {n \in 1 .. Len(spans) - 1 : spans[n + 1].start_dt - spans[n].end_dt < THRESHOLD}

MergedFirstEnd(spans, n) == \* Mutant: the first span keeps its own end
    [m \in 1 .. Len(spans) - 1 |-> IF m <= n THEN spans[m] ELSE spans[m + 1]]

Merged(spans, n) ==
    LET last == Latest_dt({spans[n].end_dt, spans[n + 1].end_dt}) IN
    [m \in 1 .. Len(spans) - 1 |-> IF m < n THEN spans[m]
                                   ELSE IF m = n THEN [spans[n] EXCEPT !.end_dt = last]
                                   ELSE spans[m + 1]]

group_is_close_dt(key) ==
    /\ stage = "merge" /\ CloseAt(ranges[key]) # {}
    /\ ranges' = [ranges EXCEPT ![key] = Merged(@, Earliest(CloseAt(@)))]
    /\ UNCHANGED <<trace, stage, stored, inOrder, breaks>>

(* bulk_create under wrap_errors: one transaction, repeated after any       *)
(* error, also when it was the answer that got lost.  No constraint tells   *)
(* the spans of a file apart from those of an earlier attempt.              *)
AllSpans == UNION {{<<key, ranges[key][n]>> : n \in DOMAIN ranges[key]} : key \in DOMAIN ranges}

StoredOnceMore == [s \in AllSpans |-> IF s \in DOMAIN stored THEN stored[s] + 1 ELSE 1]

BulkCreate ==
    /\ stage = "merge" /\ \A key \in DOMAIN ranges : CloseAt(ranges[key]) = {}
    /\ \/ stored' = StoredOnceMore /\ stage' = "done" /\ UNCHANGED breaks
       \/ /\ breaks < MaxBreaks /\ breaks' = breaks + 1
          /\ stored' \in {stored, StoredOnceMore}
          /\ UNCHANGED stage
    /\ UNCHANGED <<trace, ranges, inOrder>>

---------------------------------------------------------------------------
ImportInit ==
    /\ trace = {} /\ ranges = <<>> /\ stage = "read" /\ stored = <<>>
    /\ inOrder = {} /\ breaks = 0

ImportNext ==
    \/ \E file \in Traces : Split(file)
    \/ \E key \in DOMAIN ranges : group_is_close_dt(key)
    \/ BulkCreate

ImportSpec == ImportInit /\ [][ImportNext]_importVars

---------------------------------------------------------------------------
ImportTypeOK ==
    /\ stage \in {"read", "merge", "done"} /\ DOMAIN ranges \subseteq KeysOf(trace)
    /\ \A key \in DOMAIN ranges : \A n \in DOMAIN ranges[key] :
          ranges[key][n].start_dt <= ranges[key][n].end_dt
    /\ breaks \in 0 .. MaxBreaks /\ inOrder \subseteq DOMAIN ranges

(* Keys whose string is that of no other key next to them in the file.      *)
PlainKeys ==
    {key \in KeysOf(trace) : key[2] # NoValue
        /\ \A other \in KeysOf(trace) \ {key} : other[2] # NoValue => Joined[other] # Joined[key]}

(* In whatever order the pieces come, a key whose string is its own is left *)
(* with spans that begin and end at rows of that key, keep their distance,  *)
(* reach its last row, and are stored twice only after an answer was lost.  *)
(* They may leave rows out, for a later piece that comes first swallows the *)
(* earlier one; but not if the pieces of this key come in order, as those   *)
(* of a key with one piece always do, whatever becomes of the other keys.   *)
SpansCoverTrace ==
    stage = "done" =>
        \A key \in PlainKeys :
            LET rows == {row \in trace : Key(row) = key}
                spans == {s[2] : s \in {x \in DOMAIN stored : x[1] = key}}
            IN  /\ \A s \in spans : {s.start_dt, s.end_dt} \subseteq {row.dt : row \in rows}
                /\ \A s, u \in spans : s # u =>
                      \/ u.start_dt - s.end_dt >= THRESHOLD \/ s.start_dt - u.end_dt >= THRESHOLD
                /\ \A row \in rows : \E s \in spans : row.dt <= s.end_dt
                /\ \A s \in spans : stored[<<key, s>>] <= 1 + breaks
                /\ key \in inOrder =>
                      \A row \in rows : \E s \in spans : row.dt \in s.start_dt .. s.end_dt
===========================================================================
