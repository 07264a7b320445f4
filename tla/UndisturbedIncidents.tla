----------------------- MODULE UndisturbedIncidents -----------------------
(* CalendarIncidents with a history variable: the incidents that two calls  *)
(* in progress at the same time were about.  The code takes no lock and     *)
(* saves whole rows, so nothing is promised of these.  Of every other       *)
(* incident everything is, however the calls on the rest overlap: a merge,  *)
(* a cascade, a purge or a stale save on one incident must not reach        *)
(* another.                                                                 *)
EXTENDS CalendarIncidents

VARIABLE disturbed

recordedVars == <<vars, disturbed>>

(* The incidents a call is about: its row, and the row that one revises.    *)
Touched(job) ==
    IF job.stage = "idle" THEN {} ELSE {job.id, job.row.parent} \ {Null}

(* What the calls are about that share an incident with another call, or    *)
(* are about one that is disturbed already.                                 *)
Overlapped(calls, before) ==
    LET shares(w) ==
            \/ Touched(calls[w]) \cap before # {}
            \/ \E v \in Workers \ {w} : Touched(calls[w]) \cap Touched(calls[v]) # {}
    IN  UNION {Touched(calls[w]) : w \in {v \in Workers : shares(v)}}

RecordedInit == Init /\ disturbed = {}
Record == disturbed' = disturbed \cup Overlapped(jobs', disturbed)
RecordedNext == Next /\ Record
RecordedSpec == RecordedInit /\ [][RecordedNext]_recordedVars

Undisturbed == Incidents \ disturbed

---------------------------------------------------------------------------
(* Properties: those of CalendarIncidents, one incident at a time.          *)

(* Public and to-be-deleted chronologies of an incident that no overlapping *)
(* calls were about belong to a published one (clean() and the inherited    *)
(* status of replace_chronologies).                                         *)
UndisturbedStatesFit ==
    \A c \in chronologyRows :
        /\ chronologies[c].incident \in Undisturbed
        /\ chronologies[c].status \in {"live", "pending_deletion"}
        => incidents[chronologies[c].incident].status = "live"

(* A deleted incident that no overlapping calls were about has no open      *)
(* draft and no chronology that waits for a decision (delete_incident).     *)
UndisturbedIsResolved ==
    \A i \in rows \cap Undisturbed : incidents[i].deleted =>
        /\ OpenDrafts(i) = {}
        /\ \A c \in ChronologiesOf(i) :
              chronologies[c].status \notin {"pending_approval", "pending_deletion"}

(* An incident that no overlapping calls were about has at most one open    *)
(* draft (the look-up of update_incident before it revises).                *)
UndisturbedHasOneDraft ==
    \A i \in Undisturbed : Cardinality(OpenDrafts(i)) <= 1

(* No push is queued for an incident that is public and MAJOR already and   *)
(* that no overlapping calls were about (approve_incident).                 *)
UndisturbedNeverRealerts ==
    [][\A i \in (queued' \ queued) \cap Undisturbed :
          ~ (Live(i) /\ incidents[i].fields \in MajorContents)]_recordedVars

(* The columns and tags of a published incident that no overlapping calls   *)
(* were about change only by a step of an admin's call.                     *)
UndisturbedChangedByAdmin ==
    [][\A i \in Undisturbed :
          /\ Live(i) /\ Live(i)'
          /\ <<incidents[i].fields, lines[i]>> # <<incidents'[i].fields, lines'[i]>>
          => \E u \in Admins : Acting(u)]_recordedVars
===========================================================================
