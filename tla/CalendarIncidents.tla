------------------------- MODULE CalendarIncidents ------------------------
(* The moderation workflow of calendar incidents, their draft revisions and *)
(* their chronologies (incident/services/incidents.py, chronologies.py).    *)
(* A call first reads a row and checks it; later it saves the whole row it  *)
(* has in memory, and an edit goes on with two more transactions.  Between  *)
(* its steps other calls and the purge tasks run, and a call may stop       *)
(* anywhere.  With one worker the calls run one after the other.            *)
EXTENDS LinkForest

CONSTANTS
    Workers,         \* calls that can be in progress at the same time
    Users, Admins,
    Incidents,       \* primary keys of CalendarIncident
    Chronologies,    \* primary keys of CalendarIncidentChronology
    Contents,        \* what an edit can write: the columns and the m2m sets
    MajorContents,   \* the contents whose severity is MAJOR
    Keys,            \* identity of a chronology: indicator, instant, url, text
    Empty,           \* no m2m rows yet
    MaxVersion,      \* bound: versions past it are not told apart
    MaxOriginals,    \* bound: rows that revise no other row
    MaxQueued        \* bound: push tasks that are kept track of

ASSUME ConstantsAssumption ==
    /\ Admins \subseteq Users
    /\ MajorContents \subseteq Contents
    /\ Null \notin Incidents \cup Users /\ Empty \notin Contents
    /\ MaxVersion \in Nat \ {0}
    /\ MaxOriginals \in Nat /\ MaxQueued \in Nat

VARIABLES
    incidents,      \* the rows, the soft-deleted ones included
    lines,          \* the m2m sets of every row, written apart from it
    chronologies,   \* the rows that are not deleted
    jobs,           \* the call each worker is in
    queued,         \* push tasks enqueued and not yet run
    expired         \* the row a purge task has loaded and deletes next

vars == <<incidents, lines, chronologies, jobs, queued, expired>>
tables == <<incidents, lines, chronologies>>

rows == DOMAIN incidents
chronologyRows == DOMAIN chronologies

IncidentStatuses == {"draft", "pending_approval", "live", "rejected"}
ChronologyStatuses == IncidentStatuses \cup {"pending_deletion"}

IncidentRow ==
    [deleted : BOOLEAN, status : IncidentStatuses, version : 1 .. MaxVersion,
     parent : Incidents \cup {Null}, author : Users, fields : Contents]
ChronologyRow ==
    [incident : Incidents, key : Keys, status : ChronologyStatuses]

Visible(i) == i \in rows /\ ~ incidents[i].deleted
IsAlerting(row) == row.status = "live" /\ row.fields \in MajorContents
MayEdit(u, row) == u \in Admins \/ row.author = u
Bump(version) == IF version < MaxVersion THEN version + 1 ELSE version

OpenDrafts(i) ==
    {d \in rows : Visible(d) /\ incidents[d].parent = i /\ incidents[d].status = "draft"}

ChronologiesOf(i) == {c \in chronologyRows : chronologies[c].incident = i}

Idle == [stage |-> "idle"]

(* What a call keeps in memory: the incident row it read; for an edit, what *)
(* the client sent; for a call on a chronology, the row it will write.      *)
PlainJob ==
    [stage : {"submit", "promote", "merge", "reject", "children", "delete"},
     user : Users, id : Incidents, row : IncidentRow]
EditJob ==
    [stage : {"fields", "drafts", "revise", "tags", "chronologies"},
     user : Users, id : Incidents, row : IncidentRow,
     content : Contents, writes : SUBSET Keys]
ChronologyJobs ==
    [stage : {"store", "settle", "drop"},
     user : Users, id : Incidents, row : IncidentRow,
     chronology : Chronologies, write : ChronologyRow]

Job(stage, u, i, row) ==
    [stage |-> stage, user |-> u, id |-> i, row |-> row]

Init ==
    /\ incidents = [i \in {} |-> 0]
    /\ lines = [i \in {} |-> Empty]
    /\ chronologies = [c \in {} |-> 0]
    /\ jobs = [w \in Workers |-> Idle]
    /\ queued = {}
    /\ expired = Null

---------------------------------------------------------------------------
(* Primary keys no row and no call in progress has.                         *)

InMemory(w, i) ==
    jobs[w].stage # "idle" /\ (jobs[w].id = i \/ jobs[w].row.parent = i)
FreshIncident(i) ==
    /\ i \in Incidents \ (rows \cup queued \cup {expired})
    /\ ~ \E w \in Workers : InMemory(w, i)

HeldChronology(c) ==
    \E w \in Workers : "chronology" \in DOMAIN jobs[w] /\ jobs[w].chronology = c
FreshChronologies(replaced) ==
    {c \in Chronologies \ (chronologyRows \ replaced) : ~ HeldChronology(c)}

---------------------------------------------------------------------------
(* What the ORM does.                                                       *)

Put(f, x, v) == [y \in DOMAIN f \cup {x} |-> IF y = x THEN v ELSE f[y]]
Only(f, S) == [x \in S |-> f[x]]

(* The whole row is written.  A row that is gone is inserted again, without *)
(* m2m rows; a parent that is gone is an IntegrityError.                    *)
Write(i, row) ==
    /\ row.parent \in rows \cup {Null}
    /\ incidents' = Put(incidents, i, row)
    /\ lines' = IF i \in rows THEN lines ELSE Put(lines, i, Empty)

(* save() of a safedelete model makes a soft-deleted row visible again.     *)
Save(i, row) == Write(i, [row EXCEPT !.deleted = FALSE])

(* A hard delete takes the revisions of the row and all chronologies along. *)
HardDeletedAlone(i) == {i}

HardDeleted(i) ==
    IF i \in rows THEN Subtree([j \in rows |-> incidents[j].parent], i) ELSE {}

HardDelete(i) ==
    LET left == rows \ HardDeleted(i)
    IN  /\ incidents' = Only(incidents, left)
        /\ lines' = Only(lines, left)
        /\ chronologies' = Only(chronologies,
                {c \in chronologyRows : chronologies[c].incident \in left})

(* replace_chronologies: the pending states of rows that are sent again     *)
(* survive, every other new row gets the status the call inherited.         *)
ReplaceChronologies(i, writes, inherited) ==
    LET old == ChronologiesOf(i)
        kept(k) == {chronologies[c].status : c \in {d \in old : chronologies[d].key = k}}
                       \cap {"pending_deletion", "pending_approval"}
    IN  \E new \in [writes -> FreshChronologies(old)],
           status \in [writes -> ChronologyStatuses] :
          /\ \A k, l \in writes : new[k] = new[l] => k = l
          /\ \A k \in writes :
                IF kept(k) = {} THEN status[k] = inherited ELSE status[k] \in kept(k)
          /\ chronologies' =
                [c \in (chronologyRows \ old) \cup {new[k] : k \in writes} |->
                    IF \E k \in writes : new[k] = c
                    THEN LET k == CHOOSE l \in writes : new[l] = c
                         IN  [incident |-> i, key |-> k, status |-> status[k]]
                    ELSE chronologies[c]]

---------------------------------------------------------------------------
(* The first half of the calls: read, check, keep the row in memory.        *)

Start(w, job) ==
    /\ jobs[w] = Idle
    /\ jobs' = [jobs EXCEPT ![w] = job]
    /\ UNCHANGED <<tables, queued, expired>>

Edit(stage, u, i, row, content, writes) ==
    [stage |-> stage, user |-> u, id |-> i, row |-> row,
     content |-> content, writes |-> writes]

(* Slip: an author always edits in place.                                   *)
AuthorEditsInPlace(w, u, i, content, writes) ==
    /\ Visible(i)
    /\ MayEdit(u, incidents[i]) \/ incidents[i].status = "live"
    /\ Start(w, Edit(IF MayEdit(u, incidents[i]) THEN "fields" ELSE "drafts",
                     u, i, incidents[i], content, writes))

(* update_incident.  The version the client sent is the version it read     *)
(* here: any other is refused.                                              *)
ReadForUpdate(w, u, i, content, writes) ==
    LET row == incidents[i]
        inPlace == \/ row.status = "draft"
                   \/ u \in Admins
                   \/ row.author = u /\ row.status = "pending_approval"
    IN  /\ Visible(i)
        /\ MayEdit(u, row) \/ row.status = "live"
        /\ Start(w, Edit(IF inPlace THEN "fields" ELSE "drafts", u, i, row,
                         content, writes))

ReadForSubmit(w, u, i) ==
    /\ Visible(i)
    /\ incidents[i].status = "draft"
    /\ MayEdit(u, incidents[i])
    /\ Start(w, Job("submit", u, i, incidents[i]))

ReadForApprove(w, u, i) ==
    /\ Visible(i)
    /\ u \in Admins
    /\ incidents[i].parent = Null => incidents[i].status = "pending_approval"
    /\ Start(w, Job(IF incidents[i].parent = Null THEN "promote" ELSE "merge",
                    u, i, incidents[i]))

ReadForReject(w, u, i) ==
    /\ Visible(i)
    /\ u \in Admins
    /\ incidents[i].status \in {"draft", "pending_approval"}
    /\ Start(w, Job("reject", u, i, incidents[i]))

ReadForDelete(w, u, i) ==
    /\ Visible(i)
    /\ \/ u \in Admins
       \/ /\ incidents[i].author = u
          /\ incidents[i].status \in {"draft", "pending_approval"}
    /\ Start(w, Job("children", u, i, incidents[i]))

(* chronologies.py.  clean() of a row that keeps the status it has, or gets *)
(* its parent's, looks at the parent in memory.                             *)
ChronologyJob(stage, u, row, c, written) ==
    [stage |-> stage, user |-> u, id |-> written.incident, row |-> row,
     chronology |-> c, write |-> written]

Clean(written, parentStatus) == written.status = "live" => parentStatus = "live"

CreateChronology(w, u, i, c, k) ==
    LET new == [incident |-> i, key |-> k, status |-> incidents[i].status]
    IN  /\ Visible(i)
        /\ MayEdit(u, incidents[i])
        /\ c \in FreshChronologies({})
        /\ Start(w, ChronologyJob("store", u, incidents[i], c, new))

(* The calls on an existing chronology whose incident is visible.           *)
OnChronology(w, u, c, stage, written) ==
    /\ Visible(chronologies[c].incident)
    /\ Start(w, ChronologyJob(stage, u, incidents[chronologies[c].incident], c,
                              written))

UpdateChronology(w, u, c, k) ==
    LET written == [chronologies[c] EXCEPT !.key = k]
        parent == incidents[written.incident]
    IN  /\ OnChronology(w, u, c, "store", written)
        /\ MayEdit(u, parent)
        /\ Clean(written, parent.status)

(* OrderedModel.to saves the whole row and does not call clean().           *)
ReorderChronology(w, u, c) ==
    /\ OnChronology(w, u, c, "store", chronologies[c])
    /\ MayEdit(u, incidents[chronologies[c].incident])

ApproveChronology(w, u, c) ==
    /\ OnChronology(w, u, c, "settle", [chronologies[c] EXCEPT !.status = "live"])
    /\ u \in Admins
    /\ incidents[chronologies[c].incident].status = "live"

RequestDeletion(w, u, c) ==
    /\ OnChronology(w, u, c, "store",
                    [chronologies[c] EXCEPT !.status = "pending_deletion"])
    /\ MayEdit(u, incidents[chronologies[c].incident])
    /\ chronologies[c].status = "live"

RejectDeletion(w, u, c) ==
    /\ OnChronology(w, u, c, "settle", [chronologies[c] EXCEPT !.status = "live"])
    /\ u \in Admins

ApproveDeletion(w, u, c) ==
    /\ OnChronology(w, u, c, "drop", chronologies[c])
    /\ u \in Admins

DeleteChronology(w, u, c) ==
    LET parent == incidents[chronologies[c].incident]
    IN  /\ OnChronology(w, u, c, "drop", chronologies[c])
        /\ \/ u \in Admins
           \/ /\ parent.author = u
              /\ {chronologies[c].status, parent.status}
                    \cap {"draft", "pending_approval"} # {}

ChronologyCall(w, u, c) ==
    \/ \E k \in Keys : UpdateChronology(w, u, c, k)
    \/ ReorderChronology(w, u, c)
    \/ ApproveChronology(w, u, c)
    \/ RequestDeletion(w, u, c)
    \/ RejectDeletion(w, u, c)
    \/ ApproveDeletion(w, u, c)
    \/ DeleteChronology(w, u, c)

---------------------------------------------------------------------------
(* The second half: one transaction per step.                               *)

Goto(w, stage) == jobs' = [jobs EXCEPT ![w].stage = stage]
Finish(w) == jobs' = [jobs EXCEPT ![w] = Idle]

Insert(w, u, i, status, up, content, writes) ==
    LET row == [deleted |-> FALSE, status |-> status, version |-> 1, parent |-> up,
                author |-> u, fields |-> content]
    IN  /\ FreshIncident(i)
        /\ Write(i, row)
        /\ jobs' = [jobs EXCEPT ![w] = Edit("tags", u, i, row, content, writes)]
        /\ UNCHANGED <<chronologies, queued, expired>>

CreateIncident(w, u, i, content, writes) ==
    /\ jobs[w] = Idle
    /\ Cardinality({j \in rows : incidents[j].parent = Null}) < MaxOriginals
    /\ Insert(w, u, i, IF u \in Admins THEN "live" ELSE "draft", Null, content, writes)

(* Slip: only one's own drafts are looked for.                              *)
LookForOwnDraft(w) ==
    LET job == jobs[w]
        own == {d \in OpenDrafts(job.id) : incidents[d].author = job.user}
    IN  /\ job.stage = "drafts"
        /\ IF own = {} THEN Goto(w, "revise")
           ELSE \E d \in own : jobs' = [jobs EXCEPT ![w] =
                   Edit("fields", job.user, d, incidents[d], job.content, job.writes)]
        /\ UNCHANGED <<tables, queued, expired>>

(* Someone else's open draft refuses the call; one's own is read afresh,    *)
(* its version unchecked.                                                   *)
LookForDraft(w) ==
    LET job == jobs[w]
    IN  /\ job.stage = "drafts"
        /\ IF OpenDrafts(job.id) = {} THEN Goto(w, "revise")
           ELSE \E d \in OpenDrafts(job.id) :
                  IF incidents[d].author = job.user
                  THEN jobs' = [jobs EXCEPT ![w] = Edit("fields", job.user, d,
                                    incidents[d], job.content, job.writes)]
                  ELSE Finish(w)
        /\ UNCHANGED <<tables, queued, expired>>

(* Slip: the revision starts with the status of the incident it revises.    *)
ReviseWithStatus(w, i) ==
    /\ jobs[w].stage = "revise"
    /\ Insert(w, jobs[w].user, i, jobs[w].row.status, jobs[w].id, jobs[w].content,
              jobs[w].writes)

Revise(w, i) ==
    /\ jobs[w].stage = "revise"
    /\ Insert(w, jobs[w].user, i, "draft", jobs[w].id, jobs[w].content, jobs[w].writes)

Edited(job) ==
    [job.row EXCEPT !.fields = job.content, !.version = Bump(job.row.version)]

WriteFields(w) ==
    /\ jobs[w].stage = "fields"
    /\ Save(jobs[w].id, Edited(jobs[w]))
    /\ Goto(w, "tags")
    /\ UNCHANGED <<chronologies, queued, expired>>

WriteTags(w) ==
    LET job == jobs[w]
    IN  /\ job.stage = "tags"
        /\ job.id \in rows
        /\ lines' = [lines EXCEPT ![job.id] = job.content]
        /\ Goto(w, "chronologies")
        /\ UNCHANGED <<incidents, chronologies, queued, expired>>

WriteChronologies(w) ==
    LET job == jobs[w]
    IN  /\ job.stage = "chronologies"
        /\ job.id \in rows
        /\ ReplaceChronologies(job.id, job.writes, job.row.status)
        /\ Finish(w)
        /\ UNCHANGED <<incidents, lines, queued, expired>>

SaveStatus(w, stage, status) ==
    /\ jobs[w].stage = stage
    /\ Save(jobs[w].id, [jobs[w].row EXCEPT !.status = status])
    /\ Finish(w)
    /\ UNCHANGED <<chronologies, expired>>

SubmitIncident(w) == SaveStatus(w, "submit", "pending_approval") /\ UNCHANGED queued
RejectIncident(w) == SaveStatus(w, "reject", "rejected") /\ UNCHANGED queued

Enqueue(i) ==
    queued' = IF Cardinality(queued) < MaxQueued THEN queued \cup {i} ELSE queued

(* A merge alerts when the parent becomes LIVE and MAJOR by it.  Slip: it   *)
(* alerts whenever the parent is LIVE and MAJOR after it.                   *)
AlertsWhenMajor(parentRow, revision) == revision.fields \in MajorContents
MergeAlerts(parentRow, revision) ==
    revision.fields \in MajorContents /\ ~ IsAlerting(parentRow)

Promote(w) == SaveStatus(w, "promote", "live") /\ Enqueue(jobs[w].id)

(* The revision's columns come from memory, its m2m rows and chronologies   *)
(* from the table; its own status is never looked at.                       *)
Merged(parentRow, revision) ==
    [parentRow EXCEPT !.fields = revision.fields, !.status = "live",
                      !.version = Bump(parentRow.version)]

Merge(w) ==
    LET job == jobs[w]
        p == job.row.parent
        left == rows \ HardDeleted(job.id)
        moved(c) == chronologies[c].incident = job.id
    IN  /\ job.stage = "merge"
        /\ Visible(p)
        /\ incidents' = [j \in left |-> IF j = p THEN Merged(incidents[p], job.row)
                                        ELSE incidents[j]]
        /\ lines' = [j \in left |-> IF j # p THEN lines[j]
                                    ELSE IF job.id \in rows THEN lines[job.id]
                                    ELSE Empty]
        /\ chronologies' =
              [c \in {d \in chronologyRows : moved(d) \/
                         chronologies[d].incident \in left \ {p}} |->
                  IF moved(c) THEN [chronologies[c] EXCEPT !.incident = p]
                  ELSE chronologies[c]]
        /\ IF MergeAlerts(incidents[p], job.row) THEN Enqueue(p) ELSE UNCHANGED queued
        /\ Finish(w)
        /\ UNCHANGED expired

(* Slip: the drafts are resolved and the chronologies forgotten.            *)
ResolveDrafts(w) ==
    /\ jobs[w].stage = "children"
    /\ incidents' = [j \in rows |-> IF j \in OpenDrafts(jobs[w].id)
                                    THEN [incidents[j] EXCEPT !.deleted = TRUE]
                                    ELSE incidents[j]]
    /\ Goto(w, "delete")
    /\ UNCHANGED <<lines, chronologies, queued, expired>>

(* delete_incident: safedelete does not cascade a soft delete.              *)
ResolveChildren(w) ==
    LET job == jobs[w]
    IN  /\ job.stage = "children"
        /\ incidents' = [j \in rows |-> IF j \in OpenDrafts(job.id)
                                        THEN [incidents[j] EXCEPT !.deleted = TRUE]
                                        ELSE incidents[j]]
        /\ chronologies' = Only(chronologies,
              {c \in chronologyRows :
                  ~ /\ chronologies[c].incident = job.id
                    /\ chronologies[c].status \in {"pending_approval", "pending_deletion"}})
        /\ Goto(w, "delete")
        /\ UNCHANGED <<lines, queued, expired>>

SoftDelete(w) ==
    /\ jobs[w].stage = "delete"
    /\ Write(jobs[w].id, [jobs[w].row EXCEPT !.deleted = TRUE])
    /\ Finish(w)
    /\ UNCHANGED <<chronologies, queued, expired>>

(* Slip: a decision on a chronology is saved without clean().               *)
SaveUnclean(w) ==
    /\ jobs[w].stage \in {"store", "settle"}
    /\ jobs[w].id \in rows
    /\ chronologies' = Put(chronologies, jobs[w].chronology, jobs[w].write)
    /\ Finish(w)
    /\ UNCHANGED <<incidents, lines, queued, expired>>

(* clean() of a decision on a chronology reads the incident again.          *)
SaveChronology(w) ==
    LET job == jobs[w]
    IN  /\ job.stage \in {"store", "settle"}
        /\ job.id \in rows
        /\ job.stage = "settle" => Clean(job.write, incidents[job.id].status)
        /\ chronologies' = Put(chronologies, job.chronology, job.write)
        /\ Finish(w)
        /\ UNCHANGED <<incidents, lines, queued, expired>>

DropChronology(w) ==
    /\ jobs[w].stage = "drop"
    /\ chronologies' = Only(chronologies, chronologyRows \ {jobs[w].chronology})
    /\ Finish(w)
    /\ UNCHANGED <<incidents, lines, queued, expired>>

(* The call stops: an exception, an IntegrityError, a restart.              *)
Fail(w) ==
    /\ jobs[w] # Idle
    /\ Finish(w)
    /\ UNCHANGED <<tables, queued, expired>>

---------------------------------------------------------------------------
(* The daily purges load the rows past retention, then delete them.         *)

LoadDeleted(i) ==
    /\ expired = Null
    /\ i \in rows /\ incidents[i].deleted
    /\ expired' = i
    /\ UNCHANGED <<tables, jobs, queued>>

LoadRejected(i) ==
    /\ expired = Null
    /\ Visible(i) /\ incidents[i].status = "rejected"
    /\ expired' = i
    /\ UNCHANGED <<tables, jobs, queued>>

Purge ==
    /\ expired # Null
    /\ IF expired \in rows THEN HardDelete(expired) ELSE UNCHANGED tables
    /\ expired' = Null
    /\ UNCHANGED <<jobs, queued>>

Notify(i) ==
    /\ i \in queued
    /\ queued' = queued \ {i}
    /\ UNCHANGED <<tables, jobs, expired>>

---------------------------------------------------------------------------

Calls(w, u) ==
    \/ \E i \in Incidents :
          \/ \E content \in Contents, writes \in SUBSET Keys :
                CreateIncident(w, u, i, content, writes)
          \/ \E c \in Chronologies, k \in Keys : CreateChronology(w, u, i, c, k)
    \/ \E i \in rows :
          \/ \E content \in Contents, writes \in SUBSET Keys :
                ReadForUpdate(w, u, i, content, writes)
          \/ ReadForSubmit(w, u, i)
          \/ ReadForApprove(w, u, i)
          \/ ReadForReject(w, u, i)
          \/ ReadForDelete(w, u, i)
    \/ \E c \in chronologyRows : ChronologyCall(w, u, c)

Steps(w) ==
    \/ LookForDraft(w)
    \/ \E i \in Incidents : Revise(w, i)
    \/ WriteFields(w) \/ WriteTags(w) \/ WriteChronologies(w)
    \/ SubmitIncident(w) \/ RejectIncident(w) \/ Promote(w) \/ Merge(w)
    \/ ResolveChildren(w) \/ SoftDelete(w)
    \/ SaveChronology(w) \/ DropChronology(w)
    \/ Fail(w)

Next ==
    \/ \E w \in Workers : Steps(w) \/ \E u \in Users : Calls(w, u)
    \/ \E i \in rows : LoadDeleted(i) \/ LoadRejected(i)
    \/ Purge
    \/ \E i \in queued : Notify(i)

Spec == Init /\ [][Next]_vars

---------------------------------------------------------------------------
(* Properties.                                                              *)

WellTyped ==
    /\ rows \subseteq Incidents /\ incidents \in [rows -> IncidentRow]
    /\ chronologyRows \subseteq Chronologies
    /\ chronologies \in [chronologyRows -> ChronologyRow]
    /\ jobs \in [Workers -> {Idle} \cup PlainJob \cup EditJob \cup ChronologyJobs]

(* Every row and every call is well formed and the tables hang together: a  *)
(* revision's parent and a chronology's incident are there, and every row   *)
(* has its m2m sets, whatever was purged or inserted again (the foreign     *)
(* keys of incident/models.py and the cascade of a hard delete).            *)
TypeOK ==
    /\ WellTyped
    /\ \A i \in rows : incidents[i].parent \in rows \cup {Null}
    /\ \A c \in chronologyRows : chronologies[c].incident \in rows
    /\ lines \in [rows -> Contents \cup {Empty}]
    /\ queued \subseteq Incidents
    /\ expired \in Incidents \cup {Null}

Live(i) == Visible(i) /\ incidents[i].status = "live"

(* The user whose call takes this step.                                     *)
Acting(u) ==
    \E w \in Workers :
        /\ jobs'[w] # jobs[w]
        /\ u = IF jobs[w] = Idle THEN jobs'[w].user ELSE jobs[w].user

(* Whatever overlaps, an incident appears in public only by a step of an    *)
(* admin's call: no stale save of an author's or a reader's publishes.      *)
PublishedOnlyByAdmin ==
    [][\A i \in Incidents :
          ~ Live(i) /\ Live(i)' => \E u \in Admins : Acting(u)]_vars

(* With calls that do not overlap, the columns and the tags of a published  *)
(* incident change only by a step of an admin's call, whatever call stopped *)
(* half-way before.                                                         *)
LiveChangedByAdmin ==
    [][\A i \in Incidents :
          /\ Live(i) /\ Live(i)'
          /\ <<incidents[i].fields, lines[i]>> # <<incidents'[i].fields, lines'[i]>>
          => \E u \in Admins : Acting(u)]_vars

(* An incident has at most one open draft, whoever edits, resumes, has a    *)
(* draft rejected or gives up half-way.                                     *)
OneOpenDraft == \A i \in rows : Cardinality(OpenDrafts(i)) <= 1

(* Public and to-be-deleted chronologies belong to a published incident,    *)
(* also after replace, merge, purge and re-insertion (clean(), and the      *)
(* premise of get_pending_calendar_incidents).                              *)
ChronologyStatesFit ==
    \A c \in chronologyRows :
        chronologies[c].status \in {"live", "pending_deletion"} =>
            incidents[chronologies[c].incident].status = "live"

(* delete_incident leaves no open draft and no chronology that waits for a  *)
(* decision behind, wherever the call stops.                                *)
NothingPendingUnderDeleted ==
    \A i \in rows : incidents[i].deleted =>
        /\ OpenDrafts(i) = {}
        /\ \A c \in ChronologiesOf(i) :
              chronologies[c].status \notin {"pending_approval", "pending_deletion"}

(* An edit to an incident that is already LIVE and MAJOR never re-alerts.   *)
NoRealert ==
    [][\A i \in queued' \ queued :
          ~ (Live(i) /\ incidents[i].fields \in MajorContents)]_vars

(* A mismatch of the client's version raises a concurrency error instead of *)
(* overwriting (README.md).                                                 *)
NoLostUpdate ==
    [][\A w \in Workers :
          /\ jobs[w].stage = "fields" /\ jobs'[w] # jobs[w]
          /\ incidents' # incidents
          /\ jobs[w].id \in rows
          => incidents[jobs[w].id].version = jobs[w].row.version]_vars
===========================================================================
