---------------------- MODULE CalendarIncidentsProofs ---------------------
(* Proofs about CalendarIncidents for any number of overlapping calls, any  *)
(* users, incidents, chronologies and contents: of every incident first,    *)
(* then, with the history of UndisturbedIncidents, of those that no two     *)
(* overlapping calls were about.                                            *)
EXTENDS UndisturbedIncidents, LinkForestProofs

(* The invariant behind publication: a call that will write the status      *)
(* "live" is an admin's.  An edit writes back the status it has read, so    *)
(* the edit of anybody else has not read it from a published row.           *)
Entitled(job) ==
    /\ job.stage \in {"promote", "merge"} => job.user \in Admins
    /\ job.stage = "fields" /\ job.user \notin Admins => job.row.status # "live"
SavesAreEntitled == \A w \in Workers : Entitled(jobs[w])

Inv == WellTyped /\ SavesAreEntitled

PublishedByAdmin ==
    \A i \in Incidents : ~ Live(i) /\ Live(i)' => \E u \in Admins : Acting(u)

AnyJob == PlainJob \cup EditJob \cup ChronologyJobs

---------------------------------------------------------------------------
(* Jobs.                                                                    *)

(* The stage of a call tells what it keeps in memory.                       *)
LEMMA StageTells ==
    ASSUME WellTyped, NEW w \in Workers
    PROVE  /\ jobs[w].stage \in {"submit", "promote", "merge", "reject", "children",
                                 "delete"} => jobs[w] \in PlainJob
           /\ jobs[w].stage \in {"fields", "drafts", "revise", "tags", "chronologies"}
                => jobs[w] \in EditJob
           /\ jobs[w].stage \in {"store", "settle", "drop"} => jobs[w] \in ChronologyJobs
<1>1. jobs[w] \in {Idle} \cup PlainJob \cup EditJob \cup ChronologyJobs
  BY DEF WellTyped
<1> QED
  BY <1>1 DEF Idle, PlainJob, EditJob, ChronologyJobs

(* A step that gives one worker a well formed, entitled job, or ends its    *)
(* call, keeps the part of the invariant that is about jobs.                *)
LEMMA JobReplaced ==
    ASSUME Inv, NEW w \in Workers, NEW job \in {Idle} \cup AnyJob, Entitled(job),
           jobs' = [jobs EXCEPT ![w] = job]
    PROVE  /\ jobs' \in [Workers -> {Idle} \cup PlainJob \cup EditJob \cup ChronologyJobs]
           /\ SavesAreEntitled'
           /\ jobs'[w] = job
<1>1. jobs \in [Workers -> {Idle} \cup AnyJob]
  BY DEF Inv, WellTyped, AnyJob
<1>2. /\ jobs' \in [Workers -> {Idle} \cup AnyJob]
      /\ \A v \in Workers : jobs'[v] = IF v = w THEN job ELSE jobs[v]
  BY <1>1
<1>3. \A v \in Workers : Entitled(jobs'[v])
  BY <1>2 DEF Inv, SavesAreEntitled
<1>4. SavesAreEntitled'
  BY <1>3 DEF SavesAreEntitled, Entitled
<1> QED
  BY <1>2, <1>4 DEF AnyJob

(* No call writes nothing.                                                  *)
LEMMA IdleIsEntitled == Entitled(Idle)
BY DEF Entitled, Idle

(* A call that ends keeps the part of the invariant that is about jobs.     *)
LEMMA FinishKeepsJobs ==
    ASSUME Inv, NEW w \in Workers, Finish(w)
    PROVE  /\ jobs' \in [Workers -> {Idle} \cup PlainJob \cup EditJob \cup ChronologyJobs]
           /\ SavesAreEntitled'
           /\ jobs'[w] = Idle
BY JobReplaced, IdleIsEntitled DEF Finish

(* A call that goes on to another stage keeps everything else in memory.    *)
LEMMA EditGoesOn ==
    ASSUME Inv, NEW w \in Workers, jobs[w] \in EditJob,
           NEW stage \in {"revise", "tags", "chronologies"}, Goto(w, stage)
    PROVE  /\ jobs' \in [Workers -> {Idle} \cup PlainJob \cup EditJob \cup ChronologyJobs]
           /\ SavesAreEntitled'
           /\ jobs'[w].stage = stage
<1> DEFINE job == [jobs[w] EXCEPT !.stage = stage]
<1>1. job \in EditJob /\ job.stage = stage
  BY DEF EditJob
<1>2. jobs' = [jobs EXCEPT ![w] = job]
  BY DEF Goto, Inv, WellTyped
<1>3. Entitled(job)
  BY <1>1 DEF Entitled
<1> HIDE DEF job
<1> QED
  BY <1>1, <1>2, <1>3, JobReplaced DEF AnyJob

(* A deletion goes on to its second transaction with the same row in        *)
(* memory.                                                                  *)
LEMMA DeleteGoesOn ==
    ASSUME Inv, NEW w \in Workers, jobs[w] \in PlainJob, Goto(w, "delete")
    PROVE  /\ jobs' \in [Workers -> {Idle} \cup PlainJob \cup EditJob \cup ChronologyJobs]
           /\ SavesAreEntitled'
           /\ jobs'[w].stage = "delete"
<1> DEFINE job == [jobs[w] EXCEPT !.stage = "delete"]
<1>1. job \in PlainJob /\ job.stage = "delete"
  BY DEF PlainJob
<1>2. jobs' = [jobs EXCEPT ![w] = job]
  BY DEF Goto, Inv, WellTyped
<1>3. Entitled(job)
  BY <1>1 DEF Entitled
<1> HIDE DEF job
<1> QED
  BY <1>1, <1>2, <1>3, JobReplaced DEF AnyJob

---------------------------------------------------------------------------
(* Tables.                                                                  *)

(* Writing one whole row keeps the table well formed, and publishes at most *)
(* that row, when it is written live.                                       *)
LEMMA WriteTyped ==
    ASSUME WellTyped, NEW i \in Incidents, NEW row \in IncidentRow, Write(i, row)
    PROVE  rows' \subseteq Incidents /\ incidents' \in [rows' -> IncidentRow]
BY DEF WellTyped, Write, Put, rows

(* Writing a row publishes no other row.                                    *)
LEMMA WritePublishesOneRow ==
    ASSUME NEW i, NEW row, Write(i, row), NEW j \in Incidents, ~ Live(j), Live(j)'
    PROVE  j = i /\ row.status = "live" /\ ~ row.deleted
BY DEF Write, Put, Live, Visible, rows

(* Keeping a part of the rows publishes nothing.                            *)
LEMMA OnlyKeeps ==
    ASSUME WellTyped, NEW S \in SUBSET rows, incidents' = Only(incidents, S)
    PROVE  /\ rows' \subseteq Incidents /\ incidents' \in [rows' -> IncidentRow]
           /\ \A j \in Incidents : Live(j)' => Live(j)
BY DEF WellTyped, Only, Live, Visible, rows

(* Keeping a part of the chronologies keeps them well formed.               *)
LEMMA OnlyKeepsChronologies ==
    ASSUME WellTyped, NEW S \in SUBSET chronologyRows,
           chronologies' = Only(chronologies, S)
    PROVE  /\ chronologyRows' \subseteq Chronologies
           /\ chronologies' \in [chronologyRows' -> ChronologyRow]
BY DEF WellTyped, Only, chronologyRows

(* A table that is not written stays well formed and publishes nothing.     *)
LEMMA UnchangedTables ==
    ASSUME WellTyped, UNCHANGED incidents
    PROVE  /\ rows' \subseteq Incidents /\ incidents' \in [rows' -> IncidentRow]
           /\ PublishedByAdmin
BY DEF WellTyped, rows, PublishedByAdmin, Live, Visible

(* Chronologies that are not written stay well formed.                      *)
LEMMA UnchangedChronologies ==
    ASSUME WellTyped, UNCHANGED chronologies
    PROVE  /\ chronologyRows' \subseteq Chronologies
           /\ chronologies' \in [chronologyRows' -> ChronologyRow]
BY DEF WellTyped, chronologyRows

---------------------------------------------------------------------------
(* The first half of every call.                                            *)

(* A call that starts with what its checks allow changes no row, and keeps  *)
(* the invariant.                                                           *)
LEMMA StartKeeps ==
    ASSUME Inv, NEW w \in Workers, NEW job \in AnyJob, Entitled(job), Start(w, job)
    PROVE  Inv' /\ PublishedByAdmin
<1>1. jobs' = [jobs EXCEPT ![w] = job] /\ UNCHANGED <<incidents, chronologies>>
  BY DEF Start, tables
<1>2. /\ jobs' \in [Workers -> {Idle} \cup PlainJob \cup EditJob \cup ChronologyJobs]
      /\ SavesAreEntitled'
  BY <1>1, JobReplaced
<1>3. WellTyped /\ UNCHANGED incidents /\ UNCHANGED chronologies
  BY <1>1 DEF Inv
<1> QED
  BY <1>2, <1>3, UnchangedTables, UnchangedChronologies DEF Inv, WellTyped

(* A row of the table is what a call reads.                                 *)
LEMMA RowRead ==
    ASSUME WellTyped, NEW i \in rows
    PROVE  i \in Incidents /\ incidents[i] \in IncidentRow
BY DEF WellTyped

(* A call that submits, approves, rejects or deletes, on reading its row,   *)
(* keeps the invariant.                                                     *)
LEMMA PlainCallKeeps ==
    ASSUME Inv, NEW w \in Workers, NEW u \in Users, NEW i \in rows,
           \/ ReadForSubmit(w, u, i)
           \/ ReadForApprove(w, u, i)
           \/ ReadForReject(w, u, i)
           \/ ReadForDelete(w, u, i)
    PROVE  Inv' /\ PublishedByAdmin
<1>1. PICK stage \in {"submit", "promote", "merge", "reject", "children"} :
          /\ Start(w, Job(stage, u, i, incidents[i]))
          /\ stage \in {"promote", "merge"} => u \in Admins
  BY DEF ReadForSubmit, ReadForApprove, ReadForReject, ReadForDelete
<1>2. i \in Incidents /\ incidents[i] \in IncidentRow
  BY RowRead DEF Inv
<1> DEFINE job == Job(stage, u, i, incidents[i])
<1>3. job \in PlainJob /\ Entitled(job)
  BY <1>1, <1>2 DEF Job, PlainJob, Entitled
<1> HIDE DEF job
<1> QED
  BY <1>1, <1>3, StartKeeps DEF AnyJob, job

(* update_incident, on reading the row, keeps the invariant, and publishes  *)
(* for an admin only.                                                       *)
LEMMA UpdateKeeps ==
    ASSUME Inv, NEW w \in Workers, NEW u \in Users, NEW i \in rows,
           NEW content \in Contents, NEW writes \in SUBSET Keys,
           ReadForUpdate(w, u, i, content, writes)
    PROVE  Inv' /\ PublishedByAdmin
<1>1. PICK stage \in {"fields", "drafts"} :
          /\ Start(w, Edit(stage, u, i, incidents[i], content, writes))
          /\ stage = "fields" =>
                u \in Admins \/ incidents[i].status \in {"draft", "pending_approval"}
  BY DEF ReadForUpdate
<1>2. i \in Incidents /\ incidents[i] \in IncidentRow
  BY RowRead DEF Inv
<1> DEFINE job == Edit(stage, u, i, incidents[i], content, writes)
<1>3. job \in EditJob /\ Entitled(job)
  BY <1>1, <1>2 DEF Edit, EditJob, Entitled
<1> HIDE DEF job
<1> QED
  BY <1>1, <1>3, StartKeeps DEF AnyJob, job

(* A call on a chronology keeps a well formed chronology in memory.         *)
LEMMA ChronologyStartKeeps ==
    ASSUME Inv, NEW w \in Workers, NEW u \in Users, NEW c \in Chronologies,
           NEW stage \in {"store", "settle", "drop"}, NEW written \in ChronologyRow,
           written.incident \in rows,
           Start(w, ChronologyJob(stage, u, incidents[written.incident], c, written))
    PROVE  Inv' /\ PublishedByAdmin
<1>1. written.incident \in Incidents /\ incidents[written.incident] \in IncidentRow
  BY RowRead DEF Inv
<1> DEFINE job == ChronologyJob(stage, u, incidents[written.incident], c, written)
<1>2. job \in ChronologyJobs /\ Entitled(job)
  BY <1>1 DEF ChronologyJob, ChronologyJobs, Entitled
<1> HIDE DEF job
<1> QED
  BY <1>2, StartKeeps DEF AnyJob, job

(* create_chronology, on reading the incident, keeps the invariant, and     *)
(* publishes for an admin only.                                             *)
LEMMA CreateChronologyKeeps ==
    ASSUME Inv, NEW w \in Workers, NEW u \in Users, NEW i \in Incidents,
           NEW c \in Chronologies, NEW k \in Keys, CreateChronology(w, u, i, c, k)
    PROVE  Inv' /\ PublishedByAdmin
<1> DEFINE new == [incident |-> i, key |-> k, status |-> incidents[i].status]
<1>1. i \in rows /\ incidents[i] \in IncidentRow
  BY RowRead DEF CreateChronology, Visible, Inv
<1>2. new \in ChronologyRow /\ new.incident = i
  BY <1>1 DEF ChronologyRow, IncidentRow, ChronologyStatuses
<1>3. Start(w, ChronologyJob("store", u, incidents[i], c, new))
  BY DEF CreateChronology
<1> HIDE DEF new
<1> QED
  BY <1>1, <1>2, <1>3, ChronologyStartKeeps

(* Every call on a chronology writes a row of the incident it read.         *)
LEMMA ChronologyCallReads ==
    ASSUME WellTyped, NEW w \in Workers, NEW u \in Users, NEW c \in chronologyRows,
           ChronologyCall(w, u, c)
    PROVE  \E stage \in {"store", "settle", "drop"}, written \in ChronologyRow :
              /\ OnChronology(w, u, c, stage, written)
              /\ written.incident = chronologies[c].incident
<1>1. chronologies[c] \in ChronologyRow
  BY DEF WellTyped
<1>2. \A k \in Keys :
         /\ [chronologies[c] EXCEPT !.key = k] \in ChronologyRow
         /\ [chronologies[c] EXCEPT !.key = k].incident = chronologies[c].incident
  BY <1>1 DEF ChronologyRow
<1>3. \A status \in {"live", "pending_deletion"} :
         /\ [chronologies[c] EXCEPT !.status = status] \in ChronologyRow
         /\ [chronologies[c] EXCEPT !.status = status].incident = chronologies[c].incident
  BY <1>1 DEF ChronologyRow, ChronologyStatuses, IncidentStatuses
<1>4. CASE \E k \in Keys : UpdateChronology(w, u, c, k)
  <2>1. PICK k \in Keys : OnChronology(w, u, c, "store", [chronologies[c] EXCEPT !.key = k])
    BY <1>4 DEF UpdateChronology
  <2> QED
    BY <2>1, <1>2
<1>5. CASE ReorderChronology(w, u, c)
  BY <1>5, <1>1 DEF ReorderChronology
<1>6. CASE ApproveChronology(w, u, c) \/ RejectDeletion(w, u, c)
  <2>1. OnChronology(w, u, c, "settle", [chronologies[c] EXCEPT !.status = "live"])
    BY <1>6 DEF ApproveChronology, RejectDeletion
  <2> QED
    BY <2>1, <1>3
<1>7. CASE RequestDeletion(w, u, c)
  <2>1. OnChronology(w, u, c, "store", [chronologies[c] EXCEPT !.status = "pending_deletion"])
    BY <1>7 DEF RequestDeletion
  <2> QED
    BY <2>1, <1>3
<1>8. CASE ApproveDeletion(w, u, c) \/ DeleteChronology(w, u, c)
  <2>1. OnChronology(w, u, c, "drop", chronologies[c])
    BY <1>8 DEF ApproveDeletion, DeleteChronology
  <2> QED
    BY <2>1, <1>1
<1> QED
  BY <1>4, <1>5, <1>6, <1>7, <1>8 DEF ChronologyCall

(* Every call on an existing chronology, on reading it, keeps the           *)
(* invariant, and publishes for an admin only.                              *)
LEMMA ChronologyCallKeeps ==
    ASSUME Inv, NEW w \in Workers, NEW u \in Users, NEW c \in chronologyRows,
           ChronologyCall(w, u, c)
    PROVE  Inv' /\ PublishedByAdmin
<1>1. PICK stage \in {"store", "settle", "drop"}, written \in ChronologyRow :
          /\ OnChronology(w, u, c, stage, written)
          /\ written.incident = chronologies[c].incident
  BY ChronologyCallReads DEF Inv
<1>2. /\ c \in Chronologies /\ written.incident \in rows
      /\ Start(w, ChronologyJob(stage, u, incidents[written.incident], c, written))
  BY <1>1 DEF OnChronology, Visible, Inv, WellTyped
<1> QED
  BY <1>2, ChronologyStartKeeps

---------------------------------------------------------------------------
(* The steps that write.                                                    *)

(* An insertion or a whole-row save that is an admin's when it writes live. *)
LEMMA WriteKeeps ==
    ASSUME Inv, NEW w \in Workers, NEW i \in Incidents, NEW row \in IncidentRow,
           Write(i, row),
           jobs' \in [Workers -> {Idle} \cup PlainJob \cup EditJob \cup ChronologyJobs],
           SavesAreEntitled', UNCHANGED chronologies,
           row.status = "live" /\ ~ row.deleted => \E u \in Admins : Acting(u)
    PROVE  Inv' /\ PublishedByAdmin
<1>1. WellTyped'
  BY WriteTyped, UnchangedChronologies DEF Inv, WellTyped
<1>2. PublishedByAdmin
  BY WritePublishesOneRow DEF PublishedByAdmin
<1> QED
  BY <1>1, <1>2 DEF Inv

(* A version that is counted up stays in its bound.                         *)
LEMMA BumpInRange ==
    ASSUME NEW version \in 1 .. MaxVersion
    PROVE  Bump(version) \in 1 .. MaxVersion
BY ConstantsAssumption DEF Bump

(* A new row is inserted live only by an admin's call.                      *)
LEMMA InsertKeeps ==
    ASSUME Inv, NEW w \in Workers, NEW u \in Users, NEW i \in Incidents,
           NEW status \in IncidentStatuses, NEW up \in Incidents \cup {Null},
           NEW content \in Contents, NEW writes \in SUBSET Keys,
           Insert(w, u, i, status, up, content, writes),
           status = "live" => u \in Admins,
           jobs[w] = Idle \/ (jobs[w].stage = "revise" /\ jobs[w].user = u)
    PROVE  Inv' /\ PublishedByAdmin
<1> DEFINE row == [deleted |-> FALSE, status |-> status, version |-> 1,
                   parent |-> up, author |-> u, fields |-> content]
           job == Edit("tags", u, i, row, content, writes)
<1>1. row \in IncidentRow
  BY ConstantsAssumption DEF IncidentRow
<1>2. row.status = status
  OBVIOUS
<1>3. job \in EditJob /\ job.stage = "tags" /\ job.user = u
  BY <1>1 DEF Edit, EditJob
<1>4. Entitled(job)
  BY <1>3 DEF Entitled
<1>5. Write(i, row) /\ jobs' = [jobs EXCEPT ![w] = job] /\ UNCHANGED chronologies
  BY DEF Insert
<1> HIDE DEF row, job
<1>6. /\ jobs' \in [Workers -> {Idle} \cup PlainJob \cup EditJob \cup ChronologyJobs]
      /\ SavesAreEntitled'
      /\ jobs'[w] = job
  BY <1>3, <1>4, <1>5, JobReplaced DEF AnyJob
<1>7. Acting(u)
  <2>1. jobs'[w] # jobs[w]
    BY <1>3, <1>6 DEF Idle
  <2> QED
    BY <2>1, <1>3, <1>6 DEF Acting, Idle
<1> QED
  BY <1>1, <1>2, <1>5, <1>6, <1>7, WriteKeeps

(* create_incident keeps the invariant, and publishes for an admin only.    *)
LEMMA CreateKeeps ==
    ASSUME Inv, NEW w \in Workers, NEW u \in Users, NEW i \in Incidents,
           NEW content \in Contents, NEW writes \in SUBSET Keys,
           CreateIncident(w, u, i, content, writes)
    PROVE  Inv' /\ PublishedByAdmin
<1>1. PICK status \in IncidentStatuses :
          /\ Insert(w, u, i, status, Null, content, writes)
          /\ status = "live" => u \in Admins
  <2> DEFINE status == IF u \in Admins THEN "live" ELSE "draft"
  <2>1. status \in IncidentStatuses /\ (status = "live" => u \in Admins)
    BY DEF IncidentStatuses
  <2>2. Insert(w, u, i, status, Null, content, writes)
    BY DEF CreateIncident
  <2> QED
    BY <2>1, <2>2
<1> QED
  BY <1>1, InsertKeeps DEF CreateIncident

(* A new revision keeps the invariant, and publishes for an admin only.     *)
LEMMA ReviseKeeps ==
    ASSUME Inv, NEW w \in Workers, NEW i \in Incidents, Revise(w, i)
    PROVE  Inv' /\ PublishedByAdmin
<1>1. jobs[w] \in EditJob
  BY StageTells DEF Revise, Inv
<1>2. /\ jobs[w].user \in Users /\ jobs[w].id \in Incidents
      /\ jobs[w].content \in Contents /\ jobs[w].writes \in SUBSET Keys
  BY <1>1 DEF EditJob
<1>3. "draft" \in IncidentStatuses
  BY DEF IncidentStatuses
<1> QED
  BY <1>2, <1>3, InsertKeeps DEF Revise

(* The search for an open draft keeps the invariant, and publishes for an   *)
(* admin only.                                                              *)
LEMMA LookForDraftKeeps ==
    ASSUME Inv, NEW w \in Workers, LookForDraft(w)
    PROVE  Inv' /\ PublishedByAdmin
<1>1. jobs[w] \in EditJob
  BY StageTells DEF LookForDraft, Inv
<1>2. UNCHANGED incidents /\ UNCHANGED chronologies
  BY DEF LookForDraft, tables
<1>3. /\ jobs' \in [Workers -> {Idle} \cup PlainJob \cup EditJob \cup ChronologyJobs]
      /\ SavesAreEntitled'
  <2>1. CASE OpenDrafts(jobs[w].id) = {}
    BY <2>1, <1>1, EditGoesOn DEF LookForDraft
  <2>2. CASE OpenDrafts(jobs[w].id) # {}
    <3>1. PICK d \in OpenDrafts(jobs[w].id) :
             IF incidents[d].author = jobs[w].user
             THEN jobs' = [jobs EXCEPT ![w] = Edit("fields", jobs[w].user, d,
                              incidents[d], jobs[w].content, jobs[w].writes)]
             ELSE Finish(w)
      BY <2>2 DEF LookForDraft
    <3>2. d \in rows /\ incidents[d].status = "draft"
      BY DEF OpenDrafts
    <3>3. d \in Incidents /\ incidents[d] \in IncidentRow
      BY <3>2, RowRead DEF Inv
    <3>4. CASE Finish(w)
      BY <3>4, FinishKeepsJobs
    <3> DEFINE job == Edit("fields", jobs[w].user, d, incidents[d],
                           jobs[w].content, jobs[w].writes)
    <3>5. job \in EditJob /\ Entitled(job)
      BY <1>1, <3>2, <3>3 DEF Edit, EditJob, Entitled
    <3> HIDE DEF job
    <3>6. CASE jobs' = [jobs EXCEPT ![w] = job]
      BY <3>5, <3>6, JobReplaced DEF AnyJob
    <3> QED
      BY <3>1, <3>4, <3>6 DEF job
  <2> QED
    BY <2>1, <2>2
<1> QED
  BY <1>2, <1>3, UnchangedTables, UnchangedChronologies DEF Inv, WellTyped

(* An edit that saves the columns keeps the invariant, and publishes for an *)
(* admin only.                                                              *)
LEMMA WriteFieldsKeeps ==
    ASSUME Inv, NEW w \in Workers, WriteFields(w)
    PROVE  Inv' /\ PublishedByAdmin
<1>1. jobs[w] \in EditJob /\ jobs[w].stage = "fields"
  BY StageTells DEF WriteFields, Inv
<1>2. /\ jobs[w].id \in Incidents /\ jobs[w].user \in Users
      /\ jobs[w].row \in IncidentRow /\ jobs[w].content \in Contents
  BY <1>1 DEF EditJob
<1> DEFINE row == [Edited(jobs[w]) EXCEPT !.deleted = FALSE]
<1>3. row \in IncidentRow /\ row.status = jobs[w].row.status
  <2>1. Bump(jobs[w].row.version) \in 1 .. MaxVersion
    BY <1>2, BumpInRange DEF IncidentRow
  <2>2. Edited(jobs[w]) \in IncidentRow /\ Edited(jobs[w]).status = jobs[w].row.status
    BY <1>2, <2>1 DEF Edited, IncidentRow
  <2> QED
    BY <2>2 DEF IncidentRow
<1>4. Write(jobs[w].id, row) /\ UNCHANGED chronologies /\ Goto(w, "tags")
  BY DEF WriteFields, Save
<1> HIDE DEF row
<1>5. /\ jobs' \in [Workers -> {Idle} \cup PlainJob \cup EditJob \cup ChronologyJobs]
      /\ SavesAreEntitled'
      /\ jobs'[w].stage = "tags"
  BY <1>1, <1>4, EditGoesOn
<1>6. Acting(jobs[w].user)
  BY <1>1, <1>5 DEF Acting, Idle
<1>7. row.status = "live" => jobs[w].user \in Admins
  BY <1>1, <1>2, <1>3 DEF Inv, SavesAreEntitled, Entitled
<1> QED
  BY <1>2, <1>3, <1>4, <1>5, <1>6, <1>7, WriteKeeps

(* Writing the m2m sets keeps the invariant, and publishes nothing.         *)
LEMMA EditTailKeeps ==
    ASSUME Inv, NEW w \in Workers, WriteTags(w)
    PROVE  Inv' /\ PublishedByAdmin
<1>1. jobs[w] \in EditJob
  BY StageTells DEF WriteTags, Inv
<1>2. /\ jobs' \in [Workers -> {Idle} \cup PlainJob \cup EditJob \cup ChronologyJobs]
      /\ SavesAreEntitled'
  BY <1>1, EditGoesOn DEF WriteTags
<1>3. UNCHANGED incidents /\ UNCHANGED chronologies
  BY DEF WriteTags
<1> QED
  BY <1>2, <1>3, UnchangedTables, UnchangedChronologies DEF Inv, WellTyped

(* The chronologies a call replaces are well formed.                        *)
LEMMA ReplacedTyped ==
    ASSUME WellTyped, NEW i \in Incidents, NEW writes \in SUBSET Keys,
           NEW inherited \in ChronologyStatuses,
           ReplaceChronologies(i, writes, inherited)
    PROVE  /\ chronologyRows' \subseteq Chronologies
           /\ chronologies' \in [chronologyRows' -> ChronologyRow]
<1>1. PICK new \in [writes -> FreshChronologies(ChronologiesOf(i))],
           status \in [writes -> ChronologyStatuses] :
          chronologies' =
            [c \in (chronologyRows \ ChronologiesOf(i)) \cup {new[k] : k \in writes} |->
                IF \E k \in writes : new[k] = c
                THEN LET k == CHOOSE l \in writes : new[l] = c
                     IN  [incident |-> i, key |-> k, status |-> status[k]]
                ELSE chronologies[c]]
  BY DEF ReplaceChronologies
<1>2. \A k \in writes : new[k] \in Chronologies
  BY DEF FreshChronologies
<1> DEFINE S == (chronologyRows \ ChronologiesOf(i)) \cup {new[k] : k \in writes}
<1>3. chronologyRows' = S /\ S \subseteq Chronologies
  BY <1>1, <1>2 DEF chronologyRows, WellTyped
<1>4. ASSUME NEW c \in S PROVE chronologies'[c] \in ChronologyRow
  <2>1. CASE \E k \in writes : new[k] = c
    <3> DEFINE k == CHOOSE l \in writes : new[l] = c
    <3>1. k \in writes
      BY <2>1
    <3>2. chronologies'[c] = [incident |-> i, key |-> k, status |-> status[k]]
      BY <1>1, <2>1
    <3> HIDE DEF k
    <3> QED
      BY <3>1, <3>2 DEF ChronologyRow
  <2>2. CASE ~ \E k \in writes : new[k] = c
    <3>1. c \in chronologyRows
      BY <2>2
    <3> QED
      BY <1>1, <2>2, <3>1 DEF WellTyped
  <2> QED
    BY <2>1, <2>2
<1> QED
  BY <1>1, <1>3, <1>4

(* Replacing the chronologies keeps the invariant, and publishes for an     *)
(* admin only.                                                              *)
LEMMA WriteChronologiesKeeps ==
    ASSUME Inv, NEW w \in Workers, WriteChronologies(w)
    PROVE  Inv' /\ PublishedByAdmin
<1>1. jobs[w] \in EditJob
  BY StageTells DEF WriteChronologies, Inv
<1>2. /\ jobs[w].id \in Incidents /\ jobs[w].writes \in SUBSET Keys
      /\ jobs[w].row.status \in ChronologyStatuses
  BY <1>1 DEF EditJob, IncidentRow, ChronologyStatuses
<1>3. ReplaceChronologies(jobs[w].id, jobs[w].writes, jobs[w].row.status)
  BY DEF WriteChronologies
<1>4. UNCHANGED incidents /\ Finish(w)
  BY DEF WriteChronologies
<1>5. /\ chronologyRows' \subseteq Chronologies
      /\ chronologies' \in [chronologyRows' -> ChronologyRow]
  BY <1>2, <1>3, ReplacedTyped DEF Inv
<1> QED
  BY <1>4, <1>5, UnchangedTables, FinishKeepsJobs DEF Inv, WellTyped

(* Submitting, rejecting and promoting keeps the invariant, and publishes   *)
(* for an admin only.                                                       *)
LEMMA SaveStatusKeeps ==
    ASSUME Inv, NEW w \in Workers,
           SubmitIncident(w) \/ RejectIncident(w) \/ Promote(w)
    PROVE  Inv' /\ PublishedByAdmin
<1>1. PICK stage \in {"submit", "reject", "promote"}, status \in IncidentStatuses :
          /\ SaveStatus(w, stage, status)
          /\ status = "live" => stage = "promote"
  BY DEF SubmitIncident, RejectIncident, Promote, IncidentStatuses
<1>2. jobs[w].stage = stage /\ jobs[w] \in PlainJob
  BY <1>1, StageTells DEF SaveStatus, Inv
<1>3. jobs[w].id \in Incidents /\ jobs[w].row \in IncidentRow /\ jobs[w].user \in Users
  BY <1>2 DEF PlainJob
<1> DEFINE row == [[jobs[w].row EXCEPT !.status = status] EXCEPT !.deleted = FALSE]
<1>4. row \in IncidentRow /\ row.status = status
  BY <1>3 DEF IncidentRow
<1>5. Write(jobs[w].id, row) /\ Finish(w) /\ UNCHANGED chronologies
  BY <1>1 DEF SaveStatus, Save
<1> HIDE DEF row
<1>6. Acting(jobs[w].user)
  BY <1>2, <1>5, FinishKeepsJobs DEF Acting, Idle
<1>7. status = "live" => jobs[w].user \in Admins
  BY <1>1, <1>2 DEF Inv, SavesAreEntitled, Entitled
<1> QED
  BY <1>3, <1>4, <1>5, <1>6, <1>7, FinishKeepsJobs, WriteKeeps

(* A soft delete keeps the invariant, and publishes for an admin only.      *)
LEMMA SoftDeleteKeeps ==
    ASSUME Inv, NEW w \in Workers, SoftDelete(w)
    PROVE  Inv' /\ PublishedByAdmin
<1>1. jobs[w] \in PlainJob
  BY StageTells DEF SoftDelete, Inv
<1>2. jobs[w].id \in Incidents /\ jobs[w].row \in IncidentRow
  BY <1>1 DEF PlainJob
<1> DEFINE row == [jobs[w].row EXCEPT !.deleted = TRUE]
<1>3. row \in IncidentRow /\ row.deleted
  BY <1>2 DEF IncidentRow
<1>4. Write(jobs[w].id, row) /\ Finish(w) /\ UNCHANGED chronologies
  BY DEF SoftDelete
<1> HIDE DEF row
<1> QED
  BY <1>2, <1>3, <1>4, FinishKeepsJobs, WriteKeeps

(* Resolving what is pending under a row keeps the invariant, and publishes *)
(* for an admin only.                                                       *)
LEMMA ResolveChildrenKeeps ==
    ASSUME Inv, NEW w \in Workers, ResolveChildren(w)
    PROVE  Inv' /\ PublishedByAdmin
<1>1. jobs[w] \in PlainJob /\ Goto(w, "delete")
  BY StageTells DEF ResolveChildren, Inv
<1>2. incidents' = [j \in rows |-> IF j \in OpenDrafts(jobs[w].id)
                                   THEN [incidents[j] EXCEPT !.deleted = TRUE]
                                   ELSE incidents[j]]
  BY DEF ResolveChildren
<1>3. rows' = rows
  BY <1>2 DEF rows
<1>4. ASSUME NEW j \in rows
      PROVE  /\ incidents'[j] \in IncidentRow
             /\ incidents'[j] = incidents[j] \/ incidents'[j].deleted
  <2>1. incidents[j] \in IncidentRow
    BY DEF Inv, WellTyped
  <2>2. CASE j \in OpenDrafts(jobs[w].id)
    <3>1. incidents'[j] = [incidents[j] EXCEPT !.deleted = TRUE]
      BY <1>2, <2>2
    <3> QED
      BY <3>1, <2>1 DEF IncidentRow
  <2>3. CASE j \notin OpenDrafts(jobs[w].id)
    BY <1>2, <2>1, <2>3
  <2> QED
    BY <2>2, <2>3
<1>5. rows' \subseteq Incidents /\ incidents' \in [rows' -> IncidentRow]
  BY <1>2, <1>3, <1>4 DEF Inv, WellTyped
<1>6. PublishedByAdmin
  BY <1>3, <1>4 DEF PublishedByAdmin, Live, Visible
<1>7. /\ chronologyRows' \subseteq Chronologies
      /\ chronologies' \in [chronologyRows' -> ChronologyRow]
  <2>1. PICK S \in SUBSET chronologyRows : chronologies' = Only(chronologies, S)
    BY DEF ResolveChildren
  <2> QED
    BY <2>1, OnlyKeepsChronologies DEF Inv
<1> QED
  BY <1>1, <1>5, <1>6, <1>7, DeleteGoesOn DEF Inv, WellTyped

(* A merge publishes the parent, and only an admin merges.                  *)
LEMMA MergeKeeps ==
    ASSUME Inv, NEW w \in Workers, Merge(w)
    PROVE  Inv' /\ PublishedByAdmin
<1> DEFINE id == jobs[w].id
           p == jobs[w].row.parent
           left == rows \ HardDeleted(id)
           moved(c) == chronologies[c].incident = id
           kept == {c \in chronologyRows : moved(c) \/
                                           chronologies[c].incident \in left \ {p}}
<1>1. jobs[w].stage = "merge" /\ jobs[w] \in PlainJob /\ Finish(w) /\ Visible(p)
  BY StageTells DEF Merge, Inv
<1>2. jobs[w].row \in IncidentRow /\ jobs[w].user \in Users
  BY <1>1 DEF PlainJob
<1>3. /\ incidents' = [j \in left |-> IF j = p THEN Merged(incidents[p], jobs[w].row)
                                      ELSE incidents[j]]
      /\ chronologies' = [c \in kept |->
            IF moved(c) THEN [chronologies[c] EXCEPT !.incident = p] ELSE chronologies[c]]
  BY DEF Merge
<1>4. p \in rows /\ p \in Incidents /\ incidents[p] \in IncidentRow
  BY <1>1, RowRead DEF Visible, Inv
<1>5. Merged(incidents[p], jobs[w].row) \in IncidentRow
  <2>1. Bump(incidents[p].version) \in 1 .. MaxVersion
    BY <1>4, BumpInRange DEF IncidentRow
  <2>2. jobs[w].row.fields \in Contents
    BY <1>2 DEF IncidentRow
  <2>3. "live" \in IncidentStatuses
    BY DEF IncidentStatuses
  <2> QED
    BY <1>4, <2>1, <2>2, <2>3 DEF Merged, IncidentRow
<1>6. rows' \subseteq Incidents /\ incidents' \in [rows' -> IncidentRow]
  <2>1. rows' = left
    BY <1>3 DEF rows
  <2>2. \A j \in left : j \in Incidents /\ incidents[j] \in IncidentRow
    BY RowRead DEF Inv
  <2> HIDE DEF left, p
  <2> QED
    BY <1>3, <1>5, <2>1, <2>2
<1>7. /\ chronologyRows' \subseteq Chronologies
      /\ chronologies' \in [chronologyRows' -> ChronologyRow]
  <2>1. chronologyRows' = kept
    BY <1>3 DEF chronologyRows
  <2>2. kept \subseteq chronologyRows
    OBVIOUS
  <2>3. \A c \in chronologyRows : c \in Chronologies /\ chronologies[c] \in ChronologyRow
    BY DEF Inv, WellTyped
  <2>4. \A c \in chronologyRows : [chronologies[c] EXCEPT !.incident = p] \in ChronologyRow
    BY <2>3, <1>4 DEF ChronologyRow
  <2> HIDE DEF kept, moved, p
  <2> QED
    BY <1>3, <2>1, <2>2, <2>3, <2>4
<1>8. Acting(jobs[w].user) /\ jobs[w].user \in Admins
  BY <1>1, FinishKeepsJobs DEF Acting, Idle, Inv, SavesAreEntitled, Entitled
<1> QED
  BY <1>1, <1>6, <1>7, <1>8, FinishKeepsJobs DEF Inv, WellTyped, PublishedByAdmin

(* The second half of a call on a chronology keeps the invariant, and       *)
(* publishes for an admin only.                                             *)
LEMMA ChronologyStepKeeps ==
    ASSUME Inv, NEW w \in Workers, SaveChronology(w) \/ DropChronology(w)
    PROVE  Inv' /\ PublishedByAdmin
<1>1. UNCHANGED incidents /\ Finish(w)
  BY DEF SaveChronology, DropChronology
<1>2. /\ chronologyRows' \subseteq Chronologies
      /\ chronologies' \in [chronologyRows' -> ChronologyRow]
  <2>1. CASE SaveChronology(w)
    <3>1. jobs[w] \in ChronologyJobs
      BY <2>1, StageTells DEF SaveChronology, Inv
    <3>2. jobs[w].chronology \in Chronologies /\ jobs[w].write \in ChronologyRow
      BY <3>1 DEF ChronologyJobs
    <3>3. chronologies' = Put(chronologies, jobs[w].chronology, jobs[w].write)
      BY <2>1 DEF SaveChronology
    <3> QED
      BY <3>2, <3>3 DEF Inv, WellTyped, Put, chronologyRows
  <2>2. CASE DropChronology(w)
    <3>1. PICK S \in SUBSET chronologyRows : chronologies' = Only(chronologies, S)
      BY <2>2 DEF DropChronology
    <3> QED
      BY <3>1, OnlyKeepsChronologies DEF Inv
  <2> QED
    BY <2>1, <2>2
<1> QED
  BY <1>1, <1>2, UnchangedTables, FinishKeepsJobs DEF Inv, WellTyped

(* A call that stops keeps the invariant, and publishes for an admin only.  *)
LEMMA FailKeeps ==
    ASSUME Inv, NEW w \in Workers, Fail(w)
    PROVE  Inv' /\ PublishedByAdmin
<1>1. UNCHANGED incidents /\ UNCHANGED chronologies /\ Finish(w)
  BY DEF Fail, tables
<1> QED
  BY <1>1, UnchangedTables, UnchangedChronologies, FinishKeepsJobs DEF Inv, WellTyped

---------------------------------------------------------------------------
(* The tasks, and the whole specification.                                  *)

(* A step that leaves the two tables and the calls alone keeps the          *)
(* invariant.                                                               *)
LEMMA NothingWritten ==
    ASSUME Inv, UNCHANGED <<incidents, chronologies, jobs>>
    PROVE  Inv' /\ PublishedByAdmin
<1>1. SavesAreEntitled' /\ UNCHANGED jobs
  BY DEF Inv, SavesAreEntitled, Entitled
<1>2. UNCHANGED incidents /\ UNCHANGED chronologies
  OBVIOUS
<1> QED
  BY <1>1, <1>2, UnchangedTables, UnchangedChronologies DEF Inv, WellTyped

(* A purge only takes rows away.                                            *)
LEMMA PurgeKeeps ==
    ASSUME Inv, Purge
    PROVE  Inv' /\ PublishedByAdmin
<1>1. CASE UNCHANGED tables
  BY <1>1, NothingWritten DEF Purge, tables
<1>2. CASE HardDelete(expired)
  <2>1. PICK S \in SUBSET rows : incidents' = Only(incidents, S)
    BY <1>2 DEF HardDelete
  <2>2. PICK T \in SUBSET chronologyRows : chronologies' = Only(chronologies, T)
    BY <1>2 DEF HardDelete
  <2>3. UNCHANGED jobs
    BY DEF Purge
  <2>4. SavesAreEntitled'
    BY <2>3 DEF Inv, SavesAreEntitled, Entitled
  <2>5. WellTyped'
    BY <2>1, <2>2, <2>3, OnlyKeeps, OnlyKeepsChronologies DEF Inv, WellTyped
  <2>6. PublishedByAdmin
    BY <2>1, OnlyKeeps DEF Inv, PublishedByAdmin
  <2> QED
    BY <2>4, <2>5, <2>6 DEF Inv
<1> QED
  BY <1>1, <1>2 DEF Purge

(* Every step keeps the invariant, and publishes for an admin only.         *)
LEMMA StepKeeps ==
    ASSUME Inv, [Next]_vars
    PROVE  Inv' /\ PublishedByAdmin
<1>1. CASE UNCHANGED vars
  BY <1>1, NothingWritten DEF vars
<1>2. CASE \E w \in Workers : Steps(w)
  <2> PICK w \in Workers : Steps(w)
    BY <1>2
  <2>1. CASE LookForDraft(w) \/ \E i \in Incidents : Revise(w, i)
    BY <2>1, LookForDraftKeeps, ReviseKeeps
  <2>2. CASE WriteFields(w) \/ WriteTags(w) \/ WriteChronologies(w)
    BY <2>2, WriteFieldsKeeps, EditTailKeeps, WriteChronologiesKeeps
  <2>3. CASE SubmitIncident(w) \/ RejectIncident(w) \/ Promote(w) \/ Merge(w)
    BY <2>3, SaveStatusKeeps, MergeKeeps
  <2>4. CASE ResolveChildren(w) \/ SoftDelete(w)
    BY <2>4, ResolveChildrenKeeps, SoftDeleteKeeps
  <2>5. CASE SaveChronology(w) \/ DropChronology(w) \/ Fail(w)
    BY <2>5, ChronologyStepKeeps, FailKeeps
  <2> QED
    BY <2>1, <2>2, <2>3, <2>4, <2>5 DEF Steps
<1>3. CASE \E w \in Workers : \E u \in Users : Calls(w, u)
  <2> PICK w \in Workers, u \in Users : Calls(w, u)
    BY <1>3
  <2>1. CASE \E i \in Incidents : \E content \in Contents, writes \in SUBSET Keys :
                CreateIncident(w, u, i, content, writes)
    BY <2>1, CreateKeeps
  <2>2. CASE \E i \in Incidents : \E c \in Chronologies, k \in Keys :
                CreateChronology(w, u, i, c, k)
    BY <2>2, CreateChronologyKeeps
  <2>3. CASE \E i \in rows : \E content \in Contents, writes \in SUBSET Keys :
                ReadForUpdate(w, u, i, content, writes)
    BY <2>3, UpdateKeeps
  <2>4. CASE \E i \in rows : \/ ReadForSubmit(w, u, i)
                             \/ ReadForApprove(w, u, i)
                             \/ ReadForReject(w, u, i)
                             \/ ReadForDelete(w, u, i)
    BY <2>4, PlainCallKeeps
  <2>5. CASE \E c \in chronologyRows : ChronologyCall(w, u, c)
    BY <2>5, ChronologyCallKeeps
  <2> QED
    BY <2>1, <2>2, <2>3, <2>4, <2>5 DEF Calls
<1>4. CASE \E i \in rows : LoadDeleted(i) \/ LoadRejected(i)
  BY <1>4, NothingWritten DEF LoadDeleted, LoadRejected, tables
<1>5. CASE Purge
  BY <1>5, PurgeKeeps
<1>6. CASE \E i \in queued : Notify(i)
  BY <1>6, NothingWritten DEF Notify, tables
<1> QED
  BY <1>1, <1>2, <1>3, <1>4, <1>5, <1>6 DEF Next

(* The invariant holds of empty tables.                                     *)
LEMMA InitEstablishes == Init => Inv
<1> SUFFICES ASSUME Init PROVE Inv
  OBVIOUS
<1>1. rows = {} /\ chronologyRows = {}
  BY DEF Init, rows, chronologyRows
<1>2. jobs = [w \in Workers |-> Idle]
  BY DEF Init
<1>3. SavesAreEntitled
  BY <1>2, IdleIsEntitled DEF SavesAreEntitled
<1>4. incidents \in [rows -> IncidentRow] /\ chronologies \in [chronologyRows -> ChronologyRow]
  BY <1>1 DEF Init
<1> QED
  BY <1>1, <1>2, <1>3, <1>4 DEF Inv, WellTyped

(* At every moment every row and every call in progress is well formed,     *)
(* and whoever is about to write "live" is entitled to.                     *)
THEOREM AlwaysEntitled == Spec => []Inv
<1>1. Inv /\ [Next]_vars => Inv'
  BY StepKeeps
<1> QED
  BY <1>1, InitEstablishes, PTL DEF Spec

(* Moderation cannot be bypassed by overlap: whatever calls, stale saves,   *)
(* failures and purges interleave, a row becomes publicly visible only in a *)
(* step of an admin's call.                                                 *)
THEOREM PublicationNeedsAdmin == Spec => PublishedOnlyByAdmin
<1>1. Inv /\ [Next]_vars => [PublishedByAdmin]_vars
  BY StepKeeps
<1>2. [][PublishedByAdmin]_vars => PublishedOnlyByAdmin
  BY DEF PublishedByAdmin, PublishedOnlyByAdmin
<1> QED
  BY <1>1, <1>2, AlwaysEntitled, PTL DEF Spec

---------------------------------------------------------------------------
(* The references.  Beside the foreign keys themselves the invariant speaks *)
(* of what calls have in memory: a row that was purged in the meantime is   *)
(* inserted again with the parent the call remembers, and a merge deletes a *)
(* revision with everything under it and moves its chronologies to that     *)
(* parent, so no remembered parent may lie under its own revision.          *)

(* Row i names p as its parent, in the table or in the memory of a call     *)
(* that may still write it back.                                            *)
Says(i, p) ==
    \/ i \in rows /\ incidents[i].parent = p
    \/ \E w \in Workers :
          /\ jobs[w].stage # "idle"
          /\ jobs[w].id = i /\ jobs[w].row.parent = p

(* No cycle of parents, not even one that stale saves could close.          *)
NoLoop ==
    \A S \in SUBSET Incidents : S # {} => \E x \in S : \A p \in S : ~ Says(x, p)

(* The foreign keys, and the calls' and tasks' idea of them.                *)
RowsLinked == \A i \in rows : incidents[i].parent \in rows \cup {Null}
ChronologiesLinked == \A c \in chronologyRows : chronologies[c].incident \in rows
LinesFit == lines \in [rows -> Contents \cup {Empty}]
TasksFit == queued \subseteq Incidents /\ expired \in Incidents \cup {Null}
Aimed(job) == job.stage \in {"store", "settle", "drop"} => job.write.incident = job.id
CallsFit == \A w \in Workers : Aimed(jobs[w])

Linked ==
    RowsLinked /\ ChronologiesLinked /\ LinesFit /\ TasksFit /\ NoLoop /\ CallsFit

(* What a step leaves in the table and in memory was said before it.        *)
RowsRepeat ==
    \A j \in rows' : incidents'[j].parent = Null \/ Says(j, incidents'[j].parent)
Repeats(job) == job.stage # "idle" => Says(job.id, job.row.parent)

---------------------------------------------------------------------------

(* A step that says nothing new closes no loop.                             *)
LEMMA NothingNewSaid ==
    ASSUME NoLoop, RowsRepeat, \A w \in Workers : Repeats(jobs'[w])
    PROVE  NoLoop'
<1>1. ASSUME NEW x, NEW p \in Incidents, Says(x, p)'
      PROVE  Says(x, p)
  <2>1. p # Null
    BY ConstantsAssumption
  <2>2. CASE x \in rows' /\ incidents'[x].parent = p
    BY <2>1, <2>2 DEF RowsRepeat
  <2>3. CASE \E w \in Workers : /\ jobs'[w].stage # "idle"
                                /\ jobs'[w].id = x /\ jobs'[w].row.parent = p
    BY <2>3 DEF Repeats
  <2> QED
    BY <1>1, <2>2, <2>3 DEF Says
<1> QED
  BY <1>1 DEF NoLoop

(* The parent a call has read, and the parent a call keeps, is said.        *)
LEMMA ReadIsSaid ==
    ASSUME NEW i \in rows
    PROVE  Says(i, incidents[i].parent)
BY DEF Says

(* What a call has in memory is said.                                       *)
LEMMA KeptIsSaid ==
    ASSUME NEW w \in Workers, jobs[w].stage # "idle"
    PROVE  Says(jobs[w].id, jobs[w].row.parent)
BY DEF Says

(* One worker goes on with a job that repeats what was said.                *)
LEMMA JobRepeats ==
    ASSUME Inv, CallsFit, NEW w \in Workers, NEW job, jobs' = [jobs EXCEPT ![w] = job],
           Repeats(job), Aimed(job)
    PROVE  CallsFit' /\ \A v \in Workers : Repeats(jobs'[v])
<1>1. \A v \in Workers : jobs'[v] = IF v = w THEN job ELSE jobs[v]
  BY DEF Inv, WellTyped
<1>2. \A v \in Workers : Repeats(jobs[v])
  BY KeptIsSaid DEF Repeats
<1>3. \A v \in Workers : Aimed(jobs'[v])
  BY <1>1 DEF CallsFit
<1> QED
  BY <1>1, <1>2, <1>3 DEF CallsFit, Aimed

(* A call that ends says nothing new.                                       *)
LEMMA FinishRepeats ==
    ASSUME Inv, CallsFit, NEW w \in Workers, Finish(w)
    PROVE  CallsFit' /\ \A v \in Workers : Repeats(jobs'[v])
<1>1. Repeats(Idle) /\ Aimed(Idle)
  BY DEF Repeats, Aimed, Idle
<1> QED
  BY <1>1, JobRepeats DEF Finish

(* A call that goes on to its next stage says nothing new.                  *)
LEMMA GotoRepeats ==
    ASSUME Inv, CallsFit, NEW w \in Workers, jobs[w] \in PlainJob \cup EditJob,
           NEW stage \in {"revise", "tags", "chronologies", "delete"}, Goto(w, stage)
    PROVE  CallsFit' /\ \A v \in Workers : Repeats(jobs'[v])
<1> DEFINE job == [jobs[w] EXCEPT !.stage = stage]
<1>1. jobs' = [jobs EXCEPT ![w] = job]
  BY DEF Goto, Inv, WellTyped
<1>2. job.stage = stage /\ job.id = jobs[w].id /\ job.row = jobs[w].row
  BY DEF PlainJob, EditJob
<1>3. jobs[w].stage # "idle"
  BY DEF PlainJob, EditJob
<1>4. Repeats(job) /\ Aimed(job)
  BY <1>2, <1>3, KeptIsSaid DEF Repeats, Aimed
<1> HIDE DEF job
<1> QED
  BY <1>1, <1>4, JobRepeats

(* A table that is not written says what it said.                           *)
LEMMA SameRowsRepeat ==
    ASSUME UNCHANGED incidents
    PROVE  RowsRepeat /\ rows' = rows
BY ReadIsSaid DEF RowsRepeat, rows

(* A step that only changes the memory of calls.                            *)
LEMMA MemoryOnlyLinks ==
    ASSUME Linked, UNCHANGED tables, TasksFit', CallsFit',
           \A v \in Workers : Repeats(jobs'[v])
    PROVE  Linked'
<1>1. UNCHANGED incidents /\ UNCHANGED chronologies /\ UNCHANGED lines
  BY DEF tables
<1>2. NoLoop'
  BY <1>1, SameRowsRepeat, NothingNewSaid DEF Linked
<1> QED
  BY <1>1, <1>2 DEF Linked, RowsLinked, ChronologiesLinked, LinesFit, rows, chronologyRows

(* A call that starts by reading a row leaves the tables linked.            *)
LEMMA StartLinks ==
    ASSUME Inv, Linked, NEW w \in Workers, NEW job, Start(w, job), Repeats(job), Aimed(job)
    PROVE  Linked'
<1>1. UNCHANGED tables /\ TasksFit' /\ jobs' = [jobs EXCEPT ![w] = job]
  BY DEF Start, Linked, TasksFit
<1> QED
  BY <1>1, JobRepeats, MemoryOnlyLinks DEF Linked

(* A call that submits, approves, rejects or deletes, on reading its row,   *)
(* leaves the tables linked.                                                *)
LEMMA PlainStartLinks ==
    ASSUME Inv, Linked, NEW w \in Workers, NEW u \in Users, NEW i \in rows,
           \/ ReadForSubmit(w, u, i)
           \/ ReadForApprove(w, u, i)
           \/ ReadForReject(w, u, i)
           \/ ReadForDelete(w, u, i)
    PROVE  Linked'
<1>1. PICK stage \in {"submit", "promote", "merge", "reject", "children"} :
          Start(w, Job(stage, u, i, incidents[i]))
  BY DEF ReadForSubmit, ReadForApprove, ReadForReject, ReadForDelete
<1> DEFINE job == Job(stage, u, i, incidents[i])
<1>2. Repeats(job) /\ Aimed(job)
  BY ReadIsSaid DEF Job, Repeats, Aimed
<1> HIDE DEF job
<1> QED
  BY <1>1, <1>2, StartLinks DEF job

(* update_incident, on reading the row, leaves the tables linked.           *)
LEMMA UpdateLinks ==
    ASSUME Inv, Linked, NEW w \in Workers, NEW u \in Users, NEW i \in rows,
           NEW content \in Contents, NEW writes \in SUBSET Keys,
           ReadForUpdate(w, u, i, content, writes)
    PROVE  Linked'
<1>1. PICK stage \in {"fields", "drafts"} :
          Start(w, Edit(stage, u, i, incidents[i], content, writes))
  BY DEF ReadForUpdate
<1> DEFINE job == Edit(stage, u, i, incidents[i], content, writes)
<1>2. Repeats(job) /\ Aimed(job)
  BY ReadIsSaid DEF Edit, Repeats, Aimed
<1> HIDE DEF job
<1> QED
  BY <1>1, <1>2, StartLinks DEF job

(* A call on a chronology, on reading its incident, leaves the tables       *)
(* linked.                                                                  *)
LEMMA ChronologyStartLinks ==
    ASSUME Inv, Linked, NEW w \in Workers, NEW u, NEW c, NEW stage,
           NEW written, written.incident \in rows, stage # "idle",
           Start(w, ChronologyJob(stage, u, incidents[written.incident], c, written))
    PROVE  Linked'
<1> DEFINE job == ChronologyJob(stage, u, incidents[written.incident], c, written)
<1>1. Repeats(job) /\ Aimed(job)
  BY ReadIsSaid DEF ChronologyJob, Repeats, Aimed
<1> HIDE DEF job
<1> QED
  BY <1>1, StartLinks DEF job

(* create_chronology, on reading the incident, leaves the tables linked.    *)
LEMMA CreateChronologyLinks ==
    ASSUME Inv, Linked, NEW w \in Workers, NEW u \in Users, NEW i \in Incidents,
           NEW c \in Chronologies, NEW k \in Keys, CreateChronology(w, u, i, c, k)
    PROVE  Linked'
<1> DEFINE new == [incident |-> i, key |-> k, status |-> incidents[i].status]
<1>1. new.incident = i /\ i \in rows
  BY DEF CreateChronology, Visible
<1>2. Start(w, ChronologyJob("store", u, incidents[i], c, new))
  BY DEF CreateChronology
<1> HIDE DEF new
<1> QED
  BY <1>1, <1>2, ChronologyStartLinks

(* Every call on an existing chronology, on reading it, leaves the tables   *)
(* linked.                                                                  *)
LEMMA ChronologyCallLinks ==
    ASSUME Inv, Linked, NEW w \in Workers, NEW u \in Users, NEW c \in chronologyRows,
           ChronologyCall(w, u, c)
    PROVE  Linked'
<1>1. PICK stage \in {"store", "settle", "drop"}, written \in ChronologyRow :
          /\ OnChronology(w, u, c, stage, written)
          /\ written.incident = chronologies[c].incident
  BY ChronologyCallReads DEF Inv
<1>2. /\ written.incident \in rows
      /\ Start(w, ChronologyJob(stage, u, incidents[written.incident], c, written))
  BY <1>1 DEF OnChronology, Visible
<1> QED
  BY <1>2, ChronologyStartLinks

---------------------------------------------------------------------------
(* Writing one whole row leaves the others as they are.                     *)
LEMMA OneRowWritten ==
    ASSUME WellTyped, NEW i \in Incidents, NEW row \in IncidentRow, Write(i, row)
    PROVE  /\ rows' = rows \cup {i} /\ row.parent \in rows \cup {Null}
           /\ \A j \in rows' : incidents'[j] = IF j = i THEN row ELSE incidents[j]
<1>1. rows' = rows \cup {i} /\ row.parent \in rows \cup {Null}
  BY DEF Write, Put, rows
<1> QED
  BY <1>1 DEF Write, Put, rows

(* Writing one row: the references stay whole, and only that row's parent   *)
(* may change.                                                              *)
LEMMA WriteLinks ==
    ASSUME Inv, Linked, NEW i \in Incidents, NEW row \in IncidentRow, Write(i, row),
           UNCHANGED chronologies
    PROVE  /\ RowsLinked' /\ ChronologiesLinked' /\ LinesFit'
           /\ row.parent # Null => row.parent \in Incidents
           /\ \A j \in rows' : j = i \/ (j \in rows /\ incidents'[j].parent = incidents[j].parent)
           /\ incidents'[i].parent = row.parent
<1>1. rows' = rows \cup {i} /\ row.parent \in rows \cup {Null}
  BY OneRowWritten DEF Inv
<1>2. \A j \in rows' : incidents'[j] = IF j = i THEN row ELSE incidents[j]
  BY OneRowWritten DEF Inv
<1>3. RowsLinked'
  BY <1>1, <1>2 DEF RowsLinked, Linked
<1>4. ChronologiesLinked'
  BY <1>1 DEF ChronologiesLinked, Linked, chronologyRows
<1>5. LinesFit'
  <2>1. CASE i \in rows
    <3>1. lines' = lines /\ rows' = rows
      BY <1>1, <2>1 DEF Write
    <3> QED
      BY <3>1 DEF LinesFit, Linked
  <2>2. CASE i \notin rows
    <3>1. lines' = [y \in rows \cup {i} |-> IF y = i THEN Empty ELSE lines[y]]
      BY <2>2 DEF Write, Put, Linked, LinesFit
    <3> QED
      BY <3>1, <1>1 DEF LinesFit, Linked
  <2> QED
    BY <2>1, <2>2
<1> QED
  BY <1>1, <1>2, <1>3, <1>4, <1>5 DEF Inv, WellTyped

(* A call writes the row it has in memory back.                             *)
LEMMA SaveLinks ==
    ASSUME Inv, Linked, NEW w \in Workers, jobs[w] \in PlainJob \cup EditJob,
           NEW row \in IncidentRow, row.parent = jobs[w].row.parent,
           Write(jobs[w].id, row), UNCHANGED chronologies, TasksFit', CallsFit',
           \A v \in Workers : Repeats(jobs'[v])
    PROVE  Linked'
<1>1. jobs[w].id \in Incidents /\ jobs[w].stage # "idle"
  BY DEF PlainJob, EditJob
<1>2. RowsRepeat
  BY <1>1, WriteLinks, ReadIsSaid, KeptIsSaid DEF RowsRepeat
<1>3. NoLoop'
  BY <1>2, NothingNewSaid DEF Linked
<1> QED
  BY <1>1, <1>3, WriteLinks DEF Linked

(* An edit that saves the columns leaves the tables linked.                 *)
LEMMA WriteFieldsLinks ==
    ASSUME Inv, Linked, NEW w \in Workers, WriteFields(w)
    PROVE  Linked'
<1>1. jobs[w] \in EditJob
  BY StageTells DEF WriteFields, Inv
<1>2. /\ jobs[w].id \in Incidents
      /\ jobs[w].row \in IncidentRow /\ jobs[w].content \in Contents
  BY <1>1 DEF EditJob
<1> DEFINE row == [Edited(jobs[w]) EXCEPT !.deleted = FALSE]
<1>3. row \in IncidentRow /\ row.parent = jobs[w].row.parent
  <2>1. Bump(jobs[w].row.version) \in 1 .. MaxVersion
    BY <1>2, BumpInRange DEF IncidentRow
  <2>2. Edited(jobs[w]) \in IncidentRow /\ Edited(jobs[w]).parent = jobs[w].row.parent
    BY <1>2, <2>1 DEF Edited, IncidentRow
  <2> QED
    BY <2>2 DEF IncidentRow
<1>4. Write(jobs[w].id, row) /\ Goto(w, "tags") /\ UNCHANGED <<chronologies, queued, expired>>
  BY DEF WriteFields, Save
<1> HIDE DEF row
<1>5. TasksFit' /\ UNCHANGED chronologies
  BY <1>4 DEF TasksFit, Linked
<1>6. CallsFit' /\ \A v \in Workers : Repeats(jobs'[v])
  BY <1>1, <1>4, GotoRepeats DEF Linked
<1> QED
  BY <1>1, <1>3, <1>4, <1>5, <1>6, SaveLinks

(* Only keys of incidents are queued.                                       *)
LEMMA EnqueueFits ==
    ASSUME TasksFit, NEW i \in Incidents, Enqueue(i), UNCHANGED expired
    PROVE  TasksFit'
BY DEF TasksFit, Enqueue

(* Submitting, rejecting and promoting leaves the tables linked.            *)
LEMMA SaveStatusLinks ==
    ASSUME Inv, Linked, NEW w \in Workers,
           SubmitIncident(w) \/ RejectIncident(w) \/ Promote(w)
    PROVE  Linked'
<1>1. PICK stage \in {"submit", "reject", "promote"}, status \in IncidentStatuses :
          SaveStatus(w, stage, status)
  BY DEF SubmitIncident, RejectIncident, Promote, IncidentStatuses
<1>2. jobs[w] \in PlainJob
  BY <1>1, StageTells DEF SaveStatus, Inv
<1>3. jobs[w].id \in Incidents /\ jobs[w].row \in IncidentRow
  BY <1>2 DEF PlainJob
<1> DEFINE row == [[jobs[w].row EXCEPT !.status = status] EXCEPT !.deleted = FALSE]
<1>4. row \in IncidentRow /\ row.parent = jobs[w].row.parent
  BY <1>3 DEF IncidentRow
<1>5. Write(jobs[w].id, row) /\ Finish(w) /\ UNCHANGED chronologies /\ UNCHANGED expired
  BY <1>1 DEF SaveStatus, Save
<1> HIDE DEF row
<1>6. TasksFit'
  <2>1. CASE UNCHANGED queued
    BY <2>1, <1>5 DEF TasksFit, Linked
  <2>2. CASE Enqueue(jobs[w].id)
    BY <2>2, <1>3, <1>5, EnqueueFits DEF Linked
  <2> QED
    BY <2>1, <2>2 DEF SubmitIncident, RejectIncident, Promote
<1>7. CallsFit' /\ \A v \in Workers : Repeats(jobs'[v])
  BY <1>5, FinishRepeats DEF Linked
<1> QED
  BY <1>2, <1>4, <1>5, <1>6, <1>7, SaveLinks

(* A soft delete leaves the tables linked.                                  *)
LEMMA SoftDeleteLinks ==
    ASSUME Inv, Linked, NEW w \in Workers, SoftDelete(w)
    PROVE  Linked'
<1>1. jobs[w] \in PlainJob
  BY StageTells DEF SoftDelete, Inv
<1>2. jobs[w].id \in Incidents /\ jobs[w].row \in IncidentRow
  BY <1>1 DEF PlainJob
<1> DEFINE row == [jobs[w].row EXCEPT !.deleted = TRUE]
<1>3. row \in IncidentRow /\ row.parent = jobs[w].row.parent
  BY <1>2 DEF IncidentRow
<1>4. Write(jobs[w].id, row) /\ Finish(w) /\ UNCHANGED <<chronologies, queued, expired>>
  BY DEF SoftDelete
<1> HIDE DEF row
<1>5. TasksFit' /\ UNCHANGED chronologies
  BY <1>4 DEF TasksFit, Linked
<1>6. CallsFit' /\ \A v \in Workers : Repeats(jobs'[v])
  BY <1>4, FinishRepeats DEF Linked
<1> QED
  BY <1>1, <1>3, <1>4, <1>5, <1>6, SaveLinks

---------------------------------------------------------------------------
(* A fresh row's key is named by nobody.                                    *)
LEMMA FreshIsUnsaid ==
    ASSUME Inv, RowsLinked, NEW i \in Incidents, FreshIncident(i), NEW x, NEW p
    PROVE  ~ Says(x, i) /\ ~ Says(i, p)
<1>1. i \notin rows /\ i # Null
  BY ConstantsAssumption DEF FreshIncident
<1>2. \A w \in Workers : ~ InMemory(w, i)
  BY DEF FreshIncident
<1> QED
  BY <1>1, <1>2 DEF Says, InMemory, RowsLinked

(* A new row leaves the tables linked.                                      *)
LEMMA InsertLinks ==
    ASSUME Inv, Linked, NEW w \in Workers, NEW u \in Users, NEW i \in Incidents,
           NEW status \in IncidentStatuses, NEW up \in Incidents \cup {Null},
           NEW content \in Contents, NEW writes \in SUBSET Keys,
           Insert(w, u, i, status, up, content, writes),
           up # i
    PROVE  Linked'
<1> DEFINE row == [deleted |-> FALSE, status |-> status, version |-> 1,
                   parent |-> up, author |-> u, fields |-> content]
           job == Edit("tags", u, i, row, content, writes)
<1>1. row \in IncidentRow /\ row.parent = up
  BY ConstantsAssumption DEF IncidentRow
<1>2. job.stage = "tags" /\ job.id = i /\ job.row = row
  BY DEF Edit
<1>3. /\ Write(i, row) /\ jobs' = [jobs EXCEPT ![w] = job] /\ UNCHANGED chronologies
      /\ UNCHANGED <<queued, expired>> /\ FreshIncident(i)
  BY DEF Insert
<1> HIDE DEF row, job
<1>4. \A v \in Workers : jobs'[v] = IF v = w THEN job ELSE jobs[v]
  BY <1>3 DEF Inv, WellTyped
<1>5. CallsFit'
  <2>1. \A v \in Workers : Aimed(jobs'[v])
    BY <1>2, <1>4 DEF Aimed, Linked, CallsFit
  <2> QED
    BY <2>1 DEF CallsFit, Aimed
<1>6. \A x, p : Says(x, p)' => Says(x, p) \/ (x = i /\ p = up)
  <2> SUFFICES ASSUME NEW x, NEW p, Says(x, p)'
               PROVE  Says(x, p) \/ (x = i /\ p = up)
    OBVIOUS
  <2>1. CASE x \in rows' /\ incidents'[x].parent = p
    BY <2>1, <1>1, <1>3, WriteLinks DEF Says
  <2>2. CASE \E v \in Workers : /\ jobs'[v].stage # "idle"
                                /\ jobs'[v].id = x /\ jobs'[v].row.parent = p
    BY <2>2, <1>1, <1>2, <1>4 DEF Says
  <2> QED
    BY <2>1, <2>2 DEF Says
<1>7. \A x, p : ~ Says(x, i) /\ ~ Says(i, p)
  BY <1>3, FreshIsUnsaid DEF Linked
<1>8. ASSUME NEW S \in SUBSET Incidents, S # {}
      PROVE  \E x \in S : \A p \in S : ~ Says(x, p)'
  <2>1. CASE S = {i}
    BY <2>1, <1>6, <1>7
  <2>2. CASE S # {i}
    <3>1. PICK x \in S \ {i} : \A p \in S \ {i} : ~ Says(x, p)
      <4>1. S \ {i} \in SUBSET Incidents /\ S \ {i} # {}
        BY <1>8, <2>2
      <4> QED
        BY <4>1 DEF Linked, NoLoop
    <3>2. \A p \in S : ~ Says(x, p)
      BY <3>1, <1>7
    <3>3. \A p \in S : ~ Says(x, p)'
      BY <3>1, <3>2, <1>6
    <3> QED
      BY <3>1, <3>3
  <2> QED
    BY <2>1, <2>2
<1>9. NoLoop'
  BY <1>8 DEF NoLoop
<1>10. TasksFit'
  BY <1>3 DEF TasksFit, Linked
<1> QED
  BY <1>1, <1>3, <1>5, <1>9, <1>10, WriteLinks DEF Linked

(* create_incident leaves the tables linked.                                *)
LEMMA CreateLinks ==
    ASSUME Inv, Linked, NEW w \in Workers, NEW u \in Users, NEW i \in Incidents,
           NEW content \in Contents, NEW writes \in SUBSET Keys,
           CreateIncident(w, u, i, content, writes)
    PROVE  Linked'
<1>1. PICK status \in IncidentStatuses : Insert(w, u, i, status, Null, content, writes)
  <2> DEFINE status == IF u \in Admins THEN "live" ELSE "draft"
  <2>1. status \in IncidentStatuses
    BY DEF IncidentStatuses
  <2>2. Insert(w, u, i, status, Null, content, writes)
    BY DEF CreateIncident
  <2> QED
    BY <2>1, <2>2
<1>2. Null # i
  BY ConstantsAssumption
<1> QED
  BY <1>1, <1>2, InsertLinks

(* A new revision leaves the tables linked.                                 *)
LEMMA ReviseLinks ==
    ASSUME Inv, Linked, NEW w \in Workers, NEW i \in Incidents, Revise(w, i)
    PROVE  Linked'
<1>1. jobs[w] \in EditJob
  BY StageTells DEF Revise, Inv
<1>2. /\ jobs[w].user \in Users /\ jobs[w].id \in Incidents
      /\ jobs[w].content \in Contents /\ jobs[w].writes \in SUBSET Keys
  BY <1>1 DEF EditJob
<1>3. "draft" \in IncidentStatuses
  BY DEF IncidentStatuses
<1>4. jobs[w].id # i
  BY DEF Revise, Insert, FreshIncident, InMemory
<1> QED
  BY <1>2, <1>3, <1>4, InsertLinks DEF Revise

(* The search for an open draft leaves the tables linked.                   *)
LEMMA LookForDraftLinks ==
    ASSUME Inv, Linked, NEW w \in Workers, LookForDraft(w)
    PROVE  Linked'
<1>1. jobs[w] \in EditJob
  BY StageTells DEF LookForDraft, Inv
<1>2. UNCHANGED tables /\ TasksFit'
  BY DEF LookForDraft, TasksFit, Linked
<1>3. CallsFit' /\ \A v \in Workers : Repeats(jobs'[v])
  <2>1. CASE OpenDrafts(jobs[w].id) = {}
    BY <2>1, <1>1, GotoRepeats DEF LookForDraft, Linked
  <2>2. CASE OpenDrafts(jobs[w].id) # {}
    <3>1. PICK d \in OpenDrafts(jobs[w].id) :
             IF incidents[d].author = jobs[w].user
             THEN jobs' = [jobs EXCEPT ![w] = Edit("fields", jobs[w].user, d,
                              incidents[d], jobs[w].content, jobs[w].writes)]
             ELSE Finish(w)
      BY <2>2 DEF LookForDraft
    <3>2. d \in rows
      BY DEF OpenDrafts
    <3>3. CASE Finish(w)
      BY <3>3, FinishRepeats DEF Linked
    <3> DEFINE job == Edit("fields", jobs[w].user, d, incidents[d],
                           jobs[w].content, jobs[w].writes)
    <3>4. Repeats(job) /\ Aimed(job)
      BY <3>2, ReadIsSaid DEF Edit, Repeats, Aimed
    <3> HIDE DEF job
    <3>5. CASE jobs' = [jobs EXCEPT ![w] = job]
      BY <3>4, <3>5, JobRepeats DEF Linked
    <3> QED
      BY <3>1, <3>3, <3>5 DEF job
  <2> QED
    BY <2>1, <2>2
<1> QED
  BY <1>2, <1>3, MemoryOnlyLinks

---------------------------------------------------------------------------
(* Writing the m2m sets leaves the tables linked.                           *)
LEMMA WriteTagsLinks ==
    ASSUME Inv, Linked, NEW w \in Workers, WriteTags(w)
    PROVE  Linked'
<1>1. jobs[w] \in EditJob
  BY StageTells DEF WriteTags, Inv
<1>2. CallsFit' /\ \A v \in Workers : Repeats(jobs'[v])
  BY <1>1, GotoRepeats DEF WriteTags, Linked
<1>3. UNCHANGED incidents /\ UNCHANGED chronologies /\ TasksFit'
  BY DEF WriteTags, TasksFit, Linked
<1>4. jobs[w].id \in rows /\ jobs[w].content \in Contents
  BY <1>1 DEF WriteTags, EditJob
<1>5. LinesFit'
  BY <1>3, <1>4 DEF WriteTags, LinesFit, Linked, rows
<1>6. NoLoop'
  BY <1>2, <1>3, SameRowsRepeat, NothingNewSaid DEF Linked
<1> QED
  BY <1>2, <1>3, <1>5, <1>6
  DEF Linked, RowsLinked, ChronologiesLinked, rows, chronologyRows

(* A step that writes only chronologies leaves the tables linked.           *)
LEMMA ChronologiesOnlyLinks ==
    ASSUME Inv, Linked, NEW w \in Workers, Finish(w),
           UNCHANGED <<incidents, lines, queued, expired>>, ChronologiesLinked'
    PROVE  Linked'
<1>1. CallsFit' /\ \A v \in Workers : Repeats(jobs'[v])
  BY FinishRepeats DEF Linked
<1>2. NoLoop'
  BY <1>1, SameRowsRepeat, NothingNewSaid DEF Linked
<1> QED
  BY <1>1, <1>2 DEF Linked, RowsLinked, LinesFit, TasksFit, rows

(* Replacing the chronologies leaves the tables linked.                     *)
LEMMA WriteChronologiesLinks ==
    ASSUME Inv, Linked, NEW w \in Workers, WriteChronologies(w)
    PROVE  Linked'
<1> DEFINE i == jobs[w].id
           writes == jobs[w].writes
           old == ChronologiesOf(i)
<1>1. /\ i \in rows /\ Finish(w) /\ UNCHANGED <<incidents, lines, queued, expired>>
      /\ ReplaceChronologies(i, writes, jobs[w].row.status)
  BY DEF WriteChronologies
<1>2. PICK new \in [writes -> FreshChronologies(old)], status \in [writes -> ChronologyStatuses] :
          chronologies' =
            [c \in (chronologyRows \ old) \cup {new[k] : k \in writes} |->
                IF \E k \in writes : new[k] = c
                THEN LET k == CHOOSE l \in writes : new[l] = c
                     IN  [incident |-> i, key |-> k, status |-> status[k]]
                ELSE chronologies[c]]
  BY <1>1 DEF ReplaceChronologies
<1>3. rows' = rows
  BY <1>1 DEF rows
<1>4. \A c \in chronologyRows' : chronologies'[c].incident = i \/
         (c \in chronologyRows /\ chronologies'[c].incident = chronologies[c].incident)
  BY <1>2 DEF chronologyRows
<1>5. ChronologiesLinked'
  BY <1>1, <1>3, <1>4 DEF ChronologiesLinked, Linked
<1> QED
  BY <1>1, <1>5, ChronologiesOnlyLinks

(* The second half of a call on a chronology leaves the tables linked.      *)
LEMMA ChronologyStepLinks ==
    ASSUME Inv, Linked, NEW w \in Workers, SaveChronology(w) \/ DropChronology(w)
    PROVE  Linked'
<1>1. Finish(w) /\ UNCHANGED <<incidents, lines, queued, expired>>
  BY DEF SaveChronology, DropChronology
<1>2. rows' = rows
  BY <1>1 DEF rows
<1>3. ChronologiesLinked'
  <2>1. CASE SaveChronology(w)
    <3>1. jobs[w].write.incident \in rows
      BY <2>1 DEF SaveChronology, Linked, CallsFit, Aimed
    <3>2. chronologies' = Put(chronologies, jobs[w].chronology, jobs[w].write)
      BY <2>1 DEF SaveChronology
    <3> QED
      BY <1>2, <3>1, <3>2 DEF ChronologiesLinked, Linked, Put, chronologyRows
  <2>2. CASE DropChronology(w)
    BY <2>2, <1>2 DEF DropChronology, Only, ChronologiesLinked, Linked, chronologyRows
  <2> QED
    BY <2>1, <2>2
<1> QED
  BY <1>1, <1>3, ChronologiesOnlyLinks

(* Resolving what is pending under a row leaves the tables linked.          *)
LEMMA ResolveChildrenLinks ==
    ASSUME Inv, Linked, NEW w \in Workers, ResolveChildren(w)
    PROVE  Linked'
<1>1. jobs[w] \in PlainJob /\ Goto(w, "delete")
  BY StageTells DEF ResolveChildren, Inv
<1>2. CallsFit' /\ \A v \in Workers : Repeats(jobs'[v])
  BY <1>1, GotoRepeats DEF Linked
<1>3. incidents' = [j \in rows |-> IF j \in OpenDrafts(jobs[w].id)
                                   THEN [incidents[j] EXCEPT !.deleted = TRUE]
                                   ELSE incidents[j]]
  BY DEF ResolveChildren
<1>4. rows' = rows
  BY <1>3 DEF rows
<1>5. ASSUME NEW j \in rows
      PROVE  incidents'[j].parent = incidents[j].parent
  <2>1. incidents[j] \in IncidentRow
    BY DEF Inv, WellTyped
  <2> QED
    BY <1>3, <2>1 DEF IncidentRow
<1>6. RowsRepeat /\ RowsLinked'
  BY <1>4, <1>5, ReadIsSaid DEF RowsRepeat, RowsLinked, Linked
<1>7. NoLoop'
  BY <1>2, <1>6, NothingNewSaid DEF Linked
<1>8. ChronologiesLinked'
  BY <1>4 DEF ResolveChildren, Only, ChronologiesLinked, Linked, chronologyRows
<1>9. LinesFit' /\ TasksFit'
  BY <1>4 DEF ResolveChildren, LinesFit, TasksFit, Linked
<1> QED
  BY <1>2, <1>6, <1>7, <1>8, <1>9 DEF Linked

---------------------------------------------------------------------------
(* The parents as a forest, and what a hard delete takes.                   *)
Parents == [j \in rows |-> incidents[j].parent]

(* The table's parent column is a forest.                                   *)
LEMMA ParentsAreForest ==
    ASSUME Inv, RowsLinked
    PROVE  IsForest(Parents) /\ DOMAIN Parents = rows
BY ConstantsAssumption DEF IsForest, Parents, RowsLinked, Inv, WellTyped

(* Whoever stays keeps its parent.                                          *)
LEMMA StayingKeepParents ==
    ASSUME Inv, RowsLinked, NEW i, NEW j \in rows \ HardDeleted(i)
    PROVE  incidents[j].parent \in (rows \ HardDeleted(i)) \cup {Null}
<1>1. CASE i \in rows
  <2>1. HardDeleted(i) = Subtree(Parents, i)
    BY <1>1 DEF HardDeleted, Parents
  <2>2. Parents[j] = incidents[j].parent /\ j \in DOMAIN Parents
    BY DEF Parents
  <2>3. Parents[j] \notin Subtree(Parents, i)
    BY <2>1, <2>2, ParentsAreForest, SubtreeDescends
  <2> QED
    BY <2>1, <2>2, <2>3 DEF RowsLinked
<1>2. CASE i \notin rows
  BY <1>2 DEF HardDeleted, RowsLinked
<1> QED
  BY <1>1, <1>2

(* A revision in hand is not above its parent: the parent survives when the *)
(* revision is deleted.                                                     *)
LEMMA ParentSurvives ==
    ASSUME Inv, RowsLinked, NoLoop, NEW i \in rows, NEW p \in rows, Says(i, p)
    PROVE  p \notin HardDeleted(i)
<1> SUFFICES ASSUME p \in HardDeleted(i)
             PROVE  FALSE
  OBVIOUS
<1>1. p \in Subtree(Parents, i)
  BY DEF HardDeleted, Parents
<1> DEFINE L == Subtree(Parents, i) \cap Ancestors(Parents, p)
<1>2. L \subseteq Incidents
  BY AncestorsAreRows, ParentsAreForest DEF Inv, WellTyped
<1>3. p \in L
  BY <1>1, AncestorsReflexive, ParentsAreForest
<1>4. ASSUME NEW d \in L
      PROVE  \E q \in L : Says(d, q)
  <2>1. CASE d = i
    BY <2>1, <1>3
  <2>2. CASE d # i
    <3>1. d \in rows
      BY AncestorsAreRows, ParentsAreForest
    <3>2. Parents[d] # Null /\ Parents[d] \in Subtree(Parents, i)
      BY <2>2, ParentsAreForest, SubtreeAscends
    <3>3. Parents[d] \in Ancestors(Parents, p)
      BY <3>2, ParentsAreForest, AncestorsClosed DEF IsForest, IsClosedUpwards
    <3>4. Says(d, Parents[d])
      BY <3>1, ReadIsSaid DEF Parents
    <3> QED
      BY <3>2, <3>3, <3>4
  <2> QED
    BY <2>1, <2>2
<1> QED
  BY <1>2, <1>3, <1>4 DEF NoLoop

(* A merge leaves the tables linked.                                        *)
LEMMA MergeLinks ==
    ASSUME Inv, Linked, NEW w \in Workers, Merge(w)
    PROVE  Linked'
<1> DEFINE id == jobs[w].id
           p == jobs[w].row.parent
           left == rows \ HardDeleted(id)
           moved(c) == chronologies[c].incident = id
           kept == {c \in chronologyRows : moved(c) \/
                                           chronologies[c].incident \in left \ {p}}
<1>1. jobs[w].stage = "merge" /\ jobs[w] \in PlainJob /\ Finish(w) /\ Visible(p)
  BY StageTells DEF Merge, Inv
<1>2. p \in rows /\ p \in Incidents /\ incidents[p] \in IncidentRow
  BY <1>1, RowRead DEF Visible, Inv
<1>3. /\ incidents' = [j \in left |-> IF j = p THEN Merged(incidents[p], jobs[w].row)
                                      ELSE incidents[j]]
      /\ lines' = [j \in left |-> IF j # p THEN lines[j]
                                  ELSE IF id \in rows THEN lines[id] ELSE Empty]
      /\ chronologies' = [c \in kept |->
            IF moved(c) THEN [chronologies[c] EXCEPT !.incident = p] ELSE chronologies[c]]
      /\ IF MergeAlerts(incidents[p], jobs[w].row) THEN Enqueue(p) ELSE UNCHANGED queued
      /\ UNCHANGED expired
  BY DEF Merge
<1>4. rows' = left
  BY <1>3 DEF rows
<1>5. Merged(incidents[p], jobs[w].row).parent = incidents[p].parent
  BY <1>2 DEF Merged, IncidentRow
<1>6. \A j \in left : incidents'[j].parent = incidents[j].parent
  BY <1>3, <1>5
<1>7. p \in left
  <2>1. CASE id \in rows
    <3>1. Says(id, p)
      BY <1>1, KeptIsSaid
    <3> QED
      BY <2>1, <3>1, <1>2, ParentSurvives DEF Linked
  <2>2. CASE id \notin rows
    BY <2>2, <1>2 DEF HardDeleted
  <2> QED
    BY <2>1, <2>2
<1>8. CallsFit' /\ \A v \in Workers : Repeats(jobs'[v])
  BY <1>1, FinishRepeats DEF Linked
<1>9. RowsLinked'
  <2>1. \A j \in left : incidents[j].parent \in left \cup {Null}
    BY StayingKeepParents DEF Linked
  <2> QED
    BY <1>4, <1>6, <2>1 DEF RowsLinked
<1>10. RowsRepeat
  BY <1>4, <1>6, ReadIsSaid DEF RowsRepeat
<1>11. NoLoop'
  BY <1>8, <1>10, NothingNewSaid DEF Linked
<1>12. ChronologiesLinked'
  <2>1. chronologyRows' = kept
    BY <1>3 DEF chronologyRows
  <2>2. \A c \in chronologyRows : chronologies[c] \in ChronologyRow
    BY DEF Inv, WellTyped
  <2>3. \A c \in chronologyRows : [chronologies[c] EXCEPT !.incident = p].incident = p
    BY <2>2 DEF ChronologyRow
  <2>4. \A c \in kept : chronologies'[c].incident = p \/ chronologies'[c].incident \in left
    BY <1>3, <2>3
  <2> HIDE DEF left, p, kept
  <2> QED
    BY <1>4, <1>7, <2>1, <2>4 DEF ChronologiesLinked
<1>13. LinesFit'
  <2>1. \A j \in rows : lines[j] \in Contents \cup {Empty}
    BY DEF Linked, LinesFit
  <2>2. \A j \in left : lines'[j] \in Contents \cup {Empty}
    BY <1>3, <2>1
  <2> HIDE DEF left, p, id
  <2> QED
    BY <1>3, <1>4, <2>2 DEF LinesFit
<1>14. TasksFit'
  <2>1. CASE Enqueue(p)
    BY <2>1, <1>2, <1>3, EnqueueFits DEF Linked
  <2>2. CASE UNCHANGED queued
    BY <2>2, <1>3 DEF TasksFit, Linked
  <2> QED
    BY <1>3, <2>1, <2>2
<1> QED
  BY <1>8, <1>9, <1>11, <1>12, <1>13, <1>14 DEF Linked

(* A purge leaves the tables linked.                                        *)
LEMMA PurgeLinks ==
    ASSUME Inv, Linked, Purge
    PROVE  Linked'
<1>1. UNCHANGED jobs /\ UNCHANGED queued /\ expired' = Null
  BY DEF Purge
<1>2. CallsFit' /\ TasksFit'
  BY <1>1 DEF CallsFit, Aimed, TasksFit, Linked
<1>3. \A v \in Workers : Repeats(jobs'[v])
  BY <1>1, KeptIsSaid DEF Repeats
<1>4. CASE UNCHANGED tables
  BY <1>2, <1>3, <1>4, MemoryOnlyLinks
<1>5. CASE HardDelete(expired)
  <2> DEFINE left == rows \ HardDeleted(expired)
  <2>1. /\ incidents' = Only(incidents, left) /\ lines' = Only(lines, left)
        /\ chronologies' = Only(chronologies,
              {c \in chronologyRows : chronologies[c].incident \in left})
    BY <1>5 DEF HardDelete
  <2>2. rows' = left /\ \A j \in left : incidents'[j] = incidents[j]
    BY <2>1 DEF rows, Only
  <2>3. \A j \in left : incidents[j].parent \in left \cup {Null}
    BY StayingKeepParents DEF Linked
  <2>4. RowsLinked' /\ RowsRepeat
    BY <2>2, <2>3, ReadIsSaid DEF RowsLinked, RowsRepeat
  <2>5. ChronologiesLinked'
    BY <2>1, <2>2 DEF ChronologiesLinked, Only, chronologyRows
  <2>6. LinesFit'
    BY <2>1, <2>2 DEF LinesFit, Only, Linked
  <2>7. NoLoop'
    BY <1>3, <2>4, NothingNewSaid DEF Linked
  <2> QED
    BY <1>2, <2>4, <2>5, <2>6, <2>7 DEF Linked
<1> QED
  BY <1>4, <1>5 DEF Purge

(* A step of a task that loads a row or sends a push, or no step at all.    *)
LEMMA TasksLink ==
    ASSUME Inv, Linked, UNCHANGED tables, UNCHANGED jobs, TasksFit'
    PROVE  Linked'
<1>1. CallsFit'
  BY DEF CallsFit, Aimed, Linked
<1>2. \A v \in Workers : Repeats(jobs'[v])
  BY KeptIsSaid DEF Repeats
<1> QED
  BY <1>1, <1>2, MemoryOnlyLinks

(* A call that stops leaves the tables linked.                              *)
LEMMA FailLinks ==
    ASSUME Inv, Linked, NEW w \in Workers, Fail(w)
    PROVE  Linked'
<1>1. UNCHANGED tables /\ Finish(w) /\ TasksFit'
  BY DEF Fail, TasksFit, Linked
<1> QED
  BY <1>1, FinishRepeats, MemoryOnlyLinks DEF Linked

(* Every step leaves the tables linked.                                     *)
LEMMA StepLinks ==
    ASSUME Inv, Linked, [Next]_vars
    PROVE  Linked'
<1>1. CASE UNCHANGED vars
  BY <1>1, TasksLink DEF vars, tables, TasksFit, Linked
<1>2. CASE \E w \in Workers : Steps(w)
  <2> PICK w \in Workers : Steps(w)
    BY <1>2
  <2>1. CASE LookForDraft(w) \/ \E i \in Incidents : Revise(w, i)
    BY <2>1, LookForDraftLinks, ReviseLinks
  <2>2. CASE WriteFields(w) \/ WriteTags(w) \/ WriteChronologies(w)
    BY <2>2, WriteFieldsLinks, WriteTagsLinks, WriteChronologiesLinks
  <2>3. CASE SubmitIncident(w) \/ RejectIncident(w) \/ Promote(w) \/ Merge(w)
    BY <2>3, SaveStatusLinks, MergeLinks
  <2>4. CASE ResolveChildren(w) \/ SoftDelete(w)
    BY <2>4, ResolveChildrenLinks, SoftDeleteLinks
  <2>5. CASE SaveChronology(w) \/ DropChronology(w) \/ Fail(w)
    BY <2>5, ChronologyStepLinks, FailLinks
  <2> QED
    BY <2>1, <2>2, <2>3, <2>4, <2>5 DEF Steps
<1>3. CASE \E w \in Workers : \E u \in Users : Calls(w, u)
  <2> PICK w \in Workers, u \in Users : Calls(w, u)
    BY <1>3
  <2>1. CASE \E i \in Incidents : \E content \in Contents, writes \in SUBSET Keys :
                CreateIncident(w, u, i, content, writes)
    BY <2>1, CreateLinks
  <2>2. CASE \E i \in Incidents : \E c \in Chronologies, k \in Keys :
                CreateChronology(w, u, i, c, k)
    BY <2>2, CreateChronologyLinks
  <2>3. CASE \E i \in rows : \E content \in Contents, writes \in SUBSET Keys :
                ReadForUpdate(w, u, i, content, writes)
    BY <2>3, UpdateLinks
  <2>4. CASE \E i \in rows : \/ ReadForSubmit(w, u, i)
                             \/ ReadForApprove(w, u, i)
                             \/ ReadForReject(w, u, i)
                             \/ ReadForDelete(w, u, i)
    BY <2>4, PlainStartLinks
  <2>5. CASE \E c \in chronologyRows : ChronologyCall(w, u, c)
    BY <2>5, ChronologyCallLinks
  <2> QED
    BY <2>1, <2>2, <2>3, <2>4, <2>5 DEF Calls
<1>4. CASE \E i \in rows : LoadDeleted(i) \/ LoadRejected(i)
  <2>1. PICK i \in rows : LoadDeleted(i) \/ LoadRejected(i)
    BY <1>4
  <2>2. TasksFit'
    BY <2>1, RowRead DEF LoadDeleted, LoadRejected, TasksFit, Linked, Inv
  <2> QED
    BY <2>1, <2>2, TasksLink DEF LoadDeleted, LoadRejected
<1>5. CASE Purge
  BY <1>5, PurgeLinks
<1>6. CASE \E i \in queued : Notify(i)
  <2>1. PICK i \in queued : Notify(i)
    BY <1>6
  <2>2. TasksFit'
    BY <2>1 DEF Notify, TasksFit, Linked
  <2> QED
    BY <2>1, <2>2, TasksLink DEF Notify
<1> QED
  BY <1>1, <1>2, <1>3, <1>4, <1>5, <1>6 DEF Next

(* Empty tables are linked.                                                 *)
LEMMA InitLinks == Init => Linked
<1> SUFFICES ASSUME Init PROVE Linked
  OBVIOUS
<1>1. rows = {} /\ chronologyRows = {}
  BY DEF Init, rows, chronologyRows
<1>2. \A w \in Workers : jobs[w].stage = "idle"
  BY DEF Init, Idle
<1>3. \A x, p : ~ Says(x, p)
  BY <1>1, <1>2 DEF Says
<1>4. NoLoop
  BY <1>3 DEF NoLoop
<1> QED
  BY <1>1, <1>2, <1>4
  DEF Init, Linked, RowsLinked, ChronologiesLinked, LinesFit, TasksFit, CallsFit, Aimed

(* Whatever calls overlap, fail half-way or write back a row that is gone,  *)
(* and whenever the purges run, no foreign key dangles and no revision      *)
(* becomes its own ancestor.                                                *)
THEOREM AlwaysLinked == Spec => []Linked
<1>1. Inv /\ Linked /\ [Next]_vars => Linked'
  BY StepLinks
<1> QED
  BY <1>1, InitLinks, AlwaysEntitled, PTL DEF Spec

(* Every row and call stays well formed, and the tables hang together.      *)
THEOREM TypeCorrect == Spec => []TypeOK
<1>1. Inv /\ Linked => TypeOK
  BY DEF Inv, Linked, TypeOK, RowsLinked, ChronologiesLinked, LinesFit, TasksFit
<1> QED
  BY <1>1, AlwaysLinked, AlwaysEntitled, PTL DEF Spec

---------------------------------------------------------------------------
(* Incidents that overlapping calls were not about.  Calls on the others    *)
(* overlap in any way; calls may stop between any two of their              *)
(* transactions, and the purges run between them: a call may find its row   *)
(* gone and insert it again.                                                *)

(* Chronologies that wait for a decision.                                   *)
Pending == {"pending_approval", "pending_deletion"}

(* The statuses a chronology may have under an incident of a status.        *)
Fits(status, parentStatus) ==
    /\ status \in {"live", "pending_deletion"} => parentStatus = "live"
    /\ parentStatus = "draft" => status = "draft"

(* What the checks of a call's first half leave true of its memory.         *)
Prepared(job) ==
    /\ job.stage = "promote" => job.row.status = "pending_approval"
    /\ job.stage = "submit" => job.row.status = "draft"
    /\ job.stage = "reject" => job.row.status \in {"draft", "pending_approval"}
    /\ job.stage \in {"drafts", "revise"} => job.row.status # "draft"
    /\ job.stage = "tags" /\ job.user \notin Admins => job.row.status # "live"
    /\ job.stage = "store" => Fits(job.write.status, job.row.status)
    /\ job.stage = "settle" => job.write.status = "live"

(* No chronology of row i waits for a decision.                             *)
NoPending(i) == \A c \in ChronologiesOf(i) : chronologies[c].status \notin Pending

(* What is still true of the tables when the memory is used: of the row, if *)
(* no purge has taken it; of its parent; and of what was looked for.        *)
Current(job) ==
    job.stage # "idle" =>
        /\ job.id \in rows =>
              /\ ~ incidents[job.id].deleted
              /\ incidents[job.id].status = job.row.status
              /\ incidents[job.id].parent = job.row.parent
        /\ job.row.status = "draft" /\ job.id \notin rows => job.row.parent \notin rows
        /\ job.row.parent \in rows => incidents[job.row.parent].status # "draft"
        /\ job.stage \in {"revise", "delete"} => OpenDrafts(job.id) = {}
        /\ job.stage = "delete" => NoPending(job.id)
        /\ expired = job.id => job.id \in rows \/ job.row.status # "draft"

(* A call that is about no disturbed incident.                              *)
Quiet(w) == Touched(jobs[w]) \cap disturbed = {}
QuietCallsReady == \A w \in Workers : Quiet(w) => Prepared(jobs[w]) /\ Current(jobs[w])

(* Calls that share an incident, or are about a disturbed one, are about    *)
(* disturbed ones only: what they write is not promised anything.           *)
OverlapsRecorded ==
    \A w \in Workers :
        /\ ~ Quiet(w) => Touched(jobs[w]) \subseteq disturbed
        /\ \A v \in Workers \ {w} : Touched(jobs[w]) \cap Touched(jobs[v]) # {} =>
                                        Touched(jobs[w]) \subseteq disturbed

(* What is true of an incident between the calls' steps.                    *)
ChronologiesFit(i) ==
    i \in rows => \A c \in ChronologiesOf(i) : Fits(chronologies[c].status, incidents[i].status)
DraftIsLeaf(i) ==
    i \in rows /\ incidents[i].status = "draft" => \A j \in rows : incidents[j].parent # i
NoTwins(i) == \A d, e \in OpenDrafts(i) : d = e
DeletedIsResolved(i) ==
    i \in rows /\ incidents[i].deleted => OpenDrafts(i) = {} /\ NoPending(i)
ExpiredIsNoDraft(i) ==
    expired = i /\ i \in rows => incidents[i].deleted \/ incidents[i].status # "draft"

Settled(i) ==
    /\ ChronologiesFit(i) /\ DraftIsLeaf(i) /\ NoTwins(i)
    /\ DeletedIsResolved(i) /\ ExpiredIsNoDraft(i)

CalmInv ==
    /\ Inv /\ Linked /\ OverlapsRecorded /\ QuietCallsReady
    /\ \A i \in Undisturbed : Settled(i)

(* What a step of call w must show: of the undisturbed incidents, and of    *)
(* the other calls that are about nothing disturbed.                        *)
Settles == \A i \in Undisturbed : Settled(i)'
Bystander(job, w) ==
    /\ job.stage # "idle" /\ Touched(job) \cap disturbed = {}
    /\ \E v \in Workers \ {w} : job = jobs[v]
Spares(w) == \A job : Bystander(job, w) => Current(job)'

---------------------------------------------------------------------------
(* Calls and tables taken apart.                                            *)

(* Null is not a key.                                                       *)
LEMMA NullIsNoRow ==
    ASSUME WellTyped
    PROVE  Null \notin rows /\ Null \notin Incidents /\ rows \subseteq Incidents
BY ConstantsAssumption DEF WellTyped

(* The incidents a call in progress is about.                               *)
LEMMA CallIsAbout ==
    ASSUME Inv, NEW w \in Workers, jobs[w].stage # "idle"
    PROVE  /\ jobs[w] \in AnyJob /\ jobs[w].id \in Incidents /\ jobs[w].row \in IncidentRow
           /\ jobs[w].row.parent \in Incidents \cup {Null}
           /\ Touched(jobs[w]) = {jobs[w].id, jobs[w].row.parent} \ {Null}
           /\ jobs[w].id \in Touched(jobs[w])
           /\ jobs[w].row.parent # Null => jobs[w].row.parent \in Touched(jobs[w])
<1>1. jobs[w] \in {Idle} \cup AnyJob
  BY DEF Inv, WellTyped, AnyJob
<1>2. jobs[w] \in AnyJob
  BY <1>1 DEF Idle
<1>3. jobs[w].id \in Incidents /\ jobs[w].row \in IncidentRow
  BY <1>2 DEF AnyJob, PlainJob, EditJob, ChronologyJobs
<1>4. jobs[w].row.parent \in Incidents \cup {Null}
  BY <1>3 DEF IncidentRow
<1> QED
  BY <1>2, <1>3, <1>4, NullIsNoRow DEF Touched, Inv

(* A call that is about an undisturbed incident is ready.                   *)
LEMMA QuietCall ==
    ASSUME CalmInv, NEW w \in Workers, NEW i \in Touched(jobs[w]), i \notin disturbed
    PROVE  Quiet(w) /\ Prepared(jobs[w]) /\ Current(jobs[w])
<1>1. Quiet(w)
  BY DEF CalmInv, OverlapsRecorded
<1> QED
  BY <1>1 DEF CalmInv, QuietCallsReady

(* What is known of another call that is about nothing disturbed.           *)
LEMMA BystanderIs ==
    ASSUME CalmInv, NEW w \in Workers, NEW job, Bystander(job, w)
    PROVE  /\ Current(job) /\ job.stage # "idle"
           /\ job.id \in Undisturbed /\ Settled(job.id)
           /\ job.row.parent \in Incidents \cup {Null}
           /\ job.id \notin Touched(jobs[w]) /\ job.row.parent \notin Touched(jobs[w])
           /\ Says(job.id, job.row.parent)
           /\ \E v \in Workers : jobs[v].stage # "idle" /\ job = jobs[v]
<1>1. PICK v \in Workers \ {w} : job = jobs[v]
  BY DEF Bystander
<1>2. jobs[v].stage # "idle" /\ Quiet(v)
  BY <1>1 DEF Bystander, Quiet
<1>3. /\ jobs[v].id \in Touched(jobs[v]) /\ jobs[v].id \in Incidents
      /\ jobs[v].row.parent \in Incidents \cup {Null}
      /\ jobs[v].row.parent # Null => jobs[v].row.parent \in Touched(jobs[v])
  BY <1>2, CallIsAbout DEF CalmInv
<1>4. Current(jobs[v])
  BY <1>2 DEF CalmInv, QuietCallsReady
<1>5. Touched(jobs[v]) \cap Touched(jobs[w]) = {}
  BY <1>2, <1>3 DEF CalmInv, OverlapsRecorded, Quiet
<1>6. Null \notin Touched(jobs[w])
  BY DEF Touched
<1>7. jobs[v].id \in Undisturbed
  BY <1>2, <1>3 DEF Quiet, Undisturbed
<1>8. Says(jobs[v].id, jobs[v].row.parent)
  BY <1>2, KeptIsSaid
<1> QED
  BY <1>1, <1>2, <1>3, <1>4, <1>5, <1>6, <1>7, <1>8 DEF CalmInv

(* Whatever the calls do, the record is complete.                           *)
LEMMA RecordIsComplete ==
    ASSUME Record
    PROVE  OverlapsRecorded' /\ disturbed \subseteq disturbed'
<1>1. disturbed \subseteq disturbed'
  BY DEF Record
<1> DEFINE shares(w) ==
              \/ Touched(jobs'[w]) \cap disturbed # {}
              \/ \E v \in Workers \ {w} : Touched(jobs'[w]) \cap Touched(jobs'[v]) # {}
<1>2. disturbed' = disturbed \cup UNION {Touched(jobs'[w]) : w \in {v \in Workers : shares(v)}}
  BY DEF Record, Overlapped
<1>3. \A w \in Workers : shares(w) => Touched(jobs'[w]) \subseteq disturbed'
  BY <1>2
<1>4. ASSUME NEW w \in Workers, NEW x \in Touched(jobs'[w]) \cap disturbed'
      PROVE  shares(w)
  <2>1. CASE x \in disturbed
    BY <2>1
  <2>2. CASE x \notin disturbed
    <3>1. PICK v \in Workers : shares(v) /\ x \in Touched(jobs'[v])
      BY <1>2, <1>4, <2>2
    <3>2. CASE v = w
      BY <3>1, <3>2
    <3>3. CASE v # w
      BY <1>4, <3>1, <3>3
    <3> QED
      BY <3>2, <3>3
  <2> QED
    BY <2>1, <2>2
<1>5. \A w \in Workers :
         /\ Touched(jobs'[w]) \cap disturbed' # {} => Touched(jobs'[w]) \subseteq disturbed'
         /\ \A v \in Workers \ {w} : Touched(jobs'[w]) \cap Touched(jobs'[v]) # {} =>
                                         Touched(jobs'[w]) \subseteq disturbed'
  BY <1>3, <1>4
<1>6. OverlapsRecorded'
  BY <1>5 DEF OverlapsRecorded, Quiet, Touched
<1> QED
  BY <1>1, <1>6

(* A call goes on with another job, having settled what it was about and    *)
(* spared the others.                                                       *)
LEMMA CallMoves ==
    ASSUME CalmInv, NEW w \in Workers, NEW new, jobs' = [jobs EXCEPT ![w] = new], Record,
           Inv', Linked', Settles, Spares(w),
           Touched(new) \cap disturbed = {} => Prepared(new) /\ Current(new)'
    PROVE  CalmInv'
<1>1. OverlapsRecorded' /\ disturbed \subseteq disturbed'
  BY RecordIsComplete
<1>2. \A i \in Undisturbed' : Settled(i)'
  BY <1>1 DEF Settles, Undisturbed
<1>3. \A v \in Workers : jobs'[v] = IF v = w THEN new ELSE jobs[v]
  BY DEF CalmInv, Inv, WellTyped
<1>4. ASSUME NEW v \in Workers, Quiet(v)'
      PROVE  (Prepared(jobs[v]) /\ Current(jobs[v]))'
  <2>1. Touched(jobs'[v]) \cap disturbed = {}
    BY <1>1, <1>4 DEF Quiet, Touched
  <2>2. CASE v = w
    <3>1. Prepared(new) /\ Current(new)'
      BY <1>3, <2>1, <2>2
    <3> QED
      BY <1>3, <2>2, <3>1 DEF Prepared, Current, Fits
  <2>3. CASE v # w
    <3>1. PICK job : job = jobs[v]
      OBVIOUS
    <3>2. jobs'[v] = job /\ Touched(job) \cap disturbed = {}
      BY <1>3, <2>1, <2>3, <3>1
    <3>3. Prepared(job)
      BY <3>1, <3>2 DEF CalmInv, QuietCallsReady, Quiet
    <3>4. Current(job)'
      <4>1. CASE job.stage = "idle"
        BY <4>1 DEF Current
      <4>2. CASE job.stage # "idle"
        BY <2>3, <3>1, <3>2, <4>2 DEF Spares, Bystander
      <4> QED
        BY <4>1, <4>2
    <3> QED
      BY <3>2, <3>3, <3>4 DEF Prepared, Current, Fits
  <2> QED
    BY <2>2, <2>3
<1>5. QuietCallsReady'
  BY <1>4 DEF QuietCallsReady
<1> QED
  BY <1>1, <1>2, <1>5 DEF CalmInv

(* A call that ends relies on nothing.                                      *)
LEMMA CallEnds ==
    ASSUME CalmInv, NEW w \in Workers, Finish(w), Record, Inv', Linked', Settles, Spares(w)
    PROVE  CalmInv'
<1>1. Prepared(Idle) /\ Current(Idle)'
  BY DEF Prepared, Current, Idle
<1> QED
  BY <1>1, CallMoves DEF Finish

(* The purges and tasks, as if they were the step of no call.               *)
LEMMA NoCallMoves ==
    ASSUME CalmInv, UNCHANGED jobs, Record, Inv', Linked', Settles,
           \A w \in Workers : Quiet(w) => Current(jobs[w])'
    PROVE  CalmInv'
<1>1. OverlapsRecorded' /\ disturbed \subseteq disturbed'
  BY RecordIsComplete
<1>2. \A i \in Undisturbed' : Settled(i)'
  BY <1>1 DEF Settles, Undisturbed
<1>3. \A w \in Workers : Quiet(w)' => Quiet(w)
  BY <1>1 DEF Quiet, Touched
<1>4. \A w \in Workers : Prepared(jobs[w]) => Prepared(jobs[w])'
  BY DEF Prepared, Fits
<1>5. QuietCallsReady'
  BY <1>3, <1>4 DEF CalmInv, QuietCallsReady
<1> QED
  BY <1>1, <1>2, <1>5 DEF CalmInv

(* An incident of which nothing is written stays settled.                   *)
LEMMA KeptSettled ==
    ASSUME NEW i \in Incidents, Settled(i),
           i \in rows' => /\ i \in rows /\ incidents'[i].status = incidents[i].status
                          /\ incidents'[i].deleted = incidents[i].deleted,
           \A j \in rows' : incidents'[j].parent = i => j \in rows /\ incidents[j].parent = i,
           OpenDrafts(i)' \subseteq OpenDrafts(i),
           \A c \in ChronologiesOf(i)' :
               c \in ChronologiesOf(i) /\ chronologies'[c].status = chronologies[c].status,
           expired' = i => expired = i
    PROVE  Settled(i)'
<1>1. ChronologiesFit(i)'
  BY DEF Settled, ChronologiesFit, Fits
<1>2. DraftIsLeaf(i)' /\ NoTwins(i)'
  BY DEF Settled, DraftIsLeaf, NoTwins
<1>3. DeletedIsResolved(i)' /\ ExpiredIsNoDraft(i)'
  BY DEF Settled, DeletedIsResolved, ExpiredIsNoDraft, NoPending
<1> QED
  BY <1>1, <1>2, <1>3 DEF Settled

(* A call of whose incidents nothing is written stays current.              *)
LEMMA KeptCurrent ==
    ASSUME NEW job, Current(job),
           \A x \in {job.id, job.row.parent} : x \in rows' =>
               /\ x \in rows /\ incidents'[x].status = incidents[x].status
               /\ incidents'[x].deleted = incidents[x].deleted
               /\ incidents'[x].parent = incidents[x].parent,
           job.row.status = "draft" /\ job.id \notin rows' => job.row.parent \notin rows',
           job.stage # "idle" => OpenDrafts(job.id)' \subseteq OpenDrafts(job.id),
           job.stage # "idle" => \A c \in ChronologiesOf(job.id)' :
               c \in ChronologiesOf(job.id) /\ chronologies'[c].status = chronologies[c].status,
           expired' = job.id => job.id \in rows' \/ job.row.status # "draft"
    PROVE  Current(job)'
<1>1. job.stage # "idle" /\ NoPending(job.id) => NoPending(job.id)'
  BY DEF NoPending
<1> QED
  BY <1>1 DEF Current

(* Tables that are not written stay settled and spare every call.           *)
LEMMA SameTables ==
    ASSUME UNCHANGED incidents, UNCHANGED chronologies
    PROVE  /\ rows' = rows /\ chronologyRows' = chronologyRows
           /\ \A i : OpenDrafts(i)' = OpenDrafts(i) /\ ChronologiesOf(i)' = ChronologiesOf(i)
BY DEF rows, chronologyRows, OpenDrafts, ChronologiesOf, Visible

LEMMA SameTablesSettled ==
    ASSUME CalmInv, UNCHANGED incidents, UNCHANGED chronologies, UNCHANGED expired
    PROVE  Settles /\ \A job : Current(job) => Current(job)'
<1>1. /\ rows' = rows
      /\ \A i : OpenDrafts(i)' = OpenDrafts(i) /\ ChronologiesOf(i)' = ChronologiesOf(i)
  BY SameTables
<1>2. Settles
  <2> SUFFICES ASSUME NEW i \in Undisturbed
               PROVE  Settled(i)'
    BY DEF Settles
  <2>1. i \in Incidents /\ Settled(i)
    BY DEF CalmInv, Undisturbed
  <2> QED
    BY <1>1, <2>1, KeptSettled
<1>3. ASSUME NEW job, Current(job)
      PROVE  Current(job)'
  <2>1. \A i : NoPending(i) => NoPending(i)'
    BY <1>1 DEF NoPending
  <2> QED
    BY <1>1, <1>3, <2>1 DEF Current
<1> QED
  BY <1>2, <1>3

(* A step that only changes the memory of a call keeps the invariant.       *)
LEMMA MemoryOnlyCalm ==
    ASSUME CalmInv, NEW w \in Workers, NEW job, jobs' = [jobs EXCEPT ![w] = job], Record,
           Inv', Linked', UNCHANGED tables, UNCHANGED expired,
           Touched(job) \cap disturbed = {} => Prepared(job) /\ Current(job)
    PROVE  CalmInv'
<1>1. Settles /\ \A any : Current(any) => Current(any)'
  BY SameTablesSettled DEF tables
<1>2. Spares(w)
  BY <1>1, BystanderIs DEF Spares
<1> QED
  BY <1>1, <1>2, CallMoves

---------------------------------------------------------------------------
(* The first half of every call.                                            *)

(* A row just read is current.                                              *)
LEMMA ReadIsCurrent ==
    ASSUME CalmInv, NEW job, Visible(job.id), job.row = incidents[job.id],
           job.stage \notin {"idle", "revise", "delete"}, Touched(job) \cap disturbed = {}
    PROVE  Current(job)
<1>1. job.id \in rows /\ ~ incidents[job.id].deleted
  BY DEF Visible
<1>2. ASSUME job.row.parent \in rows
      PROVE  incidents[job.row.parent].status # "draft"
  <2>1. job.row.parent \in Undisturbed
    BY <1>2, NullIsNoRow DEF Touched, Undisturbed, CalmInv, Inv
  <2> QED
    BY <1>1, <1>2, <2>1 DEF CalmInv, Settled, DraftIsLeaf
<1> QED
  BY <1>1, <1>2 DEF Current

(* The chronologies of a row that a call is about fit it, if the row is     *)
(* undisturbed.                                                             *)
LEMMA ChronologiesReadFit ==
    ASSUME CalmInv, NEW job, job.stage # "idle", job.id \in rows, Touched(job) \cap disturbed = {}
    PROVE  \A c \in ChronologiesOf(job.id) :
               Fits(chronologies[c].status, incidents[job.id].status)
<1>1. job.id \in Undisturbed
  BY NullIsNoRow DEF Touched, Undisturbed, CalmInv, Inv
<1> QED
  BY <1>1 DEF CalmInv, Settled, ChronologiesFit

(* A call that starts by reading a row keeps the invariant.                 *)
LEMMA StartCalm ==
    ASSUME CalmInv, Record, Inv', Linked', NEW w \in Workers, NEW job, Start(w, job),
           Visible(job.id), job.row = incidents[job.id],
           job.stage \notin {"idle", "revise", "delete"},
           Touched(job) \cap disturbed = {} => Prepared(job)
    PROVE  CalmInv'
BY ReadIsCurrent, MemoryOnlyCalm DEF Start

(* A call that submits, approves, rejects or deletes, on reading its row.   *)
LEMMA PlainStartCalm ==
    ASSUME CalmInv, Record, Inv', Linked',
           NEW w \in Workers, NEW u \in Users, NEW i \in rows,
           \/ ReadForSubmit(w, u, i)
           \/ ReadForApprove(w, u, i)
           \/ ReadForReject(w, u, i)
           \/ ReadForDelete(w, u, i)
    PROVE  CalmInv'
<1>1. PICK stage \in {"submit", "promote", "merge", "reject", "children"} :
          /\ Start(w, Job(stage, u, i, incidents[i]))
          /\ Visible(i)
          /\ stage = "promote" => incidents[i].status = "pending_approval"
          /\ stage = "submit" => incidents[i].status = "draft"
          /\ stage = "reject" => incidents[i].status \in {"draft", "pending_approval"}
  BY DEF ReadForSubmit, ReadForApprove, ReadForReject, ReadForDelete
<1> DEFINE job == Job(stage, u, i, incidents[i])
<1>2. job.stage = stage /\ job.id = i /\ job.row = incidents[i]
  BY DEF Job
<1> HIDE DEF job
<1>3. Prepared(job)
  BY <1>1, <1>2 DEF Prepared
<1> QED
  BY <1>1, <1>2, <1>3, StartCalm DEF job

(* update_incident, on reading the row.                                     *)
LEMMA UpdateCalm ==
    ASSUME CalmInv, Record, Inv', Linked',
           NEW w \in Workers, NEW u \in Users, NEW i \in rows,
           NEW content \in Contents, NEW writes \in SUBSET Keys,
           ReadForUpdate(w, u, i, content, writes)
    PROVE  CalmInv'
<1>1. PICK stage \in {"fields", "drafts"} :
          /\ Start(w, Edit(stage, u, i, incidents[i], content, writes))
          /\ Visible(i)
          /\ stage = "drafts" => incidents[i].status # "draft"
  BY DEF ReadForUpdate
<1> DEFINE job == Edit(stage, u, i, incidents[i], content, writes)
<1>2. job.stage = stage /\ job.id = i /\ job.row = incidents[i]
  BY DEF Edit
<1> HIDE DEF job
<1>3. Prepared(job)
  BY <1>1, <1>2 DEF Prepared
<1> QED
  BY <1>1, <1>2, <1>3, StartCalm DEF job

(* What a call on a chronology will write fits the incident it has read.    *)
LEMMA ChronologyStartCalm ==
    ASSUME CalmInv, Record, Inv', Linked', NEW w \in Workers, NEW u, NEW c,
           NEW stage \in {"store", "settle", "drop"}, NEW written,
           Visible(written.incident),
           stage = "store" =>
              \/ Fits(written.status, incidents[written.incident].status)
              \/ \E d \in ChronologiesOf(written.incident) : written.status = chronologies[d].status
              \/ \E d \in ChronologiesOf(written.incident) :
                    chronologies[d].status = "live" /\ written.status = "pending_deletion",
           stage = "settle" => written.status = "live",
           Start(w, ChronologyJob(stage, u, incidents[written.incident], c, written))
    PROVE  CalmInv'
<1> DEFINE job == ChronologyJob(stage, u, incidents[written.incident], c, written)
<1>1. /\ job.stage = stage /\ job.id = written.incident /\ job.write = written
      /\ job.row = incidents[written.incident]
  BY DEF ChronologyJob
<1> HIDE DEF job
<1>2. ASSUME Touched(job) \cap disturbed = {}
      PROVE  Prepared(job)
  <2>1. \A d \in ChronologiesOf(job.id) : Fits(chronologies[d].status, incidents[job.id].status)
    BY <1>1, <1>2, ChronologiesReadFit DEF Visible
  <2>2. stage = "store" => Fits(written.status, job.row.status)
    BY <1>1, <2>1 DEF Fits
  <2> QED
    BY <1>1, <2>2 DEF Prepared
<1> QED
  BY <1>1, <1>2, StartCalm DEF job

(* create_chronology, on reading the incident.                              *)
LEMMA CreateChronologyCalm ==
    ASSUME CalmInv, Record, Inv', Linked',
           NEW w \in Workers, NEW u \in Users, NEW i \in Incidents,
           NEW c \in Chronologies, NEW k \in Keys, CreateChronology(w, u, i, c, k)
    PROVE  CalmInv'
<1> DEFINE new == [incident |-> i, key |-> k, status |-> incidents[i].status]
<1>1. new.incident = i /\ new.status = incidents[i].status /\ Visible(i)
  BY DEF CreateChronology
<1>2. Start(w, ChronologyJob("store", u, incidents[i], c, new))
  BY DEF CreateChronology
<1>3. incidents[i].status # "pending_deletion"
  BY <1>1, RowRead DEF CalmInv, Inv, Visible, IncidentRow, IncidentStatuses
<1> HIDE DEF new
<1>4. Fits(new.status, incidents[i].status)
  BY <1>1, <1>3 DEF Fits
<1> QED
  BY <1>1, <1>2, <1>4, ChronologyStartCalm

(* Every call on an existing chronology, on reading it.                     *)
LEMMA ChronologyCallCalm ==
    ASSUME CalmInv, Record, Inv', Linked',
           NEW w \in Workers, NEW u \in Users, NEW c \in chronologyRows,
           ChronologyCall(w, u, c)
    PROVE  CalmInv'
<1> DEFINE i == chronologies[c].incident
<1>1. chronologies[c] \in ChronologyRow /\ c \in ChronologiesOf(i)
  BY DEF CalmInv, Inv, WellTyped, ChronologiesOf
<1>2. PICK stage \in {"store", "settle", "drop"}, written \in ChronologyRow :
          /\ OnChronology(w, u, c, stage, written)
          /\ written.incident = i
          /\ stage = "store" =>
                \/ written.status = chronologies[c].status
                \/ chronologies[c].status = "live" /\ written.status = "pending_deletion"
          /\ stage = "settle" => written.status = "live"
  <2>1. \A k \in Keys :
           /\ [chronologies[c] EXCEPT !.key = k] \in ChronologyRow
           /\ [chronologies[c] EXCEPT !.key = k].incident = i
           /\ [chronologies[c] EXCEPT !.key = k].status = chronologies[c].status
    BY <1>1 DEF ChronologyRow
  <2>2. \A status \in {"live", "pending_deletion"} :
           /\ [chronologies[c] EXCEPT !.status = status] \in ChronologyRow
           /\ [chronologies[c] EXCEPT !.status = status].incident = i
           /\ [chronologies[c] EXCEPT !.status = status].status = status
    BY <1>1 DEF ChronologyRow, ChronologyStatuses, IncidentStatuses
  <2>3. CASE \E k \in Keys : UpdateChronology(w, u, c, k)
    <3>1. PICK k \in Keys :
             OnChronology(w, u, c, "store", [chronologies[c] EXCEPT !.key = k])
      BY <2>3 DEF UpdateChronology
    <3> QED
      BY <3>1, <2>1, <1>1
  <2>4. CASE ReorderChronology(w, u, c)
    BY <2>4, <1>1 DEF ReorderChronology
  <2>5. CASE ApproveChronology(w, u, c) \/ RejectDeletion(w, u, c)
    <3>1. OnChronology(w, u, c, "settle", [chronologies[c] EXCEPT !.status = "live"])
      BY <2>5 DEF ApproveChronology, RejectDeletion
    <3> QED
      BY <3>1, <2>2
  <2>6. CASE RequestDeletion(w, u, c)
    <3>1. /\ OnChronology(w, u, c, "store",
                          [chronologies[c] EXCEPT !.status = "pending_deletion"])
          /\ chronologies[c].status = "live"
      BY <2>6 DEF RequestDeletion
    <3> QED
      BY <3>1, <2>2
  <2>7. CASE ApproveDeletion(w, u, c) \/ DeleteChronology(w, u, c)
    <3>1. OnChronology(w, u, c, "drop", chronologies[c])
      BY <2>7 DEF ApproveDeletion, DeleteChronology
    <3> QED
      BY <3>1, <1>1
  <2> QED
    BY <2>3, <2>4, <2>5, <2>6, <2>7 DEF ChronologyCall
<1>3. /\ Visible(written.incident)
      /\ Start(w, ChronologyJob(stage, u, incidents[written.incident], c, written))
  BY <1>2 DEF OnChronology
<1>4. c \in ChronologiesOf(written.incident)
  BY <1>1, <1>2
<1> QED
  BY <1>2, <1>3, <1>4, ChronologyStartCalm

(* The search for an open draft.                                            *)
LEMMA LookForDraftCalm ==
    ASSUME CalmInv, Record, Inv', Linked', NEW w \in Workers, LookForDraft(w)
    PROVE  CalmInv'
<1>1. jobs[w] \in EditJob /\ UNCHANGED tables /\ UNCHANGED expired /\ jobs[w].stage = "drafts"
  BY StageTells DEF LookForDraft, CalmInv, Inv
<1>2. Quiet(w) => Prepared(jobs[w]) /\ Current(jobs[w])
  BY DEF CalmInv, QuietCallsReady
<1>3. CASE OpenDrafts(jobs[w].id) = {}
  <2> DEFINE job == [jobs[w] EXCEPT !.stage = "revise"]
  <2>1. /\ job.stage = "revise" /\ job.id = jobs[w].id /\ job.row = jobs[w].row
    BY <1>1 DEF EditJob
  <2>2. jobs' = [jobs EXCEPT ![w] = job]
    BY <1>3 DEF LookForDraft, Goto, CalmInv, Inv, WellTyped
  <2> HIDE DEF job
  <2>3. Touched(job) \cap disturbed = {} => Quiet(w)
    BY <1>1, <2>1 DEF Touched, Quiet
  <2>4. Quiet(w) => Prepared(job)
    BY <1>1, <1>2, <2>1 DEF Prepared
  <2>5. Quiet(w) => Current(job)
    BY <1>1, <1>2, <1>3, <2>1 DEF Current
  <2> QED
    BY <1>1, <2>2, <2>3, <2>4, <2>5, MemoryOnlyCalm
<1>4. CASE OpenDrafts(jobs[w].id) # {}
  <2>1. PICK d \in OpenDrafts(jobs[w].id) :
           IF incidents[d].author = jobs[w].user
           THEN jobs' = [jobs EXCEPT ![w] = Edit("fields", jobs[w].user, d,
                            incidents[d], jobs[w].content, jobs[w].writes)]
           ELSE Finish(w)
    BY <1>4 DEF LookForDraft
  <2>2. CASE Finish(w)
    <3>1. Prepared(Idle) /\ Current(Idle)
      BY DEF Prepared, Current, Idle
    <3> QED
      BY <1>1, <2>2, <3>1, MemoryOnlyCalm DEF Finish
  <2> DEFINE job == Edit("fields", jobs[w].user, d, incidents[d],
                         jobs[w].content, jobs[w].writes)
  <2>3. job.stage = "fields" /\ job.id = d /\ job.row = incidents[d] /\ Visible(d)
    BY DEF Edit, OpenDrafts
  <2> HIDE DEF job
  <2>4. Prepared(job)
    BY <2>3 DEF Prepared
  <2>5. Touched(job) \cap disturbed = {} => Current(job)
    BY <2>3, ReadIsCurrent
  <2>6. CASE jobs' = [jobs EXCEPT ![w] = job]
    BY <1>1, <2>4, <2>5, <2>6, MemoryOnlyCalm
  <2> QED
    BY <2>1, <2>2, <2>6 DEF job
<1> QED
  BY <1>3, <1>4

(* A call that stops.                                                       *)
LEMMA FailCalm ==
    ASSUME CalmInv, Record, Inv', Linked', NEW w \in Workers, Fail(w)
    PROVE  CalmInv'
<1>1. Prepared(Idle) /\ Current(Idle)
  BY DEF Prepared, Current, Idle
<1> QED
  BY <1>1, MemoryOnlyCalm DEF Fail, Finish

---------------------------------------------------------------------------
(* Calls that save one row.                                                 *)

(* Saving one row spares every call that is about neither the row nor what  *)
(* it revises.                                                              *)
LEMMA WriteSpares ==
    ASSUME CalmInv, NEW w \in Workers, NEW i \in Incidents, NEW row \in IncidentRow,
           Write(i, row), UNCHANGED chronologies, UNCHANGED expired,
           \A v \in Workers \ {w} :
              jobs[v].stage # "idle" /\ Touched(jobs[v]) \cap disturbed = {} =>
                 Touched(jobs[v]) \cap {i, row.parent} = {}
    PROVE  Spares(w)
<1> SUFFICES ASSUME NEW job, Bystander(job, w)
             PROVE  Current(job)'
  BY DEF Spares
<1>1. /\ rows' = rows \cup {i}
      /\ \A j \in rows' : incidents'[j] = IF j = i THEN row ELSE incidents[j]
  BY OneRowWritten DEF CalmInv, Inv
<1>2. /\ Current(job) /\ job.stage # "idle" /\ job.id \in Incidents
      /\ job.row.parent \in Incidents \cup {Null}
  BY BystanderIs DEF Undisturbed
<1>3. PICK v \in Workers \ {w} : job = jobs[v] /\ Touched(jobs[v]) \cap disturbed = {}
  BY DEF Bystander
<1>4. job.id \notin {i, row.parent} /\ job.row.parent # i
  <2>1. jobs[v].id \in Touched(jobs[v])
    BY <1>2, <1>3, CallIsAbout DEF CalmInv
  <2>2. jobs[v].row.parent # Null => jobs[v].row.parent \in Touched(jobs[v])
    BY <1>2, <1>3, CallIsAbout DEF CalmInv
  <2> QED
    BY <1>2, <1>3, <2>1, <2>2, NullIsNoRow DEF CalmInv, Inv
<1>5. OpenDrafts(job.id)' \subseteq OpenDrafts(job.id)
  BY <1>1, <1>4 DEF OpenDrafts, Visible
<1>6. ChronologiesOf(job.id)' = ChronologiesOf(job.id)
  BY DEF ChronologiesOf, chronologyRows
<1>7. \A x \in {job.id, job.row.parent} : x \in rows' => x \in rows /\ incidents'[x] = incidents[x]
  BY <1>1, <1>4
<1>8. job.row.status = "draft" /\ job.id \notin rows' => job.row.parent \notin rows'
  BY <1>1, <1>2, <1>4 DEF Current
<1>9. expired' = job.id => job.id \in rows' \/ job.row.status # "draft"
  BY <1>1, <1>2 DEF Current
<1> QED
  BY <1>2, <1>5, <1>6, <1>7, <1>8, <1>9, KeptCurrent

(* A call that writes back the row it has in memory: with the status it     *)
(* read, or with a decision on a draft or a submission.                     *)
LEMMA SaveSettles ==
    ASSUME CalmInv, NEW w \in Workers, jobs[w] \in PlainJob \cup EditJob,
           NEW row \in IncidentRow, row.parent = jobs[w].row.parent,
           Write(jobs[w].id, row), UNCHANGED chronologies, UNCHANGED expired,
           Quiet(w) => \/ row.status = jobs[w].row.status
                       \/ /\ jobs[w].row.status \in {"draft", "pending_approval"}
                          /\ row.status # "draft",
           Quiet(w) /\ row.deleted => OpenDrafts(jobs[w].id) = {} /\ NoPending(jobs[w].id)
    PROVE  Settles /\ Spares(w)
<1>i. PICK id : id = jobs[w].id
  OBVIOUS
<1>1. /\ id \in Incidents /\ jobs[w].stage # "idle"
      /\ Touched(jobs[w]) = {id, row.parent} \ {Null}
  BY <1>i, CallIsAbout DEF PlainJob, EditJob, CalmInv
<1>2. /\ rows' = rows \cup {id} /\ row.parent \in rows \cup {Null}
      /\ \A j \in rows' : incidents'[j] = IF j = id THEN row ELSE incidents[j]
  BY <1>i, <1>1, OneRowWritten DEF CalmInv, Inv
<1>3. Null \notin rows /\ Null \notin Incidents /\ rows \subseteq Incidents
  BY NullIsNoRow DEF CalmInv, Inv
<1>4. row.parent # id
  <2>1. Says(id, row.parent) /\ {id} \in SUBSET Incidents
    BY <1>i, <1>1, KeptIsSaid
  <2> QED
    BY <2>1 DEF CalmInv, Linked, NoLoop
<1>5. ASSUME NEW i \in Undisturbed, i \in {id, row.parent}
      PROVE  /\ Quiet(w)
             /\ id \in rows => /\ ~ incidents[id].deleted
                               /\ incidents[id].status = jobs[w].row.status
                               /\ incidents[id].parent = row.parent
             /\ jobs[w].row.status = "draft" /\ id \notin rows => row.parent \notin rows
             /\ row.parent \in rows => incidents[row.parent].status # "draft"
             /\ expired = id => id \in rows \/ jobs[w].row.status # "draft"
             /\ row.status = "draft" => jobs[w].row.status = "draft"
  <2>1. i \in Touched(jobs[w]) /\ i \notin disturbed
    BY <1>1, <1>3, <1>5 DEF Undisturbed
  <2>2. Quiet(w) /\ Current(jobs[w])
    BY <2>1, QuietCall
  <2> QED
    BY <1>i, <1>1, <2>2 DEF Current
<1>6. ASSUME NEW i \in Undisturbed
      PROVE  OpenDrafts(i)' \subseteq OpenDrafts(i)
  <2> SUFFICES ASSUME NEW d \in rows', ~ incidents'[d].deleted,
                      incidents'[d].parent = i, incidents'[d].status = "draft"
               PROVE  d \in OpenDrafts(i)
    BY DEF OpenDrafts, Visible
  <2>1. CASE d = id
    <3>1. incidents'[d] = row /\ i = row.parent /\ i \in rows
      BY <1>2, <1>3, <1>6, <2>1 DEF Undisturbed
    <3> QED
      BY <1>5, <1>6, <2>1, <3>1 DEF OpenDrafts, Visible
  <2>2. CASE d # id
    BY <1>2, <2>2 DEF OpenDrafts, Visible
  <2> QED
    BY <2>1, <2>2
<1>7. \A i : ChronologiesOf(i)' = ChronologiesOf(i)
  BY DEF ChronologiesOf, chronologyRows
<1>8. ASSUME NEW i \in Undisturbed
      PROVE  Settled(i)'
  <2>1. Settled(i) /\ i \in Incidents
    BY <1>8 DEF CalmInv, Undisturbed
  <2>2. CASE i = id
    <3>1. /\ incidents'[i] = row /\ i \in rows'
          /\ OpenDrafts(i)' \subseteq OpenDrafts(i) /\ ChronologiesOf(i)' = ChronologiesOf(i)
      BY <1>2, <1>6, <1>7, <1>8, <2>2
    <3>2. ChronologiesFit(i)'
      <4>1. CASE i \in rows
        BY <1>5, <1>8, <2>1, <2>2, <3>1, <4>1 DEF Settled, ChronologiesFit, Fits
      <4>2. CASE i \notin rows
        <5>1. ChronologiesOf(i) = {}
          BY <4>2 DEF CalmInv, Linked, ChronologiesLinked, ChronologiesOf
        <5> QED
          BY <3>1, <5>1 DEF ChronologiesFit
      <4> QED
        BY <4>1, <4>2
    <3>3. DraftIsLeaf(i)'
      <4>1. ASSUME row.status = "draft", NEW j \in rows
            PROVE  incidents[j].parent # i
        <5>1. CASE i \in rows
          BY <1>5, <1>8, <2>1, <2>2, <4>1, <5>1 DEF Settled, DraftIsLeaf
        <5>2. CASE i \notin rows
          BY <2>1, <1>3, <5>2 DEF CalmInv, Linked, RowsLinked
        <5> QED
          BY <5>1, <5>2
      <4> QED
        BY <1>2, <1>4, <2>2, <4>1 DEF DraftIsLeaf
    <3>4. NoTwins(i)'
      BY <2>1, <3>1 DEF Settled, NoTwins
    <3>5. DeletedIsResolved(i)'
      <4>1. row.deleted => OpenDrafts(i) = {} /\ NoPending(i)
        BY <1>i, <1>5, <1>8, <2>2
      <4>2. NoPending(i) => NoPending(i)'
        BY <3>1 DEF NoPending
      <4> QED
        BY <3>1, <4>1, <4>2 DEF DeletedIsResolved
    <3>6. ExpiredIsNoDraft(i)'
      BY <1>5, <1>8, <2>1, <2>2, <3>1 DEF Settled, ExpiredIsNoDraft
    <3> QED
      BY <3>2, <3>3, <3>4, <3>5, <3>6 DEF Settled
  <2>3. CASE i # id
    <3>1. i \in rows' => i \in rows /\ incidents'[i] = incidents[i]
      BY <1>2, <2>3
    <3>2. CASE i # row.parent
      <4>1. \A j \in rows' : incidents'[j].parent = i => j \in rows /\ incidents[j].parent = i
        BY <1>2, <3>2
      <4> QED
        BY <1>6, <1>7, <1>8, <2>1, <3>1, <4>1, KeptSettled
    <3>3. CASE i = row.parent
      <4>1. incidents[i].status # "draft" /\ i \in rows
        BY <1>2, <1>3, <1>5, <1>8, <2>1, <3>3
      <4>2. DraftIsLeaf(i)'
        BY <3>1, <4>1 DEF DraftIsLeaf
      <4>3. ChronologiesFit(i)' /\ NoTwins(i)'
        BY <1>6, <1>7, <1>8, <2>1, <3>1 DEF Settled, ChronologiesFit, NoTwins, Fits
      <4>4. DeletedIsResolved(i)' /\ ExpiredIsNoDraft(i)'
        BY <1>6, <1>7, <1>8, <2>1, <3>1
        DEF Settled, DeletedIsResolved, ExpiredIsNoDraft, NoPending
      <4> QED
        BY <4>2, <4>3, <4>4 DEF Settled
    <3> QED
      BY <3>2, <3>3
  <2> QED
    BY <2>2, <2>3
<1>9. Spares(w)
  <2>1. ASSUME NEW v \in Workers \ {w}, jobs[v].stage # "idle",
               Touched(jobs[v]) \cap disturbed = {}
        PROVE  Touched(jobs[v]) \cap {id, row.parent} = {}
    <3>1. Touched(jobs[v]) \cap Touched(jobs[w]) = {}
      <4>1. jobs[v].id \in Touched(jobs[v])
        BY <2>1, CallIsAbout DEF CalmInv
      <4> QED
        BY <2>1, <4>1 DEF CalmInv, OverlapsRecorded
    <3>2. Null \notin Touched(jobs[v])
      BY DEF Touched
    <3> QED
      BY <1>1, <3>1, <3>2
  <2> QED
    BY <1>i, <1>1, <2>1, WriteSpares
<1> QED
  BY <1>8, <1>9 DEF Settles

(* An edit that saves the columns.                                          *)
LEMMA WriteFieldsCalm ==
    ASSUME CalmInv, Record, Inv', Linked', NEW w \in Workers, WriteFields(w)
    PROVE  CalmInv'
<1>1. jobs[w] \in EditJob /\ jobs[w].stage = "fields"
  BY StageTells DEF WriteFields, CalmInv, Inv
<1>2. /\ jobs[w].id \in Incidents /\ jobs[w].user \in Users
      /\ jobs[w].row \in IncidentRow /\ jobs[w].content \in Contents
  BY <1>1 DEF EditJob
<1> DEFINE row == [Edited(jobs[w]) EXCEPT !.deleted = FALSE]
<1>3. /\ row \in IncidentRow /\ row.status = jobs[w].row.status
      /\ row.parent = jobs[w].row.parent /\ ~ row.deleted
  <2>1. Bump(jobs[w].row.version) \in 1 .. MaxVersion
    BY <1>2, BumpInRange DEF IncidentRow
  <2>2. /\ Edited(jobs[w]) \in IncidentRow /\ Edited(jobs[w]).status = jobs[w].row.status
        /\ Edited(jobs[w]).parent = jobs[w].row.parent
    BY <1>2, <2>1 DEF Edited, IncidentRow
  <2> QED
    BY <2>2 DEF IncidentRow
<1>4. /\ Write(jobs[w].id, row) /\ Goto(w, "tags")
      /\ UNCHANGED chronologies /\ UNCHANGED expired
  BY DEF WriteFields, Save
<1> HIDE DEF row
<1>5. Settles /\ Spares(w)
  BY <1>1, <1>3, <1>4, SaveSettles
<1>j. PICK job : job = [jobs[w] EXCEPT !.stage = "tags"]
  OBVIOUS
<1>6. /\ job.stage = "tags" /\ job.id = jobs[w].id /\ job.row = jobs[w].row
      /\ job.user = jobs[w].user
  BY <1>1, <1>j DEF EditJob
<1>7. jobs' = [jobs EXCEPT ![w] = job]
  BY <1>4, <1>j DEF Goto, CalmInv, Inv, WellTyped
<1>8. Prepared(job)
  BY <1>1, <1>6 DEF Prepared, CalmInv, Inv, SavesAreEntitled, Entitled
<1>9. ASSUME Touched(job) \cap disturbed = {}
      PROVE  Current(job)'
  <2>1. /\ rows' = rows \cup {job.id}
        /\ \A j \in rows' : incidents'[j] = IF j = job.id THEN row ELSE incidents[j]
    BY <1>2, <1>3, <1>4, <1>6, OneRowWritten DEF CalmInv, Inv
  <2>2. job.row.parent \in rows' => incidents'[job.row.parent].status # "draft"
    <3>1. row.parent # job.id
      <4>1. Says(job.id, row.parent) /\ {job.id} \in SUBSET Incidents
        BY <1>1, <1>2, <1>3, <1>6, KeptIsSaid
      <4> QED
        BY <4>1 DEF CalmInv, Linked, NoLoop
    <3>2. Quiet(w)
      BY <1>1, <1>6, <1>9 DEF Quiet, Touched
    <3>3. row.parent \in rows => incidents[row.parent].status # "draft"
      BY <1>1, <1>3, <3>2 DEF CalmInv, QuietCallsReady, Current
    <3> QED
      BY <1>3, <1>6, <2>1, <3>1, <3>3
  <2> QED
    BY <1>3, <1>6, <2>1, <2>2 DEF Current
<1> QED
  BY <1>5, <1>7, <1>8, <1>9, CallMoves

(* Submitting, rejecting and promoting.                                     *)
LEMMA SaveStatusCalm ==
    ASSUME CalmInv, Record, Inv', Linked', NEW w \in Workers,
           SubmitIncident(w) \/ RejectIncident(w) \/ Promote(w)
    PROVE  CalmInv'
<1>1. PICK stage \in {"submit", "reject", "promote"}, status \in IncidentStatuses :
          SaveStatus(w, stage, status) /\ status # "draft"
  BY DEF SubmitIncident, RejectIncident, Promote, IncidentStatuses
<1>2. jobs[w] \in PlainJob
  BY <1>1, StageTells DEF SaveStatus, CalmInv, Inv
<1>3. jobs[w].id \in Incidents /\ jobs[w].row \in IncidentRow
  BY <1>2 DEF PlainJob
<1>4. Quiet(w) => jobs[w].row.status \in {"draft", "pending_approval"}
  BY <1>1 DEF SaveStatus, CalmInv, QuietCallsReady, Prepared
<1> DEFINE row == [[jobs[w].row EXCEPT !.status = status] EXCEPT !.deleted = FALSE]
<1>5. /\ row \in IncidentRow /\ row.parent = jobs[w].row.parent /\ row.status = status
      /\ ~ row.deleted
  BY <1>3 DEF IncidentRow
<1>6. Write(jobs[w].id, row) /\ Finish(w) /\ UNCHANGED chronologies /\ UNCHANGED expired
  BY <1>1 DEF SaveStatus, Save
<1> HIDE DEF row
<1>7. Settles /\ Spares(w)
  BY <1>1, <1>2, <1>4, <1>5, <1>6, SaveSettles
<1> QED
  BY <1>6, <1>7, CallEnds

(* A soft delete.                                                           *)
LEMMA SoftDeleteCalm ==
    ASSUME CalmInv, Record, Inv', Linked', NEW w \in Workers, SoftDelete(w)
    PROVE  CalmInv'
<1>1. jobs[w] \in PlainJob /\ jobs[w].stage = "delete"
  BY StageTells DEF SoftDelete, CalmInv, Inv
<1>2. jobs[w].id \in Incidents /\ jobs[w].row \in IncidentRow
  BY <1>1 DEF PlainJob
<1> DEFINE row == [jobs[w].row EXCEPT !.deleted = TRUE]
<1>3. /\ row \in IncidentRow /\ row.parent = jobs[w].row.parent
      /\ row.status = jobs[w].row.status
  BY <1>2 DEF IncidentRow
<1>4. Write(jobs[w].id, row) /\ Finish(w) /\ UNCHANGED chronologies /\ UNCHANGED expired
  BY DEF SoftDelete
<1>5. Quiet(w) => OpenDrafts(jobs[w].id) = {} /\ NoPending(jobs[w].id)
  BY <1>1 DEF CalmInv, QuietCallsReady, Current
<1> HIDE DEF row
<1>6. Settles /\ Spares(w)
  BY <1>1, <1>3, <1>4, <1>5, SaveSettles
<1> QED
  BY <1>4, <1>6, CallEnds

---------------------------------------------------------------------------
(* A new row: an original, or the first open draft of a row that is there.  *)
LEMMA InsertCalm ==
    ASSUME CalmInv, Record, Inv', Linked',
           NEW w \in Workers, NEW u \in Users, NEW i \in Incidents,
           NEW status \in IncidentStatuses, NEW up \in Incidents \cup {Null},
           NEW content \in Contents, NEW writes \in SUBSET Keys,
           Insert(w, u, i, status, up, content, writes),
           status = "live" => u \in Admins,
           up # Null => up # i /\ up \in Touched(jobs[w]),
           up # Null /\ up \notin disturbed =>
              /\ OpenDrafts(up) = {}
              /\ up \in rows => ~ incidents[up].deleted /\ incidents[up].status # "draft"
    PROVE  CalmInv'
<1> DEFINE row == [deleted |-> FALSE, status |-> status, version |-> 1,
                   parent |-> up, author |-> u, fields |-> content]
           job == Edit("tags", u, i, row, content, writes)
<1>1. row \in IncidentRow /\ row.parent = up /\ row.status = status /\ ~ row.deleted
  BY ConstantsAssumption DEF IncidentRow
<1>2. job.stage = "tags" /\ job.id = i /\ job.row = row /\ job.user = u
  BY DEF Edit
<1>3. /\ Write(i, row) /\ jobs' = [jobs EXCEPT ![w] = job] /\ FreshIncident(i)
      /\ UNCHANGED chronologies /\ UNCHANGED expired
  BY DEF Insert
<1> HIDE DEF row, job
<1>4. /\ rows' = rows \cup {i} /\ up \in rows \cup {Null}
      /\ \A j \in rows' : incidents'[j] = IF j = i THEN row ELSE incidents[j]
  BY <1>1, <1>3, OneRowWritten DEF CalmInv, Inv
<1>5. i \notin rows /\ expired # i /\ i # Null /\ Null \notin rows
  BY <1>3, NullIsNoRow DEF FreshIncident, CalmInv, Inv
<1>6. \A k : ChronologiesOf(k)' = ChronologiesOf(k)
  BY <1>3 DEF chronologyRows, ChronologiesOf
<1>7. /\ \A j \in rows : incidents[j].parent \in rows \cup {Null}
      /\ ChronologiesOf(i) = {} /\ OpenDrafts(i) = {}
  BY <1>5 DEF CalmInv, Linked, RowsLinked, ChronologiesLinked, ChronologiesOf, OpenDrafts, Visible
<1>8. \A k : OpenDrafts(k)' \subseteq OpenDrafts(k) \cup (IF k = up THEN {i} ELSE {})
  BY <1>1, <1>4 DEF OpenDrafts, Visible
<1>9. ASSUME NEW k \in Undisturbed
      PROVE  Settled(k)'
  <2>1. Settled(k) /\ k \in Incidents /\ k # Null /\ k \notin disturbed
    BY <1>9, NullIsNoRow DEF CalmInv, Inv, Undisturbed
  <2>2. CASE k = i
    <3>1. /\ incidents'[k] = row /\ k \in rows' /\ ChronologiesOf(k)' = {}
          /\ OpenDrafts(k)' = {}
      BY <1>4, <1>5, <1>6, <1>7, <1>8, <2>1, <2>2
    <3>2. \A j \in rows' : incidents'[j].parent # k
      BY <1>1, <1>4, <1>5, <1>7, <2>1, <2>2
    <3> QED
      BY <1>1, <1>3, <1>5, <2>2, <3>1, <3>2
      DEF Settled, ChronologiesFit, DraftIsLeaf, NoTwins, DeletedIsResolved, ExpiredIsNoDraft
  <2>3. CASE k # i /\ k = up
    <3>1. /\ k \in rows /\ incidents'[k] = incidents[k] /\ incidents[k].status # "draft"
          /\ ~ incidents[k].deleted /\ OpenDrafts(k)' \subseteq {i}
      BY <1>4, <1>8, <2>1, <2>3
    <3> QED
      BY <1>3, <1>4, <1>6, <2>1, <3>1
      DEF Settled, ChronologiesFit, DraftIsLeaf, NoTwins, DeletedIsResolved, ExpiredIsNoDraft, Fits
  <2>4. CASE k # i /\ k # up
    <3>1. k \in rows' => k \in rows /\ incidents'[k] = incidents[k]
      BY <1>4, <2>4
    <3>2. \A j \in rows' : incidents'[j].parent = k => j \in rows /\ incidents[j].parent = k
      BY <1>1, <1>4, <2>4
    <3> QED
      BY <1>3, <1>6, <1>8, <2>1, <2>4, <3>1, <3>2, KeptSettled
  <2> QED
    BY <2>2, <2>3, <2>4
<1>10. Spares(w)
  <2>1. ASSUME NEW v \in Workers \ {w}, jobs[v].stage # "idle",
               Touched(jobs[v]) \cap disturbed = {}
        PROVE  Touched(jobs[v]) \cap {i, row.parent} = {}
    <3>1. i \notin Touched(jobs[v])
      BY <1>3, <2>1 DEF FreshIncident, InMemory, Touched
    <3>2. up \notin Touched(jobs[v])
      <4>1. CASE up = Null
        BY <4>1 DEF Touched
      <4>2. CASE up # Null
        BY <2>1, <4>2 DEF CalmInv, OverlapsRecorded
      <4> QED
        BY <4>1, <4>2
    <3> QED
      BY <1>1, <3>1, <3>2
  <2> QED
    BY <1>1, <1>3, <2>1, WriteSpares
<1>11. Prepared(job)
  BY <1>1, <1>2 DEF Prepared
<1>12. ASSUME Touched(job) \cap disturbed = {}
       PROVE  Current(job)'
  <2>1. up # Null => up \notin disturbed
    BY <1>1, <1>2, <1>12 DEF Touched
  <2>2. up \in rows' => incidents'[up].status # "draft"
    BY <1>4, <1>5, <2>1
  <2> QED
    BY <1>1, <1>2, <1>3, <1>4, <1>5, <2>2 DEF Current
<1> QED
  BY <1>3, <1>9, <1>10, <1>11, <1>12, CallMoves DEF Settles

(* create_incident.                                                         *)
LEMMA CreateCalm ==
    ASSUME CalmInv, Record, Inv', Linked',
           NEW w \in Workers, NEW u \in Users, NEW i \in Incidents,
           NEW content \in Contents, NEW writes \in SUBSET Keys,
           CreateIncident(w, u, i, content, writes)
    PROVE  CalmInv'
<1>1. PICK status \in IncidentStatuses :
          /\ Insert(w, u, i, status, Null, content, writes)
          /\ status = "live" => u \in Admins
  <2> DEFINE status == IF u \in Admins THEN "live" ELSE "draft"
  <2>1. status \in IncidentStatuses /\ (status = "live" => u \in Admins)
    BY DEF IncidentStatuses
  <2>2. Insert(w, u, i, status, Null, content, writes)
    BY DEF CreateIncident
  <2> QED
    BY <2>1, <2>2
<1> QED
  BY <1>1, InsertCalm

(* A new revision.                                                          *)
LEMMA ReviseCalm ==
    ASSUME CalmInv, Record, Inv', Linked', NEW w \in Workers, NEW i \in Incidents, Revise(w, i)
    PROVE  CalmInv'
<1>1. jobs[w] \in EditJob /\ jobs[w].stage = "revise"
  BY StageTells DEF Revise, CalmInv, Inv
<1>2. /\ jobs[w].user \in Users /\ jobs[w].id \in Incidents
      /\ jobs[w].content \in Contents /\ jobs[w].writes \in SUBSET Keys
  BY <1>1 DEF EditJob
<1>3. "draft" \in IncidentStatuses
  BY DEF IncidentStatuses
<1>4. jobs[w].id # i /\ jobs[w].id \in Touched(jobs[w])
  BY <1>1, CallIsAbout DEF Revise, Insert, FreshIncident, InMemory, CalmInv
<1>5. jobs[w].id \notin disturbed =>
        /\ OpenDrafts(jobs[w].id) = {}
        /\ jobs[w].id \in rows => /\ ~ incidents[jobs[w].id].deleted
                                  /\ incidents[jobs[w].id].status # "draft"
  BY <1>1, <1>4, QuietCall DEF Current, Prepared
<1> QED
  BY <1>2, <1>3, <1>4, <1>5, InsertCalm DEF Revise

---------------------------------------------------------------------------
(* Writing the m2m sets.                                                    *)
LEMMA WriteTagsCalm ==
    ASSUME CalmInv, Record, Inv', Linked', NEW w \in Workers, WriteTags(w)
    PROVE  CalmInv'
<1>1. jobs[w] \in EditJob /\ jobs[w].stage = "tags"
  BY StageTells DEF WriteTags, CalmInv, Inv
<1>j. PICK job : job = [jobs[w] EXCEPT !.stage = "chronologies"]
  OBVIOUS
<1>2. job.stage = "chronologies" /\ job.id = jobs[w].id /\ job.row = jobs[w].row
  BY <1>1, <1>j DEF EditJob
<1>3. jobs' = [jobs EXCEPT ![w] = job]
  BY <1>j DEF WriteTags, Goto, CalmInv, Inv, WellTyped
<1>4. UNCHANGED incidents /\ UNCHANGED chronologies /\ UNCHANGED expired
  BY DEF WriteTags
<1>5. Settles /\ \A any : Current(any) => Current(any)'
  BY <1>4, SameTablesSettled
<1>6. Spares(w)
  BY <1>5, BystanderIs DEF Spares
<1>7. Prepared(job)
  BY <1>2 DEF Prepared
<1>8. Touched(job) \cap disturbed = {} => Current(job)'
  <2>1. Touched(job) \cap disturbed = {} => Current(jobs[w])
    BY <1>1, <1>2 DEF CalmInv, QuietCallsReady, Quiet, Touched
  <2>2. Current(jobs[w]) => Current(job)
    BY <1>1, <1>2 DEF Current
  <2> QED
    BY <1>5, <2>1, <2>2
<1> QED
  BY <1>3, <1>5, <1>6, <1>7, <1>8, CallMoves

(* Chronologies written under the call's own row, in statuses that fit it   *)
(* if it is undisturbed, or taken away.                                     *)
LEMMA ChronologiesOnlyCalm ==
    ASSUME CalmInv, Record, Inv', Linked', NEW w \in Workers, Finish(w), jobs[w].stage # "idle",
           UNCHANGED incidents, UNCHANGED expired,
           \A c \in chronologyRows' :
              \/ c \in chronologyRows /\ chronologies'[c] = chronologies[c]
              \/ /\ chronologies'[c].incident = jobs[w].id
                 /\ Quiet(w) => /\ ~ incidents[jobs[w].id].deleted
                                /\ Fits(chronologies'[c].status, incidents[jobs[w].id].status)
    PROVE  CalmInv'
<1>i. PICK id : id = jobs[w].id
  OBVIOUS
<1>1. rows' = rows /\ \A i : OpenDrafts(i)' = OpenDrafts(i)
  BY DEF rows, OpenDrafts, Visible
<1>2. \A i : i # id => \A c \in ChronologiesOf(i)' :
               c \in ChronologiesOf(i) /\ chronologies'[c].status = chronologies[c].status
  BY <1>i DEF ChronologiesOf
<1>3. id \in Touched(jobs[w])
  BY <1>i, CallIsAbout DEF CalmInv
<1>4. ASSUME NEW i \in Undisturbed
      PROVE  Settled(i)'
  <2>1. Settled(i) /\ i \in Incidents /\ i \notin disturbed
    BY <1>4 DEF CalmInv, Undisturbed
  <2>2. CASE i # id
    BY <1>1, <1>2, <2>1, <2>2, KeptSettled
  <2>3. CASE i = id
    <3>1. Quiet(w)
      BY <1>3, <2>1, <2>3, QuietCall
    <3>2. \A c \in ChronologiesOf(i)' :
             \/ c \in ChronologiesOf(i) /\ chronologies'[c] = chronologies[c]
             \/ ~ incidents[i].deleted /\ Fits(chronologies'[c].status, incidents[i].status)
      BY <1>i, <2>3, <3>1 DEF ChronologiesOf
    <3>3. ChronologiesFit(i)'
      BY <1>1, <2>1, <3>2 DEF Settled, ChronologiesFit, Fits
    <3>4. DraftIsLeaf(i)' /\ NoTwins(i)' /\ ExpiredIsNoDraft(i)'
      BY <1>1, <2>1 DEF Settled, DraftIsLeaf, NoTwins, ExpiredIsNoDraft
    <3>5. DeletedIsResolved(i)'
      BY <1>1, <2>1, <3>2 DEF Settled, DeletedIsResolved, NoPending
    <3> QED
      BY <3>3, <3>4, <3>5 DEF Settled
  <2> QED
    BY <2>2, <2>3
<1>5. Spares(w)
  <2> SUFFICES ASSUME NEW job, Bystander(job, w)
               PROVE  Current(job)'
    BY DEF Spares
  <2>1. Current(job) /\ job.id # id
    BY <1>3, BystanderIs
  <2>2. NoPending(job.id) => NoPending(job.id)'
    BY <1>2, <2>1 DEF NoPending
  <2> QED
    BY <1>1, <2>1, <2>2 DEF Current
<1> QED
  BY <1>4, <1>5, CallEnds DEF Settles

(* The rows replace_chronologies writes.                                    *)
LEMMA ReplacedAre ==
    ASSUME NEW i, NEW writes, NEW inherited, ReplaceChronologies(i, writes, inherited),
           NEW c \in chronologyRows'
    PROVE  \/ c \in chronologyRows /\ chronologies'[c] = chronologies[c]
           \/ /\ chronologies'[c].incident = i
              /\ \/ chronologies'[c].status = inherited
                 \/ \E d \in ChronologiesOf(i) : chronologies'[c].status = chronologies[d].status
<1> DEFINE old == ChronologiesOf(i)
           kept(k) == {chronologies[e].status : e \in {d \in old : chronologies[d].key = k}}
                          \cap {"pending_deletion", "pending_approval"}
<1>1. PICK new \in [writes -> FreshChronologies(old)], status \in [writes -> ChronologyStatuses] :
        /\ \A k \in writes :
              IF kept(k) = {} THEN status[k] = inherited ELSE status[k] \in kept(k)
        /\ chronologies' =
            [e \in (chronologyRows \ old) \cup {new[k] : k \in writes} |->
                IF \E k \in writes : new[k] = e
                THEN LET k == CHOOSE l \in writes : new[l] = e
                     IN  [incident |-> i, key |-> k, status |-> status[k]]
                ELSE chronologies[e]]
  BY DEF ReplaceChronologies
<1>2. c \in (chronologyRows \ old) \cup {new[k] : k \in writes}
  BY <1>1 DEF chronologyRows
<1>3. CASE \E k \in writes : new[k] = c
  <2> DEFINE k == CHOOSE l \in writes : new[l] = c
  <2>1. k \in writes
    BY <1>3
  <2>2. chronologies'[c] = [incident |-> i, key |-> k, status |-> status[k]]
    BY <1>1, <1>2, <1>3
  <2> HIDE DEF k
  <2>3. chronologies'[c].incident = i /\ chronologies'[c].status = status[k]
    BY <2>2
  <2>4. CASE kept(k) = {}
    BY <1>1, <2>1, <2>3, <2>4
  <2>5. CASE kept(k) # {}
    <3>1. status[k] \in kept(k)
      BY <1>1, <2>1, <2>5
    <3> QED
      BY <2>3, <3>1
  <2> QED
    BY <2>4, <2>5
<1>4. CASE ~ \E k \in writes : new[k] = c
  BY <1>1, <1>2, <1>4
<1> QED
  BY <1>3, <1>4

(* Replacing the chronologies.                                              *)
LEMMA WriteChronologiesCalm ==
    ASSUME CalmInv, Record, Inv', Linked', NEW w \in Workers, WriteChronologies(w)
    PROVE  CalmInv'
<1>i. PICK id, status : id = jobs[w].id /\ status = jobs[w].row.status
  OBVIOUS
<1>1. jobs[w] \in EditJob /\ jobs[w].stage = "chronologies" /\ id \in rows
  BY <1>i, StageTells DEF WriteChronologies, CalmInv, Inv
<1>2. Quiet(w) => ~ incidents[id].deleted /\ incidents[id].status = status
  BY <1>i, <1>1 DEF CalmInv, QuietCallsReady, Current
<1>3. status \in IncidentStatuses
  BY <1>i, <1>1 DEF EditJob, IncidentRow
<1>4. Fits(status, status)
  BY <1>3 DEF Fits, IncidentStatuses
<1>5. Quiet(w) => \A d \in ChronologiesOf(id) : Fits(chronologies[d].status, status)
  <2>1. id \in Touched(jobs[w]) /\ id \in Incidents
    BY <1>i, <1>1, CallIsAbout DEF CalmInv
  <2>2. Quiet(w) => id \in Undisturbed
    BY <2>1 DEF Quiet, Undisturbed
  <2> QED
    BY <1>1, <1>2, <2>2 DEF CalmInv, Settled, ChronologiesFit
<1>6. /\ ReplaceChronologies(id, jobs[w].writes, status)
      /\ Finish(w) /\ UNCHANGED incidents /\ UNCHANGED expired
  BY <1>i DEF WriteChronologies
<1>7. ASSUME NEW c \in chronologyRows'
      PROVE  \/ c \in chronologyRows /\ chronologies'[c] = chronologies[c]
             \/ /\ chronologies'[c].incident = id
                /\ Quiet(w) => Fits(chronologies'[c].status, status)
  BY <1>4, <1>5, <1>6, ReplacedAre
<1>8. \A c \in chronologyRows' :
              \/ c \in chronologyRows /\ chronologies'[c] = chronologies[c]
              \/ /\ chronologies'[c].incident = jobs[w].id
                 /\ Quiet(w) => /\ ~ incidents[jobs[w].id].deleted
                                /\ Fits(chronologies'[c].status, incidents[jobs[w].id].status)
  BY <1>i, <1>2, <1>7
<1> QED
  BY <1>1, <1>6, <1>8, ChronologiesOnlyCalm

(* Saving a chronology.                                                     *)
LEMMA SaveChronologyCalm ==
    ASSUME CalmInv, Record, Inv', Linked', NEW w \in Workers, SaveChronology(w)
    PROVE  CalmInv'
<1> DEFINE id == jobs[w].id
           write == jobs[w].write
<1>1. /\ jobs[w].stage \in {"store", "settle"} /\ id \in rows
      /\ jobs[w].stage = "settle" => Clean(write, incidents[id].status)
      /\ chronologies' = Put(chronologies, jobs[w].chronology, write)
      /\ Finish(w) /\ UNCHANGED incidents /\ UNCHANGED expired
  BY DEF SaveChronology
<1>2. Quiet(w) => ~ incidents[id].deleted /\ incidents[id].status = jobs[w].row.status
  BY <1>1 DEF CalmInv, QuietCallsReady, Current
<1>3. write.incident = id
  BY <1>1 DEF CalmInv, Linked, CallsFit, Aimed
<1>4. Quiet(w) => Fits(write.status, incidents[id].status)
  BY <1>1, <1>2 DEF CalmInv, QuietCallsReady, Prepared, Fits, Clean
<1> HIDE DEF write
<1>5. \A c \in chronologyRows' :
         (c \in chronologyRows /\ chronologies'[c] = chronologies[c]) \/ chronologies'[c] = write
  BY <1>1 DEF Put, chronologyRows
<1> QED
  BY <1>1, <1>2, <1>3, <1>4, <1>5, ChronologiesOnlyCalm

(* Deleting a chronology.                                                   *)
LEMMA DropChronologyCalm ==
    ASSUME CalmInv, Record, Inv', Linked', NEW w \in Workers, DropChronology(w)
    PROVE  CalmInv'
<1>1. \A c \in chronologyRows' : c \in chronologyRows /\ chronologies'[c] = chronologies[c]
  BY DEF DropChronology, Only, chronologyRows
<1>2. Finish(w) /\ UNCHANGED incidents /\ UNCHANGED expired /\ jobs[w].stage # "idle"
  BY DEF DropChronology
<1> QED
  BY <1>1, <1>2, ChronologiesOnlyCalm

---------------------------------------------------------------------------
(* Resolving what is pending under a row: the drafts it marks are deleted   *)
(* have no revision and no pending chronology of their own.                 *)
LEMMA ResolveChildrenCalm ==
    ASSUME CalmInv, Record, Inv', Linked', NEW w \in Workers, ResolveChildren(w)
    PROVE  CalmInv'
<1>i. PICK id : id = jobs[w].id
  OBVIOUS
<1> DEFINE kept == {c \in chronologyRows :
                      ~ /\ chronologies[c].incident = id
                        /\ chronologies[c].status \in {"pending_approval", "pending_deletion"}}
<1>1. jobs[w] \in PlainJob /\ jobs[w].stage = "children"
  BY StageTells DEF ResolveChildren, CalmInv, Inv
<1>2. id \in Incidents /\ id \in Touched(jobs[w])
  BY <1>1, <1>i, CallIsAbout DEF CalmInv
<1>3. /\ incidents' = [j \in rows |-> IF j \in OpenDrafts(id)
                                      THEN [incidents[j] EXCEPT !.deleted = TRUE]
                                      ELSE incidents[j]]
      /\ chronologies' = Only(chronologies, kept)
      /\ Goto(w, "delete") /\ UNCHANGED expired
  BY <1>i DEF ResolveChildren
<1>4. rows' = rows
  BY <1>3 DEF rows
<1>5. /\ chronologyRows' = kept
      /\ \A c \in kept : c \in chronologyRows /\ chronologies'[c] = chronologies[c]
  BY <1>3 DEF Only, chronologyRows
<1>6. ASSUME NEW j \in rows
      PROVE  /\ incidents'[j].parent = incidents[j].parent
             /\ incidents'[j].status = incidents[j].status
             /\ j \notin OpenDrafts(id) => incidents'[j] = incidents[j]
             /\ j \in OpenDrafts(id) => incidents'[j].deleted
  <2>1. incidents[j] \in IncidentRow
    BY DEF CalmInv, Inv, WellTyped
  <2>2. CASE j \in OpenDrafts(id)
    <3>1. incidents'[j] = [incidents[j] EXCEPT !.deleted = TRUE]
      BY <1>3, <2>2
    <3> QED
      BY <2>1, <2>2, <3>1 DEF IncidentRow
  <2>3. CASE j \notin OpenDrafts(id)
    BY <1>3, <2>3
  <2> QED
    BY <2>2, <2>3
<1>7. \A k : OpenDrafts(k)' \subseteq OpenDrafts(k)
  BY <1>4, <1>6 DEF OpenDrafts, Visible
<1>8. OpenDrafts(id)' = {}
  BY <1>4, <1>6 DEF OpenDrafts, Visible
<1>9. \A k : \A c \in ChronologiesOf(k)' :
         c \in ChronologiesOf(k) /\ chronologies'[c].status = chronologies[c].status
  BY <1>5 DEF ChronologiesOf
<1>10. NoPending(id)'
  BY <1>5 DEF NoPending, ChronologiesOf, Pending
<1>11. id \notin OpenDrafts(id)
  <2>1. ASSUME id \in OpenDrafts(id) PROVE FALSE
    <3>1. Says(id, id) /\ {id} \in SUBSET Incidents
      BY <1>2, <2>1, ReadIsSaid DEF OpenDrafts
    <3> QED
      BY <3>1 DEF CalmInv, Linked, NoLoop
  <2> QED
    BY <2>1
<1> HIDE DEF kept
<1>12. ASSUME NEW i \in Undisturbed
       PROVE  Settled(i)'
  <2>1. Settled(i) /\ i \in Incidents
    BY <1>12 DEF CalmInv, Undisturbed
  <2>2. CASE i \notin OpenDrafts(id)
    BY <1>3, <1>4, <1>6, <1>7, <1>9, <2>1, <2>2, KeptSettled
  <2>3. CASE i \in OpenDrafts(id)
    <3>1. i \in rows /\ incidents[i].status = "draft"
      BY <2>3 DEF OpenDrafts
    <3>2. \A j \in rows : incidents[j].parent # i
      BY <2>1, <3>1 DEF Settled, DraftIsLeaf
    <3>3. OpenDrafts(i)' = {}
      BY <1>7, <3>2 DEF OpenDrafts
    <3>4. NoPending(i)'
      <4>1. \A c \in ChronologiesOf(i) : chronologies[c].status = "draft"
        BY <2>1, <3>1 DEF Settled, ChronologiesFit, Fits
      <4> QED
        BY <1>9, <4>1 DEF NoPending, Pending
    <3>5. ChronologiesFit(i)'
      BY <1>4, <1>6, <1>9, <2>1, <3>1 DEF Settled, ChronologiesFit, Fits
    <3>6. DraftIsLeaf(i)' /\ NoTwins(i)'
      BY <1>4, <1>6, <3>2, <3>3 DEF DraftIsLeaf, NoTwins
    <3>7. DeletedIsResolved(i)' /\ ExpiredIsNoDraft(i)'
      BY <1>6, <2>3, <3>1, <3>3, <3>4 DEF DeletedIsResolved, ExpiredIsNoDraft
    <3> QED
      BY <3>5, <3>6, <3>7 DEF Settled
  <2> QED
    BY <2>2, <2>3
<1>13. Spares(w)
  <2> SUFFICES ASSUME NEW job, Bystander(job, w)
               PROVE  Current(job)'
    BY DEF Spares
  <2>1. Current(job) /\ job.stage # "idle" /\ job.row.parent # id
    BY <1>2, BystanderIs
  <2>2. \A x \in {job.id, job.row.parent} : x \notin OpenDrafts(id)
    BY <2>1 DEF Current, OpenDrafts
  <2> QED
    BY <1>3, <1>4, <1>6, <1>7, <1>9, <2>1, <2>2, KeptCurrent DEF Current
<1>j. PICK job : job = [jobs[w] EXCEPT !.stage = "delete"]
  OBVIOUS
<1>14. job.stage = "delete" /\ job.id = id /\ job.row = jobs[w].row
  BY <1>1, <1>i, <1>j DEF PlainJob
<1>15. jobs' = [jobs EXCEPT ![w] = job]
  BY <1>3, <1>j DEF Goto, CalmInv, Inv, WellTyped
<1>16. Prepared(job)
  BY <1>14 DEF Prepared
<1>17. ASSUME Touched(job) \cap disturbed = {}
       PROVE  Current(job)'
  <2>1. Quiet(w)
    BY <1>1, <1>i, <1>14, <1>17 DEF Touched, Quiet
  <2>2. Current(jobs[w])
    BY <2>1 DEF CalmInv, QuietCallsReady
  <2> QED
    BY <1>1, <1>3, <1>4, <1>6, <1>8, <1>10, <1>11, <1>14, <1>i, <2>2 DEF Current
<1> QED
  BY <1>12, <1>13, <1>15, <1>16, <1>17, CallMoves DEF Settles

(* A hard delete takes the revisions of a row along, whatever the calls are *)
(* about: a call that holds one of those finds its parent gone as well.     *)
LEMMA RevisionsGoAlong ==
    ASSUME CalmInv, NEW i, NEW j \in HardDeleted(i)
    PROVE  i \in rows /\ (j # i => incidents[j].parent \in HardDeleted(i))
<1>1. i \in rows /\ HardDeleted(i) = Subtree(Parents, i)
  BY DEF HardDeleted, Parents
<1>2. j # i => j \in rows /\ Parents[j] \in HardDeleted(i)
  BY <1>1, ParentsAreForest, SubtreeAscends DEF CalmInv, Linked, Subtree
<1> QED
  BY <1>1, <1>2 DEF Parents

(* A merge: what it hard-deletes are rows under the revision, and what it   *)
(* writes is the parent's.                                                  *)
LEMMA MergeCalm ==
    ASSUME CalmInv, Record, Inv', Linked', NEW w \in Workers, Merge(w)
    PROVE  CalmInv'
<1> DEFINE id == jobs[w].id
           p == jobs[w].row.parent
           left == rows \ HardDeleted(id)
           moved(c) == chronologies[c].incident = id
           kept == {c \in chronologyRows : moved(c) \/
                                           chronologies[c].incident \in left \ {p}}
<1>1. Finish(w) /\ Visible(p) /\ UNCHANGED expired /\ jobs[w].stage # "idle"
  BY DEF Merge
<1>2. p \in rows /\ ~ incidents[p].deleted /\ incidents[p] \in IncidentRow
  BY <1>1, RowRead DEF Visible, CalmInv, Inv
<1>3. /\ incidents' = [j \in left |-> IF j = p THEN Merged(incidents[p], jobs[w].row)
                                      ELSE incidents[j]]
      /\ chronologies' = [c \in kept |->
            IF moved(c) THEN [chronologies[c] EXCEPT !.incident = p] ELSE chronologies[c]]
  BY DEF Merge
<1>4. rows' = left
  BY <1>3 DEF rows
<1> DEFINE merged == Merged(incidents[p], jobs[w].row)
<1>5. /\ merged.parent = incidents[p].parent
      /\ merged.status = "live" /\ ~ merged.deleted
      /\ merged.deleted = incidents[p].deleted
  BY <1>2 DEF Merged, IncidentRow
<1>6. \A j \in left : j \in rows /\ incidents'[j] = IF j = p THEN merged ELSE incidents[j]
  BY <1>3
<1>7. /\ chronologyRows' = kept
      /\ \A c \in kept :
            \/ chronologies'[c].incident = p
            \/ c \in chronologyRows /\ chronologies'[c] = chronologies[c]
  <2>1. chronologyRows' = kept
    BY <1>3 DEF chronologyRows
  <2>2. \A c \in chronologyRows : [chronologies[c] EXCEPT !.incident = p].incident = p
    BY DEF CalmInv, Inv, WellTyped, ChronologyRow
  <2> QED
    BY <1>3, <2>1, <2>2
<1>8. Touched(jobs[w]) = {id, p} /\ p # Null
  BY <1>1, <1>2, CallIsAbout, NullIsNoRow DEF CalmInv, Inv
<1> HIDE DEF id, p, left, kept, merged, moved
<1>9. \A j \in left : /\ incidents'[j].parent = incidents[j].parent
                      /\ incidents'[j].status # "draft" \/ incidents'[j].status = incidents[j].status
                      /\ incidents'[j].deleted = incidents[j].deleted
  BY <1>2, <1>5, <1>6
<1>10. \A k : OpenDrafts(k)' \subseteq OpenDrafts(k)
  BY <1>4, <1>6, <1>9 DEF OpenDrafts, Visible
<1>11. \A k : k # p => \A c \in ChronologiesOf(k)' :
          c \in ChronologiesOf(k) /\ chronologies'[c].status = chronologies[c].status
  BY <1>7 DEF ChronologiesOf
<1>12. ASSUME NEW i \in Undisturbed
       PROVE  Settled(i)'
  <2>1. Settled(i) /\ i \in Incidents
    BY <1>12 DEF CalmInv, Undisturbed
  <2>2. CASE i # p
    <3>1. i \in rows' => i \in rows /\ incidents'[i] = incidents[i]
      BY <1>4, <1>6, <2>2
    <3>2. \A j \in rows' : incidents'[j].parent = i => j \in rows /\ incidents[j].parent = i
      BY <1>4, <1>6, <1>9
    <3> QED
      BY <1>1, <1>10, <1>11, <2>1, <2>2, <3>1, <3>2, KeptSettled
  <2>3. CASE i = p
    <3>1. i \in rows' => incidents'[i].status = "live" /\ ~ incidents'[i].deleted
      BY <1>4, <1>5, <1>6, <2>3
    <3> QED
      BY <1>10, <2>1, <3>1
      DEF Settled, ChronologiesFit, DraftIsLeaf, NoTwins, DeletedIsResolved, ExpiredIsNoDraft, Fits
  <2> QED
    BY <2>2, <2>3
<1>13. Spares(w)
  <2> SUFFICES ASSUME NEW job, Bystander(job, w)
               PROVE  Current(job)'
    BY DEF Spares
  <2>1. /\ Current(job) /\ job.stage # "idle" /\ Settled(job.id)
        /\ job.id \notin {id, p} /\ job.row.parent # p
    BY <1>8, BystanderIs
  <2>2. \A x \in {job.id, job.row.parent} : x \in rows' => x \in rows /\ incidents'[x] = incidents[x]
    BY <1>4, <1>6, <2>1
  <2>3. job.row.status = "draft" /\ job.id \notin rows' => job.row.parent \notin rows'
    <3>1. job.id \in HardDeleted(id) => incidents[job.id].parent \in HardDeleted(id)
      BY <2>1, RevisionsGoAlong
    <3> QED
      BY <1>4, <2>1, <3>1 DEF Current, left
  <2>4. expired' = job.id => job.id \in rows' \/ job.row.status # "draft"
    BY <1>1, <2>1 DEF Current, Settled, ExpiredIsNoDraft
  <2> QED
    BY <1>10, <1>11, <2>1, <2>2, <2>3, <2>4, KeptCurrent
<1> QED
  BY <1>1, <1>12, <1>13, CallEnds DEF Settles

---------------------------------------------------------------------------
(* The purges and the tasks.                                                *)

(* What a hard delete takes is no open draft of an undisturbed incident: a  *)
(* call on a draft that goes finds its parent gone.                         *)
LEMMA HardDeleteCalm ==
    ASSUME CalmInv, Record, Inv', Linked', HardDelete(expired), expired' = Null, UNCHANGED jobs
    PROVE  CalmInv'
<1> DEFINE left == rows \ HardDeleted(expired)
           kept == {c \in chronologyRows : chronologies[c].incident \in left}
<1>1. incidents' = Only(incidents, left) /\ chronologies' = Only(chronologies, kept)
  BY DEF HardDelete
<1>2. rows' = left /\ \A j \in left : j \in rows /\ incidents'[j] = incidents[j]
  BY <1>1 DEF rows, Only
<1>3. /\ chronologyRows' = kept
      /\ \A c \in kept : c \in chronologyRows /\ chronologies'[c] = chronologies[c]
  BY <1>1 DEF chronologyRows, Only
<1>4. Null \notin Incidents
  BY NullIsNoRow DEF CalmInv, Inv
<1> HIDE DEF kept
<1>5. \A k : OpenDrafts(k)' \subseteq OpenDrafts(k)
  BY <1>2 DEF OpenDrafts, Visible
<1>6. \A k : \A c \in ChronologiesOf(k)' :
         c \in ChronologiesOf(k) /\ chronologies'[c].status = chronologies[c].status
  BY <1>3 DEF ChronologiesOf
<1>7. ASSUME NEW i \in Undisturbed
      PROVE  Settled(i)'
  <2>1. Settled(i) /\ i \in Incidents
    BY <1>7 DEF CalmInv, Undisturbed
  <2>2. i \in rows' => i \in rows /\ incidents'[i] = incidents[i]
    BY <1>2
  <2>3. \A j \in rows' : incidents'[j].parent = i => j \in rows /\ incidents[j].parent = i
    BY <1>2
  <2> QED
    BY <1>4, <1>5, <1>6, <2>1, <2>2, <2>3, KeptSettled
<1>8. ASSUME NEW w \in Workers, Quiet(w)
      PROVE  Current(jobs[w])'
  <2>1. PICK job : job = jobs[w]
    OBVIOUS
  <2>2. Current(job)
    BY <1>8, <2>1 DEF CalmInv, QuietCallsReady
  <2>3. CASE job.stage = "idle"
    BY <2>1, <2>3 DEF Current
  <2>4. CASE job.stage # "idle"
    <3>1. job.id \in Incidents /\ Settled(job.id)
      <4>1. jobs[w].id \in Touched(jobs[w]) /\ jobs[w].id \in Incidents
        BY <2>1, <2>4, CallIsAbout DEF CalmInv
      <4> QED
        BY <1>8, <2>1, <4>1 DEF Quiet, CalmInv, Undisturbed
    <3>2. job.row.status = "draft" /\ job.id \notin rows' => job.row.parent \notin rows'
      <4>1. job.id \in HardDeleted(expired) /\ job.id # expired =>
                incidents[job.id].parent \in HardDeleted(expired)
        BY RevisionsGoAlong
      <4>2. job.row.status = "draft" /\ job.id \in rows => job.id # expired
        BY <2>2, <2>4, <3>1 DEF Current, Settled, ExpiredIsNoDraft
      <4> QED
        BY <1>2, <2>2, <2>4, <4>1, <4>2 DEF Current
    <3>3. \A x \in {job.id, job.row.parent} : x \in rows' => x \in rows /\ incidents'[x] = incidents[x]
      BY <1>2
    <3>4. Current(job)'
      BY <1>4, <1>5, <1>6, <2>2, <3>1, <3>2, <3>3, KeptCurrent
    <3> QED
      BY <2>1, <3>4 DEF Current
  <2> QED
    BY <2>3, <2>4
<1> QED
  BY <1>7, <1>8, NoCallMoves DEF Settles

(* A task that only loads a row, or sends a push: nothing a call relies on. *)
LEMMA LoadCalm ==
    ASSUME CalmInv, Record, Inv', Linked', UNCHANGED tables, UNCHANGED jobs,
           expired' = expired \/ expired' = Null \/
              (expired' \in rows /\
                 (incidents[expired'].deleted \/ incidents[expired'].status # "draft"))
    PROVE  CalmInv'
<1>1. /\ rows' = rows /\ incidents' = incidents /\ chronologies' = chronologies
      /\ \A i : OpenDrafts(i)' = OpenDrafts(i) /\ ChronologiesOf(i)' = ChronologiesOf(i)
  BY SameTables DEF tables
<1>2. Null \notin rows /\ Null \notin Incidents
  BY NullIsNoRow DEF CalmInv, Inv
<1>3. ASSUME NEW i \in Undisturbed
      PROVE  Settled(i)'
  <2>1. Settled(i) /\ i \in Incidents
    BY <1>3 DEF CalmInv, Undisturbed
  <2>2. ChronologiesFit(i)' /\ DraftIsLeaf(i)' /\ NoTwins(i)' /\ DeletedIsResolved(i)'
    BY <1>1, <2>1
    DEF Settled, ChronologiesFit, DraftIsLeaf, NoTwins, DeletedIsResolved, NoPending, Fits
  <2>3. ExpiredIsNoDraft(i)'
    BY <1>1, <1>2, <2>1 DEF Settled, ExpiredIsNoDraft
  <2> QED
    BY <2>2, <2>3 DEF Settled
<1>4. ASSUME NEW w \in Workers, Quiet(w)
      PROVE  Current(jobs[w])'
  <2>1. PICK job : job = jobs[w]
    OBVIOUS
  <2>2. Current(job)
    BY <1>4, <2>1 DEF CalmInv, QuietCallsReady
  <2>3. job.stage # "idle" => job.id \in Incidents
    BY <2>1, CallIsAbout DEF CalmInv
  <2>4. NoPending(job.id) => NoPending(job.id)'
    BY <1>1 DEF NoPending
  <2>5. Current(job)'
    BY <1>1, <1>2, <2>2, <2>3, <2>4 DEF Current
  <2> QED
    BY <2>1, <2>5 DEF Current
<1> QED
  BY <1>3, <1>4, NoCallMoves DEF Settles

(* Every step keeps the invariant.                                          *)
LEMMA StepCalm ==
    ASSUME CalmInv, Next, Record
    PROVE  CalmInv'
<1>1. Inv' /\ Linked'
  BY StepKeeps, StepLinks DEF CalmInv
<1>3. CASE \E w \in Workers : Steps(w)
  <2> PICK w \in Workers : Steps(w)
    BY <1>3
  <2>1. CASE LookForDraft(w) \/ \E i \in Incidents : Revise(w, i)
    BY <1>1, <2>1, LookForDraftCalm, ReviseCalm
  <2>2. CASE WriteFields(w) \/ WriteTags(w) \/ WriteChronologies(w)
    BY <1>1, <2>2, WriteFieldsCalm, WriteTagsCalm, WriteChronologiesCalm
  <2>3. CASE SubmitIncident(w) \/ RejectIncident(w) \/ Promote(w) \/ Merge(w)
    BY <1>1, <2>3, SaveStatusCalm, MergeCalm
  <2>4. CASE ResolveChildren(w) \/ SoftDelete(w)
    BY <1>1, <2>4, ResolveChildrenCalm, SoftDeleteCalm
  <2>5. CASE SaveChronology(w) \/ DropChronology(w) \/ Fail(w)
    BY <1>1, <2>5, SaveChronologyCalm, DropChronologyCalm, FailCalm
  <2> QED
    BY <2>1, <2>2, <2>3, <2>4, <2>5 DEF Steps
<1>4. CASE \E w \in Workers : \E u \in Users : Calls(w, u)
  <2> PICK w \in Workers, u \in Users : Calls(w, u)
    BY <1>4
  <2>1. CASE \E i \in Incidents : \E content \in Contents, writes \in SUBSET Keys :
                CreateIncident(w, u, i, content, writes)
    BY <1>1, <2>1, CreateCalm
  <2>2. CASE \E i \in Incidents : \E c \in Chronologies, k \in Keys :
                CreateChronology(w, u, i, c, k)
    BY <1>1, <2>2, CreateChronologyCalm
  <2>3. CASE \E i \in rows : \E content \in Contents, writes \in SUBSET Keys :
                ReadForUpdate(w, u, i, content, writes)
    BY <1>1, <2>3, UpdateCalm
  <2>4. CASE \E i \in rows : \/ ReadForSubmit(w, u, i)
                             \/ ReadForApprove(w, u, i)
                             \/ ReadForReject(w, u, i)
                             \/ ReadForDelete(w, u, i)
    BY <1>1, <2>4, PlainStartCalm
  <2>5. CASE \E c \in chronologyRows : ChronologyCall(w, u, c)
    BY <1>1, <2>5, ChronologyCallCalm
  <2> QED
    BY <2>1, <2>2, <2>3, <2>4, <2>5 DEF Calls
<1>5. CASE \E i \in rows : LoadDeleted(i) \/ LoadRejected(i)
  <2>1. PICK i \in rows : LoadDeleted(i) \/ LoadRejected(i)
    BY <1>5
  <2>2. /\ UNCHANGED tables /\ UNCHANGED jobs /\ expired' = i
        /\ incidents[i].deleted \/ incidents[i].status # "draft"
    BY <2>1 DEF LoadDeleted, LoadRejected
  <2> QED
    BY <1>1, <2>2, LoadCalm
<1>6. CASE Purge
  <2>1. UNCHANGED jobs /\ expired' = Null
    BY <1>6 DEF Purge
  <2> QED
    BY <1>1, <1>6, <2>1, LoadCalm, HardDeleteCalm DEF Purge
<1>7. CASE \E i \in queued : Notify(i)
  BY <1>1, <1>7, LoadCalm DEF Notify
<1> QED
  BY <1>3, <1>4, <1>5, <1>6, <1>7 DEF Next

(* A step of nobody keeps the invariant.                                    *)
LEMMA StutterCalm ==
    ASSUME CalmInv, UNCHANGED recordedVars
    PROVE  CalmInv'
<1>1. /\ UNCHANGED tables /\ UNCHANGED jobs /\ UNCHANGED expired /\ UNCHANGED disturbed
      /\ UNCHANGED vars
  BY DEF recordedVars, vars, tables
<1>2. Inv' /\ Linked'
  BY <1>1, StepKeeps, StepLinks DEF CalmInv
<1>3. Settles /\ \A job : Current(job) => Current(job)'
  BY <1>1, SameTablesSettled DEF tables
<1>4. OverlapsRecorded'
  BY <1>1 DEF CalmInv, OverlapsRecorded, Quiet, Touched
<1>5. \A i \in Undisturbed' : Settled(i)'
  BY <1>1, <1>3 DEF Settles, Undisturbed
<1>6. ASSUME NEW w \in Workers, Quiet(w)'
      PROVE  (Prepared(jobs[w]) /\ Current(jobs[w]))'
  <2>1. PICK job : job = jobs[w]
    OBVIOUS
  <2>2. Quiet(w)
    BY <1>1, <1>6 DEF Quiet, Touched
  <2>3. Prepared(job) /\ Current(job)'
    BY <1>3, <2>1, <2>2 DEF CalmInv, QuietCallsReady
  <2> QED
    BY <1>1, <2>1, <2>3 DEF Prepared, Current, Fits
<1>7. QuietCallsReady'
  BY <1>6 DEF QuietCallsReady
<1> QED
  BY <1>2, <1>4, <1>5, <1>7 DEF CalmInv

(* Empty tables satisfy the invariant.                                      *)
LEMMA InitCalm ==
    ASSUME RecordedInit
    PROVE  CalmInv
<1>1. rows = {} /\ chronologyRows = {} /\ disturbed = {}
  BY DEF RecordedInit, Init, rows, chronologyRows
<1>2. \A w \in Workers : jobs[w].stage = "idle"
  BY DEF RecordedInit, Init, Idle
<1>3. QuietCallsReady /\ OverlapsRecorded
  BY <1>2 DEF QuietCallsReady, OverlapsRecorded, Prepared, Current, Touched, Quiet
<1>4. \A i : Settled(i)
  BY <1>1 DEF Settled, ChronologiesFit, DraftIsLeaf, NoTwins, DeletedIsResolved,
              ExpiredIsNoDraft, OpenDrafts
<1> QED
  BY <1>3, <1>4, InitEstablishes, InitLinks DEF CalmInv, RecordedInit

(* However calls overlap, stop and race the purges: what no two overlapping *)
(* calls were about is in order, and a call that is about nothing else      *)
(* still finds what it has read.                                            *)
THEOREM OverlapsStayApart == RecordedSpec => []CalmInv
<1>1. CalmInv /\ [RecordedNext]_recordedVars => CalmInv'
  BY StepCalm, StutterCalm DEF RecordedNext
<1> QED
  BY <1>1, InitCalm, PTL DEF RecordedSpec

(* An undisturbed incident's public and to-be-deleted chronologies belong   *)
(* to a published incident, whatever calls stopped half-way, whatever the   *)
(* purges took in the middle of a call and however other calls overlapped.  *)
THEOREM ChronologiesFollowIncidents == RecordedSpec => []UndisturbedStatesFit
<1>1. CalmInv => UndisturbedStatesFit
  <2> SUFFICES ASSUME CalmInv, NEW c \in chronologyRows,
                      chronologies[c].incident \in Undisturbed,
                      chronologies[c].status \in {"live", "pending_deletion"}
               PROVE  incidents[chronologies[c].incident].status = "live"
    BY DEF UndisturbedStatesFit
  <2>1. PICK i : i = chronologies[c].incident
    OBVIOUS
  <2>2. i \in rows /\ c \in ChronologiesOf(i) /\ Settled(i)
    BY <2>1 DEF CalmInv, Linked, ChronologiesLinked, ChronologiesOf
  <2> QED
    BY <2>1, <2>2 DEF Settled, ChronologiesFit, Fits
<1> QED
  BY <1>1, OverlapsStayApart, PTL

(* An undisturbed incident that is deleted has no open draft and no         *)
(* chronology that waits for a decision.                                    *)
THEOREM DeletedLeavesNothingPending == RecordedSpec => []UndisturbedIsResolved
<1>1. CalmInv => UndisturbedIsResolved
  BY DEF CalmInv, Settled, DeletedIsResolved, NoPending, Pending, UndisturbedIsResolved
<1> QED
  BY <1>1, OverlapsStayApart, PTL

(* An undisturbed incident has at most one open draft.                      *)
THEOREM DraftsAreUnique == RecordedSpec => []UndisturbedHasOneDraft
<1>1. CalmInv => UndisturbedHasOneDraft
  <2> SUFFICES ASSUME CalmInv, NEW i \in Undisturbed
               PROVE  Cardinality(OpenDrafts(i)) <= 1
    BY DEF UndisturbedHasOneDraft
  <2>1. \A d, e \in OpenDrafts(i) : d = e
    BY DEF CalmInv, Settled, NoTwins
  <2>2. CASE OpenDrafts(i) = {}
    BY <2>2, FS_EmptySet
  <2>3. CASE OpenDrafts(i) # {}
    <3>1. PICK d : OpenDrafts(i) = {d}
      BY <2>1, <2>3
    <3>2. Cardinality({d}) = 1
      BY FS_Singleton
    <3> QED
      BY <3>1, <3>2
  <2> QED
    BY <2>2, <2>3
<1> QED
  BY <1>1, OverlapsStayApart, PTL

---------------------------------------------------------------------------
(* Action properties.                                                       *)

(* Every call but the creation of an incident only reads at first.          *)
LEMMA CallStarts ==
    ASSUME NEW w \in Workers, NEW u \in Users, Calls(w, u)
    PROVE  \/ \E i \in Incidents : \E content \in Contents, writes \in SUBSET Keys :
                CreateIncident(w, u, i, content, writes)
           \/ \E job : Start(w, job)
<1>1. CASE \E i \in Incidents : \E c \in Chronologies, k \in Keys :
                CreateChronology(w, u, i, c, k)
  BY <1>1 DEF CreateChronology
<1>2. CASE \E i \in rows : \E content \in Contents, writes \in SUBSET Keys :
                ReadForUpdate(w, u, i, content, writes)
  BY <1>2 DEF ReadForUpdate
<1>3. CASE \E i \in rows : \/ ReadForSubmit(w, u, i)
                           \/ ReadForApprove(w, u, i)
                           \/ ReadForReject(w, u, i)
                           \/ ReadForDelete(w, u, i)
  BY <1>3 DEF ReadForSubmit, ReadForApprove, ReadForReject, ReadForDelete
<1>4. CASE \E c \in chronologyRows : ChronologyCall(w, u, c)
  <2> PICK c \in chronologyRows : ChronologyCall(w, u, c)
    BY <1>4
  <2>1. \E stage, written : OnChronology(w, u, c, stage, written)
    <3>1. CASE \E k \in Keys : UpdateChronology(w, u, c, k)
      BY <3>1 DEF UpdateChronology
    <3>2. CASE ReorderChronology(w, u, c) \/ ApproveChronology(w, u, c)
               \/ RequestDeletion(w, u, c)
      BY <3>2 DEF ReorderChronology, ApproveChronology, RequestDeletion
    <3>3. CASE RejectDeletion(w, u, c) \/ ApproveDeletion(w, u, c)
               \/ DeleteChronology(w, u, c)
      BY <3>3 DEF RejectDeletion, ApproveDeletion, DeleteChronology
    <3> QED
      BY <3>1, <3>2, <3>3 DEF ChronologyCall
  <2> QED
    BY <2>1 DEF OnChronology
<1> QED
  BY <1>1, <1>2, <1>3, <1>4 DEF Calls

(* No push is queued for an undisturbed incident that is public and MAJOR   *)
(* before.                                                                  *)
QuietWhileAlerting ==
    \A i \in (queued' \ queued) \cap Undisturbed :
        ~ (Live(i) /\ incidents[i].fields \in MajorContents)

(* No step queues a push for an undisturbed incident that alerts already.   *)
LEMMA StepNeverRealerts ==
    ASSUME CalmInv, [RecordedNext]_recordedVars
    PROVE  QuietWhileAlerting
<1>1. CASE queued' \subseteq queued
  BY <1>1 DEF QuietWhileAlerting
<1>2. ASSUME NEW w \in Workers, Promote(w)
      PROVE  QuietWhileAlerting
  <2>1. jobs[w].stage = "promote" /\ queued' \subseteq queued \cup {jobs[w].id}
    BY <1>2 DEF Promote, SaveStatus, Enqueue
  <2>2. ASSUME jobs[w].id \in Undisturbed, jobs[w].id \in rows
        PROVE  incidents[jobs[w].id].status = "pending_approval"
    <3>1. jobs[w].id \in Touched(jobs[w])
      BY <2>1, CallIsAbout DEF CalmInv
    <3>2. Prepared(jobs[w]) /\ Current(jobs[w])
      BY <2>2, <3>1, QuietCall DEF Undisturbed
    <3> QED
      BY <2>1, <2>2, <3>2 DEF Current, Prepared
  <2> QED
    BY <2>1, <2>2 DEF QuietWhileAlerting, Live, Visible
<1>3. ASSUME NEW w \in Workers, Merge(w)
      PROVE  QuietWhileAlerting
  <2> DEFINE p == jobs[w].row.parent
  <2>1. IF MergeAlerts(incidents[p], jobs[w].row) THEN Enqueue(p) ELSE UNCHANGED queued
    BY <1>3 DEF Merge
  <2>2. CASE UNCHANGED queued
    BY <2>2 DEF QuietWhileAlerting
  <2>3. CASE MergeAlerts(incidents[p], jobs[w].row) /\ Enqueue(p)
    <3>1. queued' \subseteq queued \cup {p} /\ ~ IsAlerting(incidents[p])
      BY <2>3 DEF Enqueue, MergeAlerts
    <3> QED
      BY <3>1 DEF QuietWhileAlerting, IsAlerting, Live
  <2> QED
    BY <2>1, <2>2, <2>3
<1>4. CASE UNCHANGED recordedVars
  BY <1>1, <1>4 DEF recordedVars, vars
<1>5. CASE \E w \in Workers : Steps(w)
  <2> PICK w \in Workers : Steps(w)
    BY <1>5
  <2>1. CASE Promote(w) \/ Merge(w)
    BY <1>2, <1>3, <2>1
  <2>2. CASE LookForDraft(w) \/ \E i \in Incidents : Revise(w, i)
    BY <1>1, <2>2 DEF LookForDraft, Revise, Insert
  <2>3. CASE \/ WriteFields(w) \/ WriteTags(w) \/ WriteChronologies(w)
             \/ SubmitIncident(w) \/ RejectIncident(w)
    BY <1>1, <2>3 DEF WriteFields, WriteTags, WriteChronologies, SubmitIncident, RejectIncident
  <2>4. CASE \/ ResolveChildren(w) \/ SoftDelete(w)
             \/ SaveChronology(w) \/ DropChronology(w) \/ Fail(w)
    BY <1>1, <2>4 DEF ResolveChildren, SoftDelete, SaveChronology, DropChronology, Fail
  <2> QED
    BY <2>1, <2>2, <2>3, <2>4 DEF Steps
<1>6. CASE \E w \in Workers : \E u \in Users : Calls(w, u)
  <2> PICK w \in Workers, u \in Users : Calls(w, u)
    BY <1>6
  <2>1. CASE \E i \in Incidents : \E content \in Contents, writes \in SUBSET Keys :
                CreateIncident(w, u, i, content, writes)
    BY <1>1, <2>1 DEF CreateIncident, Insert
  <2>2. CASE \E job : Start(w, job)
    BY <1>1, <2>2 DEF Start
  <2> QED
    BY <2>1, <2>2, CallStarts
<1>7. CASE (\E i \in rows : LoadDeleted(i) \/ LoadRejected(i)) \/ Purge \/ \E i \in queued : Notify(i)
  BY <1>1, <1>7 DEF LoadDeleted, LoadRejected, Purge, Notify
<1> QED
  BY <1>4, <1>5, <1>6, <1>7 DEF RecordedNext, Next

(* A push is queued for an undisturbed incident only if it was not public   *)
(* and MAJOR already, even when the row was purged and is inserted again by *)
(* the approval.                                                            *)
THEOREM AlertsOncePerPublication == RecordedSpec => UndisturbedNeverRealerts
<1>1. CalmInv /\ [RecordedNext]_recordedVars => [QuietWhileAlerting]_recordedVars
  BY StepNeverRealerts
<1>2. [][QuietWhileAlerting]_recordedVars => UndisturbedNeverRealerts
  BY DEF QuietWhileAlerting, UndisturbedNeverRealerts
<1> QED
  BY <1>1, <1>2, OverlapsStayApart, PTL DEF RecordedSpec

(* The step leaves what is public of an undisturbed incident as it was, or  *)
(* is an admin's.                                                           *)
LiveKept ==
    \A i \in Undisturbed :
        /\ Live(i) /\ Live(i)'
        /\ <<incidents[i].fields, lines[i]>> # <<incidents'[i].fields, lines'[i]>>
        => \E u \in Admins : Acting(u)

(* A call's copy of an undisturbed row has the row's status, and has passed *)
(* the call's checks.                                                       *)
LEMMA StatusIsCurrent ==
    ASSUME CalmInv, NEW w \in Workers, jobs[w].stage # "idle", jobs[w].id \in Undisturbed
    PROVE  /\ Prepared(jobs[w])
           /\ jobs[w].id \in rows => incidents[jobs[w].id].status = jobs[w].row.status
<1>1. jobs[w].id \in Touched(jobs[w])
  BY CallIsAbout DEF CalmInv
<1>2. Prepared(jobs[w]) /\ Current(jobs[w])
  BY <1>1, QuietCall DEF Undisturbed
<1> QED
  BY <1>2 DEF Current

(* Writing back a row changes what is public only when the row is public    *)
(* and the call an admin's.                                                 *)
LEMMA SavedRowKeepsLive ==
    ASSUME Inv, Linked, NEW i \in Incidents, NEW row \in IncidentRow, Write(i, row),
           i \in Undisturbed /\ Live(i) /\ row.status = "live" /\ ~ row.deleted
              => \E u \in Admins : Acting(u)
    PROVE  LiveKept
<1> SUFFICES ASSUME NEW j \in Undisturbed, Live(j), Live(j)',
                    <<incidents[j].fields, lines[j]>> # <<incidents'[j].fields, lines'[j]>>
             PROVE  \E u \in Admins : Acting(u)
  BY DEF LiveKept
<1>1. /\ rows' = rows \cup {i} /\ j \in rows
      /\ \A k \in rows' : incidents'[k] = IF k = i THEN row ELSE incidents[k]
  BY OneRowWritten DEF Inv, Live, Visible
<1>2. CASE i \in rows
  <2>1. lines' = lines
    BY <1>2 DEF Write
  <2> QED
    BY <1>1, <2>1 DEF Live, Visible
<1>3. CASE i \notin rows
  <2>1. j # i /\ j \in DOMAIN lines
    BY <1>1, <1>3 DEF Linked, LinesFit
  <2>2. lines'[j] = lines[j]
    BY <1>3, <2>1 DEF Write, Put
  <2>3. incidents'[j] = incidents[j]
    BY <1>1, <2>1
  <2> QED
    BY <2>2, <2>3
<1> QED
  BY <1>2, <1>3

(* Rows and tags that are not written keep what is public.                  *)
LEMMA UnchangedKeepsLive ==
    ASSUME UNCHANGED incidents, UNCHANGED lines
    PROVE  LiveKept
BY DEF LiveKept

(* Rows taken away, and rows that keep their columns and tags.              *)
LEMMA ColumnsKeepLive ==
    ASSUME \A j \in rows' : /\ j \in rows /\ incidents'[j].fields = incidents[j].fields
                            /\ lines'[j] = lines[j]
    PROVE  LiveKept
BY DEF LiveKept, Live, Visible

(* An edit that saves the columns changes what is public for an admin only. *)
LEMMA WriteFieldsKeepsLive ==
    ASSUME CalmInv, NEW w \in Workers, WriteFields(w)
    PROVE  LiveKept
<1>1. jobs[w] \in EditJob /\ jobs[w].stage = "fields"
  BY StageTells DEF WriteFields, CalmInv, Inv
<1>2. /\ jobs[w].id \in Incidents /\ jobs[w].user \in Users
      /\ jobs[w].row \in IncidentRow /\ jobs[w].content \in Contents
  BY <1>1 DEF EditJob
<1> DEFINE row == [Edited(jobs[w]) EXCEPT !.deleted = FALSE]
<1>3. row \in IncidentRow
  <2>1. Bump(jobs[w].row.version) \in 1 .. MaxVersion
    BY <1>2, BumpInRange DEF IncidentRow
  <2>2. Edited(jobs[w]) \in IncidentRow
    BY <1>2, <2>1 DEF Edited, IncidentRow
  <2> QED
    BY <2>2 DEF IncidentRow
<1>4. Write(jobs[w].id, row) /\ Goto(w, "tags")
  BY DEF WriteFields, Save
<1> HIDE DEF row
<1>5. Acting(jobs[w].user)
  <2>1. jobs'[w].stage = "tags"
    BY <1>1, <1>4, EditGoesOn DEF CalmInv
  <2> QED
    BY <1>1, <2>1 DEF Acting, Idle
<1>6. jobs[w].id \in Undisturbed /\ Live(jobs[w].id) => jobs[w].user \in Admins
  <2>1. jobs[w].user \notin Admins => jobs[w].row.status # "live"
    BY <1>1 DEF CalmInv, Inv, SavesAreEntitled, Entitled
  <2>2. jobs[w].id \in Undisturbed \cap rows =>
            incidents[jobs[w].id].status = jobs[w].row.status
    BY <1>1, StatusIsCurrent
  <2> QED
    BY <2>1, <2>2 DEF Live, Visible
<1> QED
  BY <1>2, <1>3, <1>4, <1>5, <1>6, SavedRowKeepsLive DEF CalmInv

(* Submitting, rejecting and promoting changes what is public for an admin  *)
(* only.                                                                    *)
LEMMA SaveStatusKeepsLive ==
    ASSUME CalmInv, NEW w \in Workers,
           SubmitIncident(w) \/ RejectIncident(w) \/ Promote(w)
    PROVE  LiveKept
<1>1. PICK stage \in {"submit", "reject", "promote"}, status \in IncidentStatuses :
          SaveStatus(w, stage, status)
  BY DEF SubmitIncident, RejectIncident, Promote, IncidentStatuses
<1>2. jobs[w].stage = stage /\ jobs[w] \in PlainJob
  BY <1>1, StageTells DEF SaveStatus, CalmInv, Inv
<1>3. jobs[w].id \in Incidents /\ jobs[w].row \in IncidentRow
  BY <1>2 DEF PlainJob
<1> DEFINE row == [[jobs[w].row EXCEPT !.status = status] EXCEPT !.deleted = FALSE]
<1>4. row \in IncidentRow
  BY <1>3 DEF IncidentRow
<1>5. Write(jobs[w].id, row)
  BY <1>1 DEF SaveStatus, Save
<1> HIDE DEF row
<1>6. jobs[w].id \in Undisturbed => ~ Live(jobs[w].id)
  <2>1. jobs[w].id \in Undisturbed => jobs[w].row.status # "live"
    BY <1>2, StatusIsCurrent DEF Prepared
  <2>2. jobs[w].id \in Undisturbed \cap rows =>
            incidents[jobs[w].id].status = jobs[w].row.status
    BY <1>2, StatusIsCurrent
  <2> QED
    BY <2>1, <2>2 DEF Live, Visible
<1> QED
  BY <1>3, <1>4, <1>5, <1>6, SavedRowKeepsLive DEF CalmInv

(* A soft delete changes what is public for an admin only.                  *)
LEMMA SoftDeleteKeepsLive ==
    ASSUME CalmInv, NEW w \in Workers, SoftDelete(w)
    PROVE  LiveKept
<1>1. jobs[w] \in PlainJob
  BY StageTells DEF SoftDelete, CalmInv, Inv
<1>2. jobs[w].id \in Incidents /\ jobs[w].row \in IncidentRow
  BY <1>1 DEF PlainJob
<1> DEFINE row == [jobs[w].row EXCEPT !.deleted = TRUE]
<1>3. row \in IncidentRow /\ row.deleted
  BY <1>2 DEF IncidentRow
<1>4. Write(jobs[w].id, row)
  BY DEF SoftDelete
<1> HIDE DEF row
<1> QED
  BY <1>2, <1>3, <1>4, SavedRowKeepsLive DEF CalmInv

(* A new row changes what is public for an admin only.                      *)
LEMMA InsertKeepsLive ==
    ASSUME Inv, Linked, NEW w \in Workers, NEW u \in Users, NEW i \in Incidents,
           NEW status \in IncidentStatuses, NEW up \in Incidents \cup {Null},
           NEW content \in Contents, NEW writes,
           Insert(w, u, i, status, up, content, writes)
    PROVE  LiveKept
<1> DEFINE row == [deleted |-> FALSE, status |-> status, version |-> 1,
                   parent |-> up, author |-> u, fields |-> content]
<1>1. row \in IncidentRow
  BY ConstantsAssumption DEF IncidentRow
<1>2. Write(i, row) /\ i \notin rows
  BY DEF Insert, FreshIncident
<1> HIDE DEF row
<1> QED
  BY <1>1, <1>2, SavedRowKeepsLive DEF Live, Visible

(* create_incident changes what is public for an admin only.                *)
LEMMA CreateKeepsLive ==
    ASSUME Inv, Linked, NEW w \in Workers, NEW u \in Users, NEW i \in Incidents,
           NEW content \in Contents, NEW writes \in SUBSET Keys,
           CreateIncident(w, u, i, content, writes)
    PROVE  LiveKept
<1> DEFINE status == IF u \in Admins THEN "live" ELSE "draft"
<1>1. status \in IncidentStatuses
  BY DEF IncidentStatuses
<1>2. Insert(w, u, i, status, Null, content, writes)
  BY DEF CreateIncident
<1> HIDE DEF status
<1> QED
  BY <1>1, <1>2, InsertKeepsLive

(* A new revision changes what is public for an admin only.                 *)
LEMMA ReviseKeepsLive ==
    ASSUME Inv, Linked, NEW w \in Workers, NEW i \in Incidents, Revise(w, i)
    PROVE  LiveKept
<1>1. jobs[w] \in EditJob
  BY StageTells DEF Revise, Inv
<1>2. /\ jobs[w].user \in Users /\ jobs[w].id \in Incidents
      /\ jobs[w].content \in Contents
  BY <1>1 DEF EditJob
<1>3. "draft" \in IncidentStatuses
  BY DEF IncidentStatuses
<1> QED
  BY <1>2, <1>3, InsertKeepsLive DEF Revise

(* Writing the m2m sets changes what is public for an admin only.           *)
LEMMA WriteTagsKeepsLive ==
    ASSUME CalmInv, NEW w \in Workers, WriteTags(w)
    PROVE  LiveKept
<1>1. jobs[w] \in EditJob /\ jobs[w].stage = "tags"
  BY StageTells DEF WriteTags, CalmInv, Inv
<1>2. /\ lines' = [lines EXCEPT ![jobs[w].id] = jobs[w].content]
      /\ Goto(w, "chronologies") /\ UNCHANGED incidents
  BY DEF WriteTags
<1>3. Acting(jobs[w].user)
  <2>1. jobs'[w].stage = "chronologies"
    BY <1>1, <1>2, EditGoesOn DEF CalmInv
  <2> QED
    BY <1>1, <2>1 DEF Acting, Idle
<1>4. jobs[w].id \in Undisturbed /\ Live(jobs[w].id) => jobs[w].user \in Admins
  <2>1. jobs[w].id \in Undisturbed /\ jobs[w].user \notin Admins =>
            jobs[w].row.status # "live"
    BY <1>1, StatusIsCurrent DEF Prepared
  <2>2. jobs[w].id \in Undisturbed \cap rows =>
            incidents[jobs[w].id].status = jobs[w].row.status
    BY <1>1, StatusIsCurrent
  <2> QED
    BY <2>1, <2>2 DEF Live, Visible
<1>5. \A j : j # jobs[w].id => lines'[j] = lines[j]
  BY <1>2
<1> QED
  BY <1>2, <1>3, <1>4, <1>5 DEF LiveKept

(* A merge changes what is public for an admin only.                        *)
LEMMA MergeKeepsLive ==
    ASSUME Inv, NEW w \in Workers, Merge(w)
    PROVE  LiveKept
<1>1. jobs[w].stage = "merge" /\ Finish(w)
  BY DEF Merge
<1>2. Acting(jobs[w].user) /\ jobs[w].user \in Admins
  BY <1>1, FinishKeepsJobs DEF Acting, Idle, Inv, SavesAreEntitled, Entitled
<1> QED
  BY <1>2 DEF LiveKept

(* Resolving what is pending under a row changes what is public for an      *)
(* admin only.                                                              *)
LEMMA ResolveChildrenKeepsLive ==
    ASSUME Inv, NEW w \in Workers, ResolveChildren(w)
    PROVE  LiveKept
<1>1. incidents' = [j \in rows |-> IF j \in OpenDrafts(jobs[w].id)
                                   THEN [incidents[j] EXCEPT !.deleted = TRUE]
                                   ELSE incidents[j]]
  BY DEF ResolveChildren
<1>2. rows' = rows /\ lines' = lines
  BY <1>1 DEF rows, ResolveChildren
<1>3. \A j \in rows : incidents'[j].fields = incidents[j].fields
  BY <1>1 DEF Inv, WellTyped, IncidentRow
<1> QED
  BY <1>2, <1>3, ColumnsKeepLive

(* A purge changes what is public for an admin only.                        *)
LEMMA PurgeKeepsLive ==
    ASSUME Purge
    PROVE  LiveKept
<1>1. CASE UNCHANGED tables
  BY <1>1, UnchangedKeepsLive DEF tables
<1>2. CASE HardDelete(expired)
  <2>1. \A j \in rows' : j \in rows /\ incidents'[j] = incidents[j] /\ lines'[j] = lines[j]
    BY <1>2 DEF HardDelete, Only, rows
  <2> QED
    BY <2>1, ColumnsKeepLive
<1> QED
  BY <1>1, <1>2 DEF Purge

(* Every step changes what is public for an admin only.                     *)
LEMMA StepKeepsLive ==
    ASSUME CalmInv, [RecordedNext]_recordedVars
    PROVE  LiveKept
<1>1. Inv /\ Linked
  BY DEF CalmInv
<1>2. CASE UNCHANGED recordedVars
  BY <1>2, UnchangedKeepsLive DEF recordedVars, vars
<1>3. CASE \E w \in Workers : Steps(w)
  <2> PICK w \in Workers : Steps(w)
    BY <1>3
  <2>1. CASE \E i \in Incidents : Revise(w, i)
    BY <1>1, <2>1, ReviseKeepsLive
  <2>2. CASE WriteFields(w) \/ WriteTags(w)
    BY <2>2, WriteFieldsKeepsLive, WriteTagsKeepsLive
  <2>3. CASE SubmitIncident(w) \/ RejectIncident(w) \/ Promote(w) \/ Merge(w)
    BY <1>1, <2>3, SaveStatusKeepsLive, MergeKeepsLive
  <2>4. CASE ResolveChildren(w) \/ SoftDelete(w)
    BY <1>1, <2>4, ResolveChildrenKeepsLive, SoftDeleteKeepsLive
  <2>5. CASE \/ LookForDraft(w) \/ WriteChronologies(w) \/ SaveChronology(w)
             \/ DropChronology(w) \/ Fail(w)
    BY <2>5, UnchangedKeepsLive
    DEF LookForDraft, WriteChronologies, SaveChronology, DropChronology, Fail, tables
  <2> QED
    BY <2>1, <2>2, <2>3, <2>4, <2>5 DEF Steps
<1>4. CASE \E w \in Workers : \E u \in Users : Calls(w, u)
  <2> PICK w \in Workers, u \in Users : Calls(w, u)
    BY <1>4
  <2>1. CASE \E i \in Incidents : \E content \in Contents, writes \in SUBSET Keys :
                CreateIncident(w, u, i, content, writes)
    BY <1>1, <2>1, CreateKeepsLive
  <2>2. CASE \E job : Start(w, job)
    BY <2>2, UnchangedKeepsLive DEF Start, tables
  <2> QED
    BY <2>1, <2>2, CallStarts
<1>5. CASE \E i \in rows : LoadDeleted(i) \/ LoadRejected(i)
  BY <1>5, UnchangedKeepsLive DEF LoadDeleted, LoadRejected, tables
<1>6. CASE Purge
  BY <1>6, PurgeKeepsLive
<1>7. CASE \E i \in queued : Notify(i)
  BY <1>7, UnchangedKeepsLive DEF Notify, tables
<1> QED
  BY <1>2, <1>3, <1>4, <1>5, <1>6, <1>7 DEF RecordedNext, Next

(* What the public reads of an undisturbed incident changes only in a step  *)
(* of an admin's call, whatever call stopped between its transactions       *)
(* before.                                                                  *)
THEOREM PublishedContentNeedsAdmin == RecordedSpec => UndisturbedChangedByAdmin
<1>1. CalmInv /\ [RecordedNext]_recordedVars => [LiveKept]_recordedVars
  BY StepKeepsLive
<1>2. [][LiveKept]_recordedVars => UndisturbedChangedByAdmin
  BY DEF LiveKept, UndisturbedChangedByAdmin
<1> QED
  BY <1>1, <1>2, OverlapsStayApart, PTL DEF RecordedSpec
===========================================================================
