--------------------------- MODULE MediaPipeline --------------------------
(* From an upload to a published medium (common/views.py, common/tasks.py,  *)
(* common/signals.py and the media and approve commands of the bot).  A     *)
(* staged row is created, the signal queues its conversion, a Celery worker *)
(* loads a copy of the row, posts the file, creates and attaches the Media, *)
(* and saves the WHOLE copy; a periodic task queues rows again.  Workers    *)
(* overlap, conversions are queued more than once, fail, and are killed.    *)
(* Not modelled: the screening of images, which returns before it does      *)
(* anything (tasks.py:45 compares a string with an enum member by identity).*)
EXTENDS Naturals, FiniteSets

CONSTANTS
    Uploads,          \* primary keys of TemporaryMedia
    Workers,          \* Celery worker processes
    Approvers,        \* bot handlers that may run /approve at the same time
    None,
    ClearancesChange, \* whether admins give or take clearances while an upload is received
    MaxFailCount,     \* the fail_count at which cleanup gives up (5)
    MaxQueued,        \* bound: queued conversions per row that are told apart
    MaxFaults,        \* bound: outside failures and kills
    MaxToggles        \* bound: switches of the IMAGE_UPLOAD feature flag

ASSUME ConstantsAssumption ==
    /\ None \notin Uploads /\ ClearancesChange \in BOOLEAN
    /\ MaxFailCount \in Nat \ {0} /\ MaxQueued \in Nat \ {0}
    /\ MaxFaults \in Nat /\ MaxToggles \in Nat

VARIABLES
    enabled,    \* FeatureFlag IMAGE_UPLOAD
    uploads,    \* what was uploaded, how, and what the user was told
    staged,     \* the TemporaryMedia rows
    gone,       \* uploads whose event or incident has been deleted
    queue,      \* conversions queued per upload
    jobs,       \* the conversion each worker is in
    approving,  \* the upload whose row an /approve has read
    published,  \* uploads for which a Media row has been created
    attached,   \* EventMedia or CalendarIncidentMedia rows created for them, to two
    approved,   \* history: uploads an admin has approved
    disturbed,  \* history: uploads whose handlers overlapped or were killed
    faults, toggles

rowVars == <<staged, queue>>
outcome == <<published, attached>>
vars == <<enabled, uploads, staged, gone, queue, jobs, approving, published,
          attached, approved, disturbed, faults, toggles>>

Statuses ==
    {"PENDING", "TRUSTED_CLEARED", "AWAITING_REVIEW", "OVERRIDE_CLEARED", "TO_DELETE"}
(* An upload comes from the web, for a spotting event or for a calendar     *)
(* incident, or from the bot, for an event.                                 *)
Ways == {"web", "incident", "photo", "video"}
FromBot(via) == via \in {"photo", "video"}

(* old: created at least five minutes ago.  discord: what uploaded_discord  *)
(* and discord_res hold; a stored answer without attachment is bad.         *)
TemporaryMedia ==
    [status : Statuses, fail_count : 0 .. MaxFailCount, old : BOOLEAN, discord : {"no", "ok", "bad"}]
Upload ==
    [via : Ways, reply : {"none", "review", "later", "received"}]
(* None is nothing that was uploaded.                                       *)
ASSUME NoneAssumption == None \notin Upload
Job == [id : Uploads, copy : TemporaryMedia, stage : {"post", "create", "attach", "finish"}]
(* Counts past which no guard tells them apart are not kept.                *)
UpTo(bound, n) == IF n < bound THEN n ELSE bound

Idle == [stage |-> "idle"]

rows == DOMAIN staged
Converting(u) == {w \in Workers : jobs[w] # Idle /\ jobs[w].id = u}
Holders(u) == Converting(u) \cup {a \in Approvers : approving[a] = u}

Save(u, row) == [v \in rows \cup {u} |-> IF v = u THEN row ELSE staged[v]]
Enqueue(ids) ==
    [u \in Uploads |-> IF u \in ids /\ queue[u] < MaxQueued THEN queue[u] + 1 ELSE queue[u]]
Disturb(u) == disturbed' = IF Holders(u) = {} THEN disturbed ELSE disturbed \cup {u}

---------------------------------------------------------------------------
(* The feature flag, the targets and the clock.                             *)

Toggle ==
    /\ toggles < MaxToggles
    /\ enabled' = ~ enabled /\ toggles' = toggles + 1
    /\ UNCHANGED <<uploads, rowVars, gone, jobs, approving, outcome, approved, disturbed, faults>>

TargetDeleted(u) ==
    /\ uploads[u] # None /\ u \notin gone
    /\ gone' = gone \cup {u}
    /\ UNCHANGED <<enabled, uploads, rowVars, jobs, approving, outcome, approved, disturbed,
                   faults, toggles>>

FiveMinutesPass(u) ==
    /\ u \in rows /\ ~ staged[u].old
    /\ staged' = [staged EXCEPT ![u].old = TRUE]
    /\ UNCHANGED <<enabled, uploads, gone, queue, jobs, approving, outcome, approved, disturbed,
                   faults, toggles>>

---------------------------------------------------------------------------
(* Uploads.  trusted: the user has the clearance TRUSTED_MEDIA_UPLOADER.    *)

(* Mutant: a photo is marked as cleared although nothing has screened it.   *)
StatusAtUploadUnscreened(via, trusted) ==
    CASE FromBot(via) /\ trusted     -> "TRUSTED_CLEARED"
      [] via = "video" /\ ~ trusted  -> "AWAITING_REVIEW"
      [] OTHER                       -> "CLEARED"

StatusAtUpload(via, trusted) ==
    CASE FromBot(via) /\ trusted     -> "TRUSTED_CLEARED"
      [] via = "video" /\ ~ trusted  -> "AWAITING_REVIEW"
      [] OTHER                       -> "PENDING"

(* The post_save signal: the status it leaves and whether it queues.  It    *)
(* reads the clearance again, which may have been given or taken meanwhile. *)
StatusAfterSignal(status, cleared) ==
    IF status # "AWAITING_REVIEW" /\ cleared THEN "TRUSTED_CLEARED" ELSE status
SignalQueues(status, cleared) ==
    status # "AWAITING_REVIEW" /\ (cleared \/ status = "PENDING")

Reply(via, status) ==
    CASE ~ FromBot(via)                                       -> "none"
      [] status = "AWAITING_REVIEW"                           -> "review"
      [] FromBot(via) /\ status # "AWAITING_REVIEW" /\ ~ enabled -> "later"
      [] OTHER                                                -> "received"

Receive(u, via) ==
    /\ uploads[u] = None
    /\ \E trusted, cleared \in BOOLEAN :
           LET status == StatusAtUpload(via, trusted) IN
           /\ cleared = trusted \/ ClearancesChange
           /\ staged' = Save(u, [status |-> StatusAfterSignal(status, cleared),
                                 fail_count |-> 0, old |-> FALSE, discord |-> "no"])
           /\ queue' = Enqueue(IF SignalQueues(status, cleared) THEN {u} ELSE {})
           /\ uploads' = [uploads EXCEPT ![u] = [via |-> via, reply |-> Reply(via, status)]]
    /\ UNCHANGED <<enabled, gone, jobs, approving, outcome, approved, disturbed, faults, toggles>>

---------------------------------------------------------------------------
(* /approve: finds the row awaiting review, later writes its status only,   *)
(* and queues the conversion.                                               *)

(* Mutant: the conversion is queued before the approval is saved.           *)
FindAwaitingQueuesFirst(a, u) ==
    /\ approving[a] = None
    /\ u \in rows /\ staged[u].status = "AWAITING_REVIEW"
    /\ approving' = [approving EXCEPT ![a] = u]
    /\ queue' = Enqueue({u})
    /\ Disturb(u)
    /\ UNCHANGED <<enabled, uploads, staged, gone, jobs, outcome, approved, faults, toggles>>

FindAwaiting(a, u) ==
    /\ approving[a] = None
    /\ u \in rows /\ staged[u].status = "AWAITING_REVIEW"
    /\ approving' = [approving EXCEPT ![a] = u]
    /\ Disturb(u)
    /\ UNCHANGED <<enabled, uploads, rowVars, gone, jobs, outcome, approved, faults, toggles>>

Approve(a) ==
    LET u == approving[a] IN
    /\ u # None /\ u \in rows
    /\ staged' = [staged EXCEPT ![u].status = "OVERRIDE_CLEARED"]
    /\ queue' = Enqueue({u})
    /\ approving' = [approving EXCEPT ![a] = None]
    /\ approved' = approved \cup {u}
    /\ UNCHANGED <<enabled, uploads, gone, jobs, outcome, disturbed, faults, toggles>>

---------------------------------------------------------------------------
(* convert_temporary_media_to_media_task.  A task whose row is missing is   *)
(* queued again; a task taken while uploads are disabled is dropped, and so *)
(* is one whose row needs no conversion any more.                           *)

(* Mutant: a conversion does not look at what was done already.             *)
SkippedNever(row) == FALSE

Skipped(row) == row.status = "TO_DELETE"

Take(w, u) ==
    /\ jobs[w] = Idle /\ queue[u] > 0
    /\ ~ enabled \/ u \in rows
    /\ queue' = [queue EXCEPT ![u] = @ - 1]
    /\ IF enabled /\ ~ Skipped(staged[u])
       THEN /\ jobs' = [jobs EXCEPT ![w] = [id |-> u, copy |-> staged[u], stage |-> "post"]]
            /\ Disturb(u)
       ELSE UNCHANGED <<jobs, disturbed>>
    /\ UNCHANGED <<enabled, uploads, staged, gone, approving, outcome, approved, faults, toggles>>

At(w, stage) == jobs[w] # Idle /\ jobs[w].stage = stage

(* Posted once; the answer is stored with the row whatever it says.         *)
PostToDiscord(w) ==
    /\ At(w, "post")
    /\ \E answer \in {"ok", "bad"} :
           /\ answer = "bad" => faults < MaxFaults /\ jobs[w].copy.discord = "no"
           /\ faults' = IF answer = "bad" THEN faults + 1 ELSE faults
           /\ IF jobs[w].copy.discord = "no"
              THEN LET saved == [jobs[w].copy EXCEPT !.discord = answer] IN
                   /\ staged' = Save(jobs[w].id, saved)
                   /\ jobs' = [jobs EXCEPT ![w].copy = saved, ![w].stage = "create"]
              ELSE /\ jobs' = [jobs EXCEPT ![w].stage = "create"]
                   /\ UNCHANGED staged
    /\ UNCHANGED <<enabled, uploads, gone, queue, approving, outcome, approved, disturbed, toggles>>

(* Creating the Media row also stores a copy of the file at Imgur.          *)
CreateMedia(w) ==
    /\ At(w, "create") /\ jobs[w].copy.discord = "ok"
    /\ published' = published \cup {jobs[w].id}
    /\ jobs' = [jobs EXCEPT ![w].stage = "attach"]
    /\ UNCHANGED <<enabled, uploads, rowVars, gone, approving, attached, approved, disturbed,
                   faults, toggles>>

(* An answer without attachment, and a deleted incident, are errors.        *)
MustFail(w) ==
    \/ At(w, "create") /\ jobs[w].copy.discord = "bad"
    \/ At(w, "attach") /\ jobs[w].id \in gone /\ uploads[jobs[w].id].via = "incident"

(* A deleted event is passed over.                                          *)
Attach(w) ==
    LET u == jobs[w].id IN
    /\ At(w, "attach")
    /\ ~ MustFail(w)
    /\ attached' = IF u \in gone THEN attached ELSE [attached EXCEPT ![u] = UpTo(2, @ + 1)]
    /\ jobs' = [jobs EXCEPT ![w].stage = "finish"]
    /\ UNCHANGED <<enabled, uploads, rowVars, gone, approving, published, approved, disturbed,
                   faults, toggles>>

(* The copy is saved with all its columns, over whatever the row is now.    *)
Finish(w) ==
    /\ At(w, "finish")
    /\ staged' = Save(jobs[w].id, [jobs[w].copy EXCEPT !.status = "TO_DELETE"])
    /\ jobs' = [jobs EXCEPT ![w] = Idle]
    /\ UNCHANGED <<enabled, uploads, gone, queue, approving, outcome, approved, disturbed,
                   faults, toggles>>

(* Mutant: the status is set before what can fail, and saved by the failure.*)
FailMarkedDone(w) ==
    /\ At(w, "post") \/ At(w, "create") \/ MustFail(w)
    /\ IF MustFail(w) THEN UNCHANGED faults ELSE faults < MaxFaults /\ faults' = faults + 1
    /\ staged' = Save(jobs[w].id, [jobs[w].copy EXCEPT !.status = "TO_DELETE"])
    /\ jobs' = [jobs EXCEPT ![w] = Idle]
    /\ UNCHANGED <<enabled, uploads, gone, queue, approving, outcome, approved, disturbed, toggles>>

(* An exception in the conversion is logged and counted.                    *)
Fail(w) ==
    /\ At(w, "post") \/ At(w, "create") \/ MustFail(w)
    /\ IF MustFail(w) THEN UNCHANGED faults ELSE faults < MaxFaults /\ faults' = faults + 1
    /\ staged' = Save(jobs[w].id, [jobs[w].copy EXCEPT !.fail_count = UpTo(MaxFailCount, @ + 1)])
    /\ jobs' = [jobs EXCEPT ![w] = Idle]
    /\ UNCHANGED <<enabled, uploads, gone, queue, approving, outcome, approved, disturbed, toggles>>

(* A worker is killed: its task was acknowledged when it was taken.         *)
Kill(w) ==
    /\ jobs[w] # Idle /\ faults < MaxFaults
    /\ faults' = faults + 1
    /\ disturbed' = disturbed \cup {jobs[w].id}
    /\ jobs' = [jobs EXCEPT ![w] = Idle]
    /\ UNCHANGED <<enabled, uploads, rowVars, gone, approving, outcome, approved, toggles>>

---------------------------------------------------------------------------
(* cleanup_temporary_media_task, every minute: queues what is due again and *)
(* deletes what was done thirty days ago, which outlasts every conversion.  *)

(* Mutants: the cleanup queues what awaits review; it forgets the approved. *)
DueAwaitingReview(row) ==
    /\ row.fail_count < MaxFailCount
    /\ \/ row.status = "PENDING" /\ row.old
       \/ row.status \in {"OVERRIDE_CLEARED", "AWAITING_REVIEW"}
DuePendingOnly(row) ==
    /\ row.fail_count < MaxFailCount
    /\ row.status = "PENDING" /\ row.old

Due(row) ==
    /\ row.fail_count < MaxFailCount
    /\ \/ row.status = "PENDING" /\ row.old
       \/ row.status = "OVERRIDE_CLEARED"

Collectable(u) == staged[u].status = "TO_DELETE" /\ staged[u].old /\ Holders(u) = {}

Cleanup ==
    /\ enabled
    /\ queue' = Enqueue({u \in rows : Due(staged[u])})
    /\ \E expired \in SUBSET {u \in rows : Collectable(u)} :
           staged' = [u \in rows \ expired |-> staged[u]]
    /\ UNCHANGED <<enabled, uploads, gone, jobs, approving, outcome, approved, disturbed,
                   faults, toggles>>

---------------------------------------------------------------------------
Init ==
    /\ enabled = TRUE
    /\ uploads = [u \in Uploads |-> None]
    /\ staged = [u \in {} |-> {}]
    /\ gone = {}
    /\ queue = [u \in Uploads |-> 0]
    /\ jobs = [w \in Workers |-> Idle]
    /\ approving = [a \in Approvers |-> None]
    /\ published = {} /\ attached = [u \in Uploads |-> 0]
    /\ approved = {} /\ disturbed = {}
    /\ faults = 0 /\ toggles = 0

Convert(w) == PostToDiscord(w) \/ CreateMedia(w) \/ Attach(w) \/ Finish(w) \/ Fail(w)

Next ==
    \/ Toggle \/ Cleanup
    \/ \E u \in Uploads :
           \/ TargetDeleted(u) \/ FiveMinutesPass(u)
           \/ \E via \in Ways : Receive(u, via)
           \/ \E a \in Approvers : FindAwaiting(a, u)
           \/ \E w \in Workers : Take(w, u)
    \/ \E a \in Approvers : Approve(a)
    \/ \E w \in Workers : Convert(w) \/ Kill(w)

Spec == Init /\ [][Next]_vars

(* Beat runs the cleanup every minute, workers finish what they started,    *)
(* and the broker's queue is FIFO: a queued task is taken if workers keep   *)
(* becoming free.  Users, admins, failures and kills are not fair.          *)
Fairness ==
    /\ WF_vars(Cleanup)
    /\ \A u \in Uploads :
           WF_vars(FiveMinutesPass(u)) /\ SF_vars(\E w \in Workers : Take(w, u))
    /\ \A w \in Workers : WF_vars(Convert(w))

FairSpec == Spec /\ Fairness

---------------------------------------------------------------------------
(* The columns, the copies and the counters stay in their types.            *)
TypeOK ==
    /\ enabled \in BOOLEAN
    /\ uploads \in [Uploads -> Upload \cup {None}]
    /\ rows \subseteq Uploads /\ staged \in [rows -> TemporaryMedia]
    /\ gone \subseteq Uploads /\ approved \subseteq Uploads /\ disturbed \subseteq Uploads
    /\ queue \in [Uploads -> 0 .. MaxQueued]
    /\ jobs \in [Workers -> Job \cup {Idle}]
    /\ approving \in [Approvers -> Uploads \cup {None}]
    /\ published \subseteq Uploads /\ attached \in [Uploads -> 0 .. 2]
    /\ faults \in 0 .. MaxFaults /\ toggles \in 0 .. MaxToggles

(* A video whose sender was told that it awaits review is published only    *)
(* after an admin has approved it, whatever is queued, retried or overlaps. *)
ReviewGate ==
    \A u \in Uploads :
        uploads[u] # None /\ uploads[u].reply = "review" /\ u \in published => u \in approved

(* An approval is never undone: no worker saves a copy of the row that was  *)
(* loaded before the approval, which would put the video back into review.  *)
ApprovalIsKept ==
    \A u \in approved \cap rows : staged[u].status \in {"OVERRIDE_CLEARED", "TO_DELETE"}

(* Staged files are dropped only when a Media row has been created for them.*)
DroppedWasPublished ==
    \A u \in Uploads :
        uploads[u] # None /\ (u \in rows => staged[u].status = "TO_DELETE") => u \in published

(* Tasks queued twice, by the signal, an approval and the cleanup, publish  *)
(* a medium once as long as they do not overlap and none is killed.         *)
AttachedOnce == \A u \in Uploads \ disturbed : attached[u] <= 1

(* Once uploads stay enabled, a row that is pending or approved is worked   *)
(* on until it is done or its failures are used up: no dropped task, kill   *)
(* or stale save loses it.                                                  *)
Settled(u) == u \notin rows \/ staged[u].status = "TO_DELETE" \/ staged[u].fail_count >= MaxFailCount
PendingIsSettled ==
    <>[] enabled =>
        \A u \in Uploads :
            (u \in rows /\ staged[u].status \in {"PENDING", "OVERRIDE_CLEARED"}) ~> Settled(u)

(* telegram_provider/handlers.py:861-862 tells the user "Media received,    *)
(* but uploads are currently disabled. It will be published once uploads    *)
(* are re-enabled."                                                         *)
PublishedOnceEnabled ==
    <>[] enabled =>
        \A u \in Uploads : (uploads[u] # None /\ uploads[u].reply = "later") ~> Settled(u)

---------------------------------------------------------------------------
===========================================================================
