------------------------ MODULE MediaPipelineProofs ------------------------
(* Proofs about MediaPipeline, for any number of uploads, workers and       *)
(* handlers of /approve, and every bound.                                   *)
EXTENDS MediaPipeline, TLAPS

(* What was not uploaded is nowhere.                                        *)
UnknownIsNowhere ==
    \A u \in Uploads : uploads[u] = None =>
        /\ u \notin rows /\ queue[u] = 0 /\ u \notin approved /\ u \notin published
        /\ \A w \in Workers : jobs[w] # Idle => jobs[w].id # u
        /\ \A a \in Approvers : approving[a] # u

(* The strengthening of ReviewGate: until an admin approves it, no task and *)
(* no worker has a reviewed upload, so nobody can save its row or post it.  *)
AwaitingIsUntouched ==
    \A u \in Uploads :
        (uploads[u] # None /\ uploads[u].reply = "review" /\ u \notin approved) =>
            /\ queue[u] = 0 /\ u \notin published
            /\ \A w \in Workers : jobs[w] # Idle => jobs[w].id # u
            /\ u \in rows => staged[u].status = "AWAITING_REVIEW"

(* A row in review is one whose sender was told so, and not approved; an    *)
(* /approve holds such an upload, approved by another meanwhile or not.     *)
AwaitingIsReviewed ==
    /\ \A u \in rows : staged[u].status = "AWAITING_REVIEW" =>
          uploads[u].reply = "review" /\ u \notin approved
    /\ \A a \in Approvers : approving[a] # None => uploads[approving[a]].reply = "review"

(* What a worker holds: a copy it may save without undoing an approval, and *)
(* with which a finished row was published.                                 *)
CopiesAreSafe ==
    \A w \in Workers : jobs[w] # Idle =>
        /\ jobs[w].copy.status \notin {"AWAITING_REVIEW", "TO_DELETE"}
        /\ jobs[w].id \in approved => jobs[w].copy.status = "OVERRIDE_CLEARED"
        /\ jobs[w].stage \in {"attach", "finish"} => jobs[w].id \in published

Inv ==
    /\ TypeOK /\ UnknownIsNowhere /\ AwaitingIsUntouched /\ AwaitingIsReviewed
    /\ CopiesAreSafe /\ ApprovalIsKept /\ DroppedWasPublished

---------------------------------------------------------------------------
(* Saving a row of the right type keeps the table a table.                  *)
LEMMA SaveFits ==
    ASSUME TypeOK, NEW u \in Uploads, NEW row \in TemporaryMedia, staged' = Save(u, row)
    PROVE  /\ rows' = rows \cup {u} /\ rows' \subseteq Uploads
           /\ staged' \in [rows' -> TemporaryMedia]
           /\ \A v \in rows' : staged'[v] = IF v = u THEN row ELSE staged[v]
<1>1. rows' = rows \cup {u}
  BY DEF Save, rows
<1>2. staged' = [v \in rows' |-> IF v = u THEN row ELSE staged[v]]
  BY <1>1 DEF Save
<1>3. \A v \in rows : staged[v] \in TemporaryMedia
  BY DEF TypeOK
<1> QED
  BY <1>1, <1>2, <1>3 DEF TypeOK

(* Enqueueing counts for the rows it names and for no other.                *)
LEMMA EnqueueFits ==
    ASSUME TypeOK, NEW ids
    PROVE  /\ Enqueue(ids) \in [Uploads -> 0 .. MaxQueued]
           /\ \A u \in Uploads : u \notin ids => Enqueue(ids)[u] = queue[u]
BY ConstantsAssumption DEF Enqueue, TypeOK

(* A worker that is not idle has a job.                                     *)
LEMMA JobFits ==
    ASSUME TypeOK, NEW w \in Workers, jobs[w] # Idle
    PROVE  /\ jobs[w] \in Job /\ jobs[w].id \in Uploads /\ jobs[w].copy \in TemporaryMedia
BY DEF TypeOK, Job

(* Every step of the pipeline keeps the rows and the copies well formed.    *)
LEMMA TypesKept ==
    ASSUME TypeOK, Next
    PROVE  TypeOK'
<1> USE ConstantsAssumption DEF TypeOK, rowVars, outcome, rows
<1>1. CASE Toggle
  BY <1>1 DEF Toggle
<1>2. CASE Cleanup
  <2>1. queue' \in [Uploads -> 0 .. MaxQueued]
    BY <1>2, EnqueueFits DEF Cleanup
  <2> QED
    BY <1>2, <2>1 DEF Cleanup
<1>3. CASE \E u \in Uploads : TargetDeleted(u)
  BY <1>3 DEF TargetDeleted
<1>4. CASE \E u \in Uploads : FiveMinutesPass(u)
  <2> PICK u \in Uploads : FiveMinutesPass(u)
    BY <1>4
  <2>1. [staged[u] EXCEPT !.old = TRUE] \in TemporaryMedia
    BY DEF FiveMinutesPass, TemporaryMedia
  <2>2. rows' = rows /\ staged' \in [rows -> TemporaryMedia]
    BY <2>1 DEF FiveMinutesPass
  <2> QED
    BY <2>2 DEF FiveMinutesPass
<1>5. CASE \E u \in Uploads, via \in Ways : Receive(u, via)
  <2> PICK u \in Uploads, via \in Ways : Receive(u, via)
    BY <1>5
  <2> PICK trusted \in BOOLEAN, cleared \in BOOLEAN :
        LET status == StatusAtUpload(via, trusted) IN
        /\ cleared = trusted \/ ClearancesChange
        /\ staged' = Save(u, [status |-> StatusAfterSignal(status, cleared),
                              fail_count |-> 0, old |-> FALSE, discord |-> "no"])
        /\ queue' = Enqueue(IF SignalQueues(status, cleared) THEN {u} ELSE {})
        /\ uploads' = [uploads EXCEPT ![u] = [via |-> via, reply |-> Reply(via, status)]]
    BY DEF Receive
  <2> DEFINE status == StatusAtUpload(via, trusted)
             row == [status |-> StatusAfterSignal(status, cleared),
                     fail_count |-> 0, old |-> FALSE, discord |-> "no"]
  <2>1. row \in TemporaryMedia
    BY DEF TemporaryMedia, Statuses, StatusAtUpload, StatusAfterSignal, FromBot
  <2>2. rows' \subseteq Uploads /\ staged' \in [rows' -> TemporaryMedia]
    BY <2>1, SaveFits
  <2>3. queue' \in [Uploads -> 0 .. MaxQueued]
    BY EnqueueFits
  <2>4. [via |-> via, reply |-> Reply(via, status)] \in Upload
    BY DEF Upload, Reply, FromBot
  <2> QED
    BY <2>2, <2>3, <2>4 DEF Receive
<1>6. CASE \E u \in Uploads, a \in Approvers : FindAwaiting(a, u)
  BY <1>6 DEF FindAwaiting, Disturb
<1>7. CASE \E u \in Uploads, w \in Workers : Take(w, u)
  <2> PICK u \in Uploads, w \in Workers : Take(w, u)
    BY <1>7
  <2>1. queue' \in [Uploads -> 0 .. MaxQueued]
    BY DEF Take
  <2>2. jobs' \in [Workers -> Job \cup {Idle}]
    <3>1. CASE enabled /\ ~ Skipped(staged[u])
      <4>1. [id |-> u, copy |-> staged[u], stage |-> "post"] \in Job
        BY <3>1 DEF Take, Job
      <4> QED
        BY <3>1, <4>1 DEF Take
    <3>2. CASE ~ (enabled /\ ~ Skipped(staged[u]))
      BY <3>2 DEF Take
    <3> QED
      BY <3>1, <3>2
  <2> QED
    BY <2>1, <2>2 DEF Take, Disturb
<1>8. CASE \E a \in Approvers : Approve(a)
  <2> PICK a \in Approvers : Approve(a)
    BY <1>8
  <2>1. queue' \in [Uploads -> 0 .. MaxQueued]
    BY EnqueueFits DEF Approve
  <2>2. rows' = rows /\ staged' \in [rows -> TemporaryMedia]
    BY DEF Approve, TemporaryMedia, Statuses
  <2> QED
    BY <2>1, <2>2 DEF Approve
<1>9. CASE \E w \in Workers : PostToDiscord(w)
  <2> PICK w \in Workers : PostToDiscord(w)
    BY <1>9
  <2>1. PICK answer \in {"ok", "bad"} :
           /\ answer = "bad" => faults < MaxFaults /\ jobs[w].copy.discord = "no"
           /\ faults' = IF answer = "bad" THEN faults + 1 ELSE faults
           /\ IF jobs[w].copy.discord = "no"
              THEN LET saved == [jobs[w].copy EXCEPT !.discord = answer] IN
                   /\ staged' = Save(jobs[w].id, saved)
                   /\ jobs' = [jobs EXCEPT ![w].copy = saved, ![w].stage = "create"]
              ELSE /\ jobs' = [jobs EXCEPT ![w].stage = "create"]
                   /\ UNCHANGED staged
    BY DEF PostToDiscord
  <2> DEFINE saved == [jobs[w].copy EXCEPT !.discord = answer]
  <2>2. jobs[w] \in Job /\ jobs[w].id \in Uploads /\ saved \in TemporaryMedia
    BY JobFits DEF PostToDiscord, At, TemporaryMedia
  <2>3. rows' \subseteq Uploads /\ staged' \in [rows' -> TemporaryMedia]
    BY <2>1, <2>2, SaveFits
  <2>4. jobs' \in [Workers -> Job \cup {Idle}]
    BY <2>1, <2>2 DEF Job
  <2>5. faults' \in 0 .. MaxFaults
    BY <2>1
  <2> QED
    BY <2>3, <2>4, <2>5 DEF PostToDiscord
<1>10. CASE \E w \in Workers : CreateMedia(w)
  BY <1>10, JobFits DEF CreateMedia, At, Job
<1>11. CASE \E w \in Workers : Attach(w)
  BY <1>11, JobFits DEF Attach, At, Job, UpTo
<1>12. CASE \E w \in Workers : Finish(w)
  <2> PICK w \in Workers : Finish(w)
    BY <1>12
  <2>1. jobs[w].id \in Uploads /\ [jobs[w].copy EXCEPT !.status = "TO_DELETE"] \in TemporaryMedia
    BY JobFits DEF Finish, At, TemporaryMedia, Statuses
  <2>2. rows' \subseteq Uploads /\ staged' \in [rows' -> TemporaryMedia]
    BY <2>1, SaveFits DEF Finish
  <2> QED
    BY <2>2 DEF Finish
<1>13. CASE \E w \in Workers : Fail(w)
  <2> PICK w \in Workers : Fail(w)
    BY <1>13
  <2> DEFINE row == [jobs[w].copy EXCEPT !.fail_count = UpTo(MaxFailCount, @ + 1)]
  <2>1. jobs[w].id \in Uploads /\ row \in TemporaryMedia
    BY JobFits DEF Fail, At, MustFail, TemporaryMedia, UpTo
  <2>2. rows' \subseteq Uploads /\ staged' \in [rows' -> TemporaryMedia]
    BY <2>1, SaveFits DEF Fail
  <2> QED
    BY <2>2 DEF Fail
<1>14. CASE \E w \in Workers : Kill(w)
  BY <1>14, JobFits DEF Kill
<1> QED
  BY <1>1, <1>2, <1>3, <1>4, <1>5, <1>6, <1>7, <1>8, <1>9, <1>10, <1>11, <1>12, <1>13, <1>14
     DEF Next, Convert

---------------------------------------------------------------------------
(* What the invariant says beyond the types.                                *)
Safe ==
    /\ UnknownIsNowhere /\ AwaitingIsUntouched /\ AwaitingIsReviewed
    /\ CopiesAreSafe /\ ApprovalIsKept /\ DroppedWasPublished

(* A row saved for an upload that is known, not in review and, if approved, *)
(* as approved, disturbs none of the parts that are about rows.             *)
LEMMA SaveIsSafe ==
    ASSUME TypeOK, Safe, NEW w \in Workers, jobs[w] # Idle, NEW row \in TemporaryMedia,
           staged' = Save(jobs[w].id, row),
           \/ row.status = jobs[w].copy.status
           \/ row.status = "TO_DELETE" /\ jobs[w].id \in published,
           UNCHANGED <<uploads, queue, approving, published, approved>>,
           \A x \in Workers : jobs'[x] # Idle => jobs[x] # Idle /\ jobs'[x].id = jobs[x].id
    PROVE  (UnknownIsNowhere /\ AwaitingIsUntouched /\ AwaitingIsReviewed
            /\ ApprovalIsKept /\ DroppedWasPublished)'
<1> USE ConstantsAssumption DEF Safe, UnknownIsNowhere, AwaitingIsUntouched, CopiesAreSafe
<1> DEFINE u == jobs[w].id
<1>1. u \in Uploads /\ uploads[u] # None
  BY JobFits
<1>2. /\ rows' = rows \cup {u} /\ rows' \subseteq Uploads
      /\ \A v \in rows' : staged'[v] = IF v = u THEN row ELSE staged[v]
  BY <1>1, SaveFits
<1>3. row.status # "AWAITING_REVIEW"
  OBVIOUS
<1>4. UnknownIsNowhere'
  BY <1>1, <1>2
<1>5. AwaitingIsUntouched'
  BY <1>2
<1>6. AwaitingIsReviewed'
  BY <1>2, <1>3 DEF AwaitingIsReviewed
<1>7. ApprovalIsKept'
  BY <1>2 DEF ApprovalIsKept
<1>8. DroppedWasPublished'
  BY <1>2 DEF DroppedWasPublished
<1> QED
  BY <1>4, <1>5, <1>6, <1>7, <1>8

(* What an upload adds: one row, one upload, and tasks for that row only,   *)
(* none if it awaits review.                                                *)
Received(u, row, upload) ==
    /\ row.status # "TO_DELETE"
    /\ upload.reply = "review" <=> row.status = "AWAITING_REVIEW"
    /\ rows' = rows \cup {u}
    /\ \A v \in rows' : staged'[v] = IF v = u THEN row ELSE staged[v]
    /\ \A v \in Uploads : v # u \/ row.status = "AWAITING_REVIEW" => queue'[v] = queue[v]
    /\ uploads' = [uploads EXCEPT ![u] = upload]

(* Receiving an upload is the insertion of one row together with its        *)
(* history; what the signal made of it is in that row.                      *)
LEMMA ReceiveEffect ==
    ASSUME TypeOK, NEW u \in Uploads, NEW via \in Ways, Receive(u, via)
    PROVE  \E row \in TemporaryMedia, upload \in Upload : Received(u, row, upload)
<1> PICK trusted \in BOOLEAN, cleared \in BOOLEAN :
      LET status == StatusAtUpload(via, trusted) IN
      /\ cleared = trusted \/ ClearancesChange
      /\ staged' = Save(u, [status |-> StatusAfterSignal(status, cleared),
                            fail_count |-> 0, old |-> FALSE, discord |-> "no"])
      /\ queue' = Enqueue(IF SignalQueues(status, cleared) THEN {u} ELSE {})
      /\ uploads' = [uploads EXCEPT ![u] = [via |-> via, reply |-> Reply(via, status)]]
  BY DEF Receive
<1> DEFINE status == StatusAtUpload(via, trusted)
           row == [status |-> StatusAfterSignal(status, cleared),
                   fail_count |-> 0, old |-> FALSE, discord |-> "no"]
           upload == [via |-> via, reply |-> Reply(via, status)]
<1>1. row \in TemporaryMedia /\ row.status # "TO_DELETE"
  BY ConstantsAssumption DEF TemporaryMedia, Statuses, StatusAtUpload, StatusAfterSignal, FromBot
<1>2. upload \in Upload
  BY DEF Upload, Reply, FromBot
<1>3. upload.reply = "review" <=> row.status = "AWAITING_REVIEW"
  BY DEF Reply, StatusAtUpload, StatusAfterSignal, FromBot, Ways
<1>4. row.status = "AWAITING_REVIEW" => ~ SignalQueues(status, cleared)
  BY DEF StatusAtUpload, StatusAfterSignal, SignalQueues, FromBot
<1>5. /\ rows' = rows \cup {u}
      /\ \A v \in rows' : staged'[v] = IF v = u THEN row ELSE staged[v]
  BY <1>1, SaveFits
<1>6. \A v \in Uploads : v # u \/ row.status = "AWAITING_REVIEW" => queue'[v] = queue[v]
  BY <1>4, EnqueueFits
<1>7. uploads' = [uploads EXCEPT ![u] = upload]
  OBVIOUS
<1> HIDE DEF row, upload, status
<1>8. Received(u, row, upload)
  BY <1>1, <1>3, <1>5, <1>6, <1>7 DEF Received
<1> QED
  BY <1>1, <1>2, <1>8

(* The three steps of a conversion that save the copy.                      *)
LEMMA SavesKept ==
    ASSUME TypeOK, Safe, NEW w \in Workers, PostToDiscord(w) \/ Finish(w) \/ Fail(w)
    PROVE  Safe'
<1>1. CASE PostToDiscord(w)
  <2>1. /\ jobs[w] # Idle /\ jobs[w].stage = "post" /\ jobs[w] \in Job
        /\ jobs[w].copy \in TemporaryMedia /\ jobs \in [Workers -> Job \cup {Idle}]
    BY <1>1, JobFits DEF PostToDiscord, At, TypeOK
  <2>2. UNCHANGED <<uploads, queue, approving, published, approved>>
    BY <1>1 DEF PostToDiscord, outcome
  <2>3. CASE jobs[w].copy.discord # "no"
    <3>1. staged' = staged /\ jobs' = [jobs EXCEPT ![w].stage = "create"]
      BY <1>1, <2>3 DEF PostToDiscord
    <3>2. \A x \in Workers : /\ jobs'[x].id = jobs[x].id /\ jobs'[x].copy = jobs[x].copy
                             /\ jobs'[x].stage = IF x = w THEN "create" ELSE jobs[x].stage
                             /\ jobs'[x] # Idle => jobs[x] # Idle
      BY <2>1, <3>1 DEF Job
    <3> QED
      BY <2>2, <3>1, <3>2
         DEF Safe, UnknownIsNowhere, AwaitingIsUntouched, AwaitingIsReviewed, CopiesAreSafe,
             ApprovalIsKept, DroppedWasPublished, rows
  <2>4. CASE jobs[w].copy.discord = "no"
    <3> PICK answer \in {"ok", "bad"} :
          LET saved == [jobs[w].copy EXCEPT !.discord = answer] IN
          /\ staged' = Save(jobs[w].id, saved)
          /\ jobs' = [jobs EXCEPT ![w].copy = saved, ![w].stage = "create"]
      BY <1>1, <2>4 DEF PostToDiscord
    <3> DEFINE saved == [jobs[w].copy EXCEPT !.discord = answer]
    <3>1. saved \in TemporaryMedia /\ saved.status = jobs[w].copy.status
      BY <2>1 DEF TemporaryMedia
    <3>2. jobs'[w] = [jobs[w] EXCEPT !.copy = saved, !.stage = "create"]
          /\ \A x \in Workers : x # w => jobs'[x] = jobs[x]
      BY <2>1
    <3>3. jobs'[w].copy = saved /\ jobs'[w].stage = "create" /\ jobs'[w].id = jobs[w].id
      BY <2>1, <3>2 DEF Job
    <3>4. \A x \in Workers : jobs'[x] # Idle => jobs[x] # Idle /\ jobs'[x].id = jobs[x].id
      BY <2>1, <3>2, <3>3
    <3>5. CopiesAreSafe'
      BY <2>1, <2>2, <3>1, <3>2, <3>3 DEF Safe, CopiesAreSafe
    <3>6. staged' = Save(jobs[w].id, saved)
      OBVIOUS
    <3> HIDE DEF saved
    <3>7. (UnknownIsNowhere /\ AwaitingIsUntouched /\ AwaitingIsReviewed
           /\ ApprovalIsKept /\ DroppedWasPublished)'
      BY <2>1, <2>2, <3>1, <3>4, <3>6, SaveIsSafe
    <3> QED
      BY <3>5, <3>7 DEF Safe
  <2> QED
    BY <2>3, <2>4
<1>2. CASE Finish(w)
  <2> DEFINE row == [jobs[w].copy EXCEPT !.status = "TO_DELETE"]
  <2>1. jobs[w] # Idle /\ jobs[w].id \in published
    BY <1>2 DEF Finish, At, Safe, CopiesAreSafe
  <2>2. row \in TemporaryMedia /\ row.status = "TO_DELETE"
    BY <2>1, JobFits DEF TemporaryMedia, Statuses
  <2>3. staged' = Save(jobs[w].id, row) /\ UNCHANGED <<uploads, queue, approving, published, approved>>
    BY <1>2 DEF Finish, outcome
  <2>4. \A x \in Workers : jobs'[x] # Idle => jobs'[x] = jobs[x]
    BY <1>2 DEF Finish, TypeOK
  <2>5. CopiesAreSafe'
    BY <2>3, <2>4 DEF Safe, CopiesAreSafe
  <2> HIDE DEF row
  <2> QED
    BY <2>1, <2>2, <2>3, <2>4, <2>5, SaveIsSafe DEF Safe
<1>3. CASE Fail(w)
  <2> DEFINE row == [jobs[w].copy EXCEPT !.fail_count = UpTo(MaxFailCount, @ + 1)]
  <2>1. jobs[w] # Idle
    BY <1>3 DEF Fail, At, MustFail
  <2>2. row \in TemporaryMedia /\ row.status = jobs[w].copy.status
    BY <2>1, JobFits, ConstantsAssumption DEF TemporaryMedia, UpTo
  <2>3. staged' = Save(jobs[w].id, row) /\ UNCHANGED <<uploads, queue, approving, published, approved>>
    BY <1>3 DEF Fail, outcome
  <2>4. \A x \in Workers : jobs'[x] # Idle => jobs'[x] = jobs[x]
    BY <1>3 DEF Fail, TypeOK
  <2>5. CopiesAreSafe'
    BY <2>3, <2>4 DEF Safe, CopiesAreSafe
  <2> HIDE DEF row
  <2>6. (UnknownIsNowhere /\ AwaitingIsUntouched /\ AwaitingIsReviewed
         /\ ApprovalIsKept /\ DroppedWasPublished)'
    BY <2>1, <2>2, <2>3, <2>4, SaveIsSafe
  <2> QED
    BY <2>5, <2>6 DEF Safe
<1> QED
  BY <1>1, <1>2, <1>3

(* Every step keeps the safe states safe.                                   *)
LEMMA SafetyKept ==
    ASSUME TypeOK, TypeOK', Safe, Next
    PROVE  Safe'
<1> USE ConstantsAssumption, NoneAssumption
    DEF Safe, UnknownIsNowhere, AwaitingIsUntouched, AwaitingIsReviewed, CopiesAreSafe,
        ApprovalIsKept, DroppedWasPublished, rowVars, outcome, TypeOK
<1>1. CASE Toggle
  BY <1>1 DEF Toggle
<1>2. CASE Cleanup
  <2>1. /\ rows' \subseteq rows /\ \A u \in rows' : staged'[u] = staged[u]
        /\ \A u \in rows \ rows' : Collectable(u)
    BY <1>2 DEF Cleanup
  <2>2. \A u \in Uploads : queue'[u] # queue[u] => u \in rows /\ staged[u].status # "AWAITING_REVIEW"
    BY <1>2, EnqueueFits DEF Cleanup, Due
  <2>3. UnknownIsNowhere'
    BY <1>2, <2>1, <2>2 DEF Cleanup
  <2>4. AwaitingIsUntouched'
    BY <1>2, <2>1, <2>2 DEF Cleanup
  <2>5. AwaitingIsReviewed' /\ CopiesAreSafe' /\ ApprovalIsKept'
    BY <1>2, <2>1 DEF Cleanup
  <2>6. DroppedWasPublished'
    BY <1>2, <2>1 DEF Cleanup, Collectable
  <2> QED
    BY <2>3, <2>4, <2>5, <2>6
<1>3. CASE \E u \in Uploads : TargetDeleted(u)
  BY <1>3 DEF TargetDeleted
<1>4. CASE \E u \in Uploads : FiveMinutesPass(u)
  BY <1>4 DEF FiveMinutesPass
<1>5. CASE \E u \in Uploads, via \in Ways : Receive(u, via)
  <2> PICK u \in Uploads, via \in Ways : Receive(u, via)
    BY <1>5
  <2>1. UNCHANGED <<jobs, approving, published, approved>> /\ uploads[u] = None
    BY DEF Receive
  <2> PICK row \in TemporaryMedia, upload \in Upload : Received(u, row, upload)
    BY ReceiveEffect
  <2>2. upload # None /\ \A v \in Uploads : uploads'[v] = IF v = u THEN upload ELSE uploads[v]
    BY DEF Received
  <2>3. UnknownIsNowhere'
    BY <2>1, <2>2 DEF Received
  <2>4. AwaitingIsUntouched'
    BY <2>1, <2>2 DEF Received
  <2>5. AwaitingIsReviewed'
    BY <2>1, <2>2 DEF Received
  <2>6. CopiesAreSafe'
    BY <2>1
  <2>7. ApprovalIsKept' /\ DroppedWasPublished'
    BY <2>1, <2>2 DEF Received
  <2> QED
    BY <2>3, <2>4, <2>5, <2>6, <2>7
<1>6. CASE \E u \in Uploads, a \in Approvers : FindAwaiting(a, u)
  BY <1>6 DEF FindAwaiting
<1>7. CASE \E u \in Uploads, w \in Workers : Take(w, u)
  BY <1>7 DEF Take, Skipped
<1>8. CASE \E a \in Approvers : Approve(a)
  <2> PICK a \in Approvers : Approve(a)
    BY <1>8
  <2> DEFINE u == approving[a]
  <2>1. u \in Uploads /\ u \in rows /\ uploads[u].reply = "review" /\ uploads[u] # None
    BY DEF Approve
  <2>2. \A v \in Uploads : v # u => queue'[v] = queue[v]
    BY EnqueueFits DEF Approve
  <2>3. /\ rows' = rows /\ staged'[u].status = "OVERRIDE_CLEARED"
        /\ \A v \in rows : v # u => staged'[v] = staged[v]
    BY <2>1 DEF Approve
  <2>4. approved' = approved \cup {u} /\ UNCHANGED <<uploads, jobs, published>>
    BY DEF Approve
  <2>5. \A b \in Approvers : approving'[b] = IF b = a THEN None ELSE approving[b]
    BY DEF Approve
  <2> HIDE DEF u
  <2>6. UnknownIsNowhere'
    BY <2>1, <2>2, <2>3, <2>4, <2>5
  <2>7. AwaitingIsUntouched'
    BY <2>1, <2>2, <2>3, <2>4
  <2>8. AwaitingIsReviewed'
    BY <2>1, <2>3, <2>4, <2>5
  <2>9. CopiesAreSafe'
    BY <2>1, <2>4, JobFits
  <2>10. ApprovalIsKept' /\ DroppedWasPublished'
    BY <2>1, <2>3, <2>4
  <2> QED
    BY <2>6, <2>7, <2>8, <2>9, <2>10
<1>9. CASE \E w \in Workers : PostToDiscord(w) \/ Finish(w) \/ Fail(w)
  BY <1>9, SavesKept
<1>10. CASE \E w \in Workers : CreateMedia(w)
  BY <1>10 DEF CreateMedia, At
<1>11. CASE \E w \in Workers : Attach(w)
  BY <1>11 DEF Attach, At
<1>12. CASE \E w \in Workers : Kill(w)
  BY <1>12 DEF Kill
<1> QED
  BY <1>1, <1>2, <1>3, <1>4, <1>5, <1>6, <1>7, <1>8, <1>9, <1>10, <1>11, <1>12 DEF Next, Convert

(* The invariant holds initially and every step keeps it.                   *)
THEOREM MediaInvariant == Spec => []Inv
<1>1. Init => Inv
  <2> SUFFICES ASSUME Init PROVE Inv
    OBVIOUS
  <2>1. TypeOK
    BY ConstantsAssumption DEF Init, TypeOK, rows
  <2>2. Safe
    BY ConstantsAssumption DEF Init, Safe, UnknownIsNowhere, AwaitingIsUntouched,
       AwaitingIsReviewed, CopiesAreSafe, ApprovalIsKept, DroppedWasPublished, rows, Idle
  <2> QED
    BY <2>1, <2>2 DEF Inv, Safe
<1>2. Inv /\ [Next]_vars => Inv'
  <2> SUFFICES ASSUME Inv, [Next]_vars PROVE Inv'
    OBVIOUS
  <2>1. CASE Next
    BY <2>1, TypesKept, SafetyKept DEF Inv, Safe
  <2>2. CASE UNCHANGED vars
    BY <2>2 DEF vars, Inv, TypeOK, UnknownIsNowhere, AwaitingIsUntouched,
       AwaitingIsReviewed, CopiesAreSafe, ApprovalIsKept, DroppedWasPublished, rows
  <2> QED
    BY <2>1, <2>2
<1> QED
  BY <1>1, <1>2, PTL DEF Spec

(* tasks.py and the bot: the table, the copies of the workers and the       *)
(* counters keep their types, whatever overlaps.                            *)
THEOREM TypesHold == Spec => []TypeOK
BY MediaInvariant, PTL DEF Inv

(* handlers.py 869-933 against tasks.py 98-309: what awaits review is       *)
(* published only after an approval.                                        *)
THEOREM NothingUnreviewed == Spec => []ReviewGate
<1>1. Inv => ReviewGate
  BY DEF Inv, TypeOK, ReviewGate, AwaitingIsUntouched
<1> QED
  BY <1>1, MediaInvariant, PTL

(* tasks.py 274 saves the whole row: no approval is overwritten by it.      *)
THEOREM ApprovalsStay == Spec => []ApprovalIsKept
BY MediaInvariant, PTL DEF Inv

(* tasks.py 306-309: the cleanup deletes no file that was not published.    *)
THEOREM NoFileDroppedUnpublished == Spec => []DroppedWasPublished
BY MediaInvariant, PTL DEF Inv

---------------------------------------------------------------------------
(* A medium is attached once.                                               *)

(* An upload that was never disturbed has one handler at most: a conversion *)
(* or an /approve.                                                          *)
HeldAlone ==
    \A u \in Uploads \ disturbed :
        /\ \A w, x \in Converting(u) : w = x
        /\ Converting(u) # {} => \A a \in Approvers : approving[a] # u

(* Once it is attached, nobody approves it, its conversion has only to save *)
(* the row as done, and without a conversion the row says so.               *)
AttachedIsDone ==
    \A u \in Uploads \ disturbed : attached[u] # 0 =>
        /\ attached[u] = 1 /\ uploads[u] # None
        /\ \A a \in Approvers : approving[a] # u
        /\ \A w \in Converting(u) : jobs[w].stage = "finish"
        /\ Converting(u) = {} /\ u \in rows => staged[u].status = "TO_DELETE"

OnceInv == HeldAlone /\ AttachedIsDone

(* A step of a conversion: if the upload is attached after it, then once,   *)
(* and the conversion has only to save the row, or has saved it as done.    *)
LEMMA ConversionAttachesOnce ==
    ASSUME TypeOK, OnceInv, NEW w \in Workers, jobs[w] # Idle, NEW job,
           job # Idle => job.id = jobs[w].id,
           jobs' = [jobs EXCEPT ![w] = job],
           UNCHANGED <<uploads, approving, disturbed>>,
           \A v \in Uploads : v # jobs[w].id =>
               /\ attached'[v] = attached[v]
               /\ v \in rows' => v \in rows /\ staged'[v] = staged[v],
           jobs[w].id \notin disturbed /\ attached'[jobs[w].id] # 0 =>
               /\ attached'[jobs[w].id] = 1 /\ uploads[jobs[w].id] # None
               /\ IF job = Idle THEN staged'[jobs[w].id].status = "TO_DELETE"
                                ELSE job.stage = "finish"
    PROVE  OnceInv'
<1>1. jobs'[w] = job /\ \A x \in Workers : x # w => jobs'[x] = jobs[x]
  BY DEF TypeOK
<1>2. ASSUME NEW u \in Uploads \ disturbed, u # jobs[w].id
      PROVE  Converting(u)' = Converting(u)
  BY <1>1, <1>2 DEF Converting
<1>3. ASSUME NEW u \in Uploads \ disturbed, u = jobs[w].id
      PROVE  /\ Converting(u) = {w}
             /\ \A a \in Approvers : approving[a] # u
             /\ Converting(u)' = IF job = Idle THEN {} ELSE {w}
  <2>1. w \in Converting(u)
    BY <1>3 DEF Converting
  <2>2. Converting(u) = {w} /\ \A a \in Approvers : approving[a] # u
    BY <2>1 DEF OnceInv, HeldAlone
  <2>3. \A x \in Workers : x # w => jobs[x] = Idle \/ jobs[x].id # u
    BY <2>2 DEF Converting
  <2> QED
    BY <1>1, <1>3, <2>2, <2>3 DEF Converting
<1>4. HeldAlone'
  BY <1>2, <1>3 DEF OnceInv, HeldAlone
<1>5. ASSUME NEW u \in Uploads \ disturbed, attached'[u] # 0
      PROVE  /\ attached'[u] = 1 /\ uploads[u] # None
             /\ \A a \in Approvers : approving[a] # u
             /\ \A x \in Converting(u)' : jobs'[x].stage = "finish"
             /\ Converting(u)' = {} /\ u \in rows' => staged'[u].status = "TO_DELETE"
  <2>1. CASE u = jobs[w].id
    BY <1>1, <1>3, <1>5, <2>1
  <2>2. CASE u # jobs[w].id
    <3>1. \A x \in Converting(u) : x # w
      BY <2>2 DEF Converting
    <3> QED
      BY <1>1, <1>2, <1>5, <2>2, <3>1 DEF OnceInv, AttachedIsDone, Converting
  <2> QED
    BY <2>1, <2>2
<1>6. AttachedIsDone'
  BY <1>5 DEF AttachedIsDone
<1> QED
  BY <1>4, <1>6 DEF OnceInv

(* No step of a conversion attaches a second medium to an upload that was   *)
(* left undisturbed.                                                        *)
LEMMA WorkerAttachesOnce ==
    ASSUME TypeOK, UnknownIsNowhere, OnceInv, NEW w \in Workers, Convert(w)
    PROVE  OnceInv'
<1>1. /\ jobs[w] # Idle /\ jobs[w] \in Job /\ jobs[w].id \in Uploads
      /\ jobs[w].copy \in TemporaryMedia
  BY JobFits DEF Convert, PostToDiscord, CreateMedia, Attach, Finish, Fail, At, MustFail
<1>2. w \in Converting(jobs[w].id)
  BY <1>1 DEF Converting
<1>3. \/ jobs[w].id \in disturbed \/ attached[jobs[w].id] = 0
      \/ jobs[w].stage = "finish" /\ attached[jobs[w].id] = 1 /\ uploads[jobs[w].id] # None
  BY <1>1, <1>2 DEF OnceInv, AttachedIsDone
<1>4. CASE PostToDiscord(w)
  <2>1. /\ jobs[w].stage = "post" /\ attached' = attached
        /\ UNCHANGED <<uploads, approving, disturbed>>
    BY <1>4 DEF PostToDiscord, At, outcome
  <2>2. \E job : /\ jobs' = [jobs EXCEPT ![w] = job]
                 /\ job # Idle => job.id = jobs[w].id
    <3>1. CASE jobs[w].copy.discord # "no"
      BY <1>1, <1>4, <3>1 DEF PostToDiscord, Job
    <3>2. CASE jobs[w].copy.discord = "no"
      <4> PICK answer \in {"ok", "bad"} :
            LET saved == [jobs[w].copy EXCEPT !.discord = answer] IN
            jobs' = [jobs EXCEPT ![w].copy = saved, ![w].stage = "create"]
        BY <1>4, <3>2 DEF PostToDiscord
      <4> DEFINE saved == [jobs[w].copy EXCEPT !.discord = answer]
                 job == [jobs[w] EXCEPT !.copy = saved, !.stage = "create"]
      <4>1. job.id = jobs[w].id
        BY <1>1 DEF Job
      <4>2. jobs' = [jobs EXCEPT ![w] = job]
        BY DEF TypeOK
      <4> QED
        BY <4>1, <4>2
    <3> QED
      BY <3>1, <3>2
  <2>3. \A v \in Uploads : v # jobs[w].id /\ v \in rows' => v \in rows /\ staged'[v] = staged[v]
    <3>1. CASE UNCHANGED staged
      BY <3>1 DEF rows
    <3>2. ASSUME NEW row, staged' = Save(jobs[w].id, row)
          PROVE  <2>3
      BY <3>2 DEF Save, rows
    <3> QED
      BY <1>4, <3>1, <3>2 DEF PostToDiscord
  <2> QED
    BY <1>1, <1>3, <2>1, <2>2, <2>3, ConversionAttachesOnce
<1>5. CASE CreateMedia(w)
  <2> DEFINE job == [jobs[w] EXCEPT !.stage = "attach"]
  <2>1. /\ jobs' = [jobs EXCEPT ![w] = job] /\ job.id = jobs[w].id
        /\ jobs[w].stage = "create" /\ staged' = staged /\ rows' = rows /\ attached' = attached
        /\ UNCHANGED <<uploads, approving, disturbed>>
    BY <1>1, <1>5 DEF CreateMedia, At, rowVars, rows, Job
  <2> HIDE DEF job
  <2> QED
    BY <1>1, <1>3, <2>1, ConversionAttachesOnce
<1>6. CASE Attach(w)
  <2> DEFINE job == [jobs[w] EXCEPT !.stage = "finish"]
  <2>1. /\ jobs' = [jobs EXCEPT ![w] = job] /\ job.id = jobs[w].id /\ job.stage = "finish"
        /\ job # Idle
        /\ jobs[w].stage = "attach" /\ staged' = staged /\ rows' = rows
        /\ UNCHANGED <<uploads, approving, disturbed>>
    BY <1>1, <1>6 DEF Attach, At, rowVars, rows, Job, Idle
  <2>2. /\ \A v \in Uploads : v # jobs[w].id => attached'[v] = attached[v]
        /\ attached'[jobs[w].id] # 0 /\ attached[jobs[w].id] = 0 => attached'[jobs[w].id] = 1
    BY <1>1, <1>6 DEF Attach, UpTo, TypeOK
  <2>3. uploads[jobs[w].id] # None
    BY <1>1 DEF UnknownIsNowhere
  <2> HIDE DEF job
  <2> QED
    BY <1>1, <1>3, <2>1, <2>2, <2>3, ConversionAttachesOnce
<1>7. CASE Finish(w)
  <2> DEFINE row == [jobs[w].copy EXCEPT !.status = "TO_DELETE"]
  <2>1. /\ jobs' = [jobs EXCEPT ![w] = Idle] /\ staged' = Save(jobs[w].id, row)
        /\ attached' = attached /\ UNCHANGED <<uploads, approving, disturbed>>
    BY <1>7 DEF Finish, outcome
  <2>2. row.status = "TO_DELETE"
    BY <1>1 DEF TemporaryMedia
  <2> HIDE DEF row
  <2>3. /\ staged'[jobs[w].id].status = "TO_DELETE"
        /\ \A v \in Uploads : v # jobs[w].id /\ v \in rows' => v \in rows /\ staged'[v] = staged[v]
    BY <2>1, <2>2 DEF Save, rows
  <2> QED
    BY <1>1, <1>3, <2>1, <2>3, ConversionAttachesOnce
<1>8. CASE Fail(w)
  <2> DEFINE row == [jobs[w].copy EXCEPT !.fail_count = UpTo(MaxFailCount, @ + 1)]
  <2>1. /\ jobs' = [jobs EXCEPT ![w] = Idle] /\ staged' = Save(jobs[w].id, row)
        /\ attached' = attached /\ UNCHANGED <<uploads, approving, disturbed>>
        /\ jobs[w].stage # "finish"
    BY <1>8 DEF Fail, outcome, At, MustFail
  <2> HIDE DEF row
  <2>2. \A v \in Uploads : v # jobs[w].id /\ v \in rows' => v \in rows /\ staged'[v] = staged[v]
    BY <2>1 DEF Save, rows
  <2> QED
    BY <1>1, <1>3, <2>1, <2>2, ConversionAttachesOnce
<1> QED
  BY <1>4, <1>5, <1>6, <1>7, <1>8 DEF Convert

(* The other steps: who picks up an upload somebody has disturbs it, and    *)
(* what is done is neither picked up again nor approved.                    *)
LEMMA EveryoneAttachesOnce ==
    ASSUME Inv, OnceInv, Next
    PROVE  OnceInv'
<1> USE DEF rowVars, outcome, rows, OnceInv, HeldAlone, AttachedIsDone
<1>0. TypeOK /\ UnknownIsNowhere
  BY DEF Inv
<1>1. CASE Toggle
  BY <1>1 DEF Toggle, Converting
<1>2. CASE Cleanup
  BY <1>2 DEF Cleanup, Converting
<1>3. CASE \E u \in Uploads : TargetDeleted(u)
  BY <1>3 DEF TargetDeleted, Converting
<1>4. CASE \E u \in Uploads : FiveMinutesPass(u)
  <2> PICK u \in Uploads : FiveMinutesPass(u)
    BY <1>4
  <2>1. staged[u] \in TemporaryMedia
    BY <1>0 DEF FiveMinutesPass, TypeOK
  <2>2. rows' = rows /\ \A v \in rows : staged'[v].status = staged[v].status
    BY <2>1 DEF FiveMinutesPass, TemporaryMedia
  <2>3. UNCHANGED <<uploads, jobs, approving, attached, disturbed>>
    BY DEF FiveMinutesPass
  <2> QED
    BY <2>2, <2>3 DEF Converting
<1>5. CASE \E u \in Uploads, via \in Ways : Receive(u, via)
  <2> PICK u \in Uploads, via \in Ways : Receive(u, via)
    BY <1>5
  <2>1. uploads[u] = None /\ UNCHANGED <<jobs, approving, attached, disturbed>>
    BY DEF Receive
  <2> PICK row \in TemporaryMedia, upload \in Upload : Received(u, row, upload)
    BY <1>0, ReceiveEffect
  <2>2. /\ \A v \in Uploads : v # u => uploads'[v] = uploads[v]
        /\ \A v \in rows' : v # u => v \in rows /\ staged'[v] = staged[v]
    BY <1>0 DEF Received, TypeOK
  <2>3. u \notin disturbed => attached[u] = 0
    BY <2>1
  <2> QED
    BY <2>1, <2>2, <2>3 DEF Converting
<1>6. CASE \E u \in Uploads, a \in Approvers : FindAwaiting(a, u)
  <2> PICK u \in Uploads, a \in Approvers : FindAwaiting(a, u)
    BY <1>6
  <2>1. /\ approving' = [approving EXCEPT ![a] = u]
        /\ u \in rows /\ staged[u].status = "AWAITING_REVIEW"
        /\ disturbed \subseteq disturbed' /\ (u \notin disturbed' => Holders(u) = {})
        /\ UNCHANGED <<uploads, staged, jobs, attached>>
    BY DEF FindAwaiting, Disturb
  <2>2. u \notin disturbed' => Converting(u) = {} /\ attached[u] = 0
    BY <2>1 DEF Holders
  <2>3. \A b \in Approvers : approving'[b] = IF b = a THEN u ELSE approving[b]
    BY <1>0, <2>1 DEF TypeOK
  <2> QED
    BY <2>1, <2>2, <2>3 DEF Converting
<1>7. CASE \E u \in Uploads, w \in Workers : Take(w, u)
  <2> PICK u \in Uploads, w \in Workers : Take(w, u)
    BY <1>7
  <2>1. CASE UNCHANGED <<jobs, disturbed>>
    BY <2>1 DEF Take, Converting
  <2>2. CASE ~ UNCHANGED <<jobs, disturbed>>
    <3> DEFINE job == [id |-> u, copy |-> staged[u], stage |-> "post"]
    <3>1. /\ jobs' = [jobs EXCEPT ![w] = job]
          /\ u \in rows /\ staged[u].status # "TO_DELETE"
          /\ disturbed \subseteq disturbed' /\ (u \notin disturbed' => Holders(u) = {})
          /\ UNCHANGED <<uploads, staged, approving, attached>>
      BY <2>2 DEF Take, Skipped, Disturb
    <3>2. u \notin disturbed' =>
            /\ Converting(u) = {} /\ attached[u] = 0
            /\ \A a \in Approvers : approving[a] # u
      BY <3>1 DEF Holders
    <3>3. job.id = u /\ jobs[w] = Idle
      BY DEF Take
    <3> HIDE DEF job
    <3>4. \A x \in Workers : jobs'[x] = IF x = w THEN job ELSE jobs[x]
      BY <1>0, <3>1 DEF TypeOK
    <3>5. /\ \A v \in Uploads : v # u => Converting(v)' = Converting(v)
          /\ \A v \in Uploads : \A x \in Converting(v) : jobs'[x] = jobs[x]
          /\ u \notin disturbed' => Converting(u)' \subseteq {w}
      BY <3>2, <3>3, <3>4 DEF Converting
    <3> QED
      BY <3>1, <3>2, <3>5
  <2> QED
    BY <2>1, <2>2
<1>8. CASE \E a \in Approvers : Approve(a)
  <2> PICK a \in Approvers : Approve(a)
    BY <1>8
  <2> DEFINE u == approving[a]
  <2>1. /\ u \in Uploads /\ u \in rows
        /\ approving' = [approving EXCEPT ![a] = None]
        /\ UNCHANGED <<uploads, jobs, attached, disturbed>>
    BY <1>0 DEF Approve, TypeOK
  <2>2. rows' = rows /\ \A v \in rows : v # u => staged'[v] = staged[v]
    BY DEF Approve
  <2>3. u \notin disturbed => attached[u] = 0
    BY <2>1
  <2>4. \A b \in Approvers : approving'[b] \in {None, approving[b]}
    BY <1>0, <2>1 DEF TypeOK
  <2> HIDE DEF u
  <2> QED
    BY <2>1, <2>2, <2>3, <2>4, ConstantsAssumption DEF Converting
<1>9. CASE \E w \in Workers : Convert(w)
  BY <1>0, <1>9, WorkerAttachesOnce
<1>10. CASE \E w \in Workers : Kill(w)
  <2> PICK w \in Workers : Kill(w)
    BY <1>10
  <2>1. \A x \in Workers : jobs'[x] = IF x = w THEN Idle ELSE jobs[x]
    BY <1>0 DEF Kill, TypeOK
  <2>2. /\ \A u \in Uploads \ disturbed' : Converting(u)' = Converting(u)
        /\ \A u \in Uploads \ disturbed' : \A x \in Converting(u) : jobs'[x] = jobs[x]
    BY <2>1 DEF Kill, Converting
  <2> QED
    BY <2>2 DEF Kill
<1> QED
  BY <1>1, <1>2, <1>3, <1>4, <1>5, <1>6, <1>7, <1>8, <1>9, <1>10 DEF Next

(* tasks.py 98-309: whatever is queued twice, retried, dropped or deleted,  *)
(* a medium is attached to its event or incident once as long as nobody     *)
(* else holds the upload at the same time and no conversion is killed.      *)
THEOREM NeverAttachedTwice == Spec => []AttachedOnce
<1>1. Init => OnceInv
  BY DEF Init, OnceInv, HeldAlone, AttachedIsDone, Converting, Idle
<1>2. Inv /\ OnceInv /\ [Next]_vars => OnceInv'
  <2> SUFFICES ASSUME Inv, OnceInv, [Next]_vars PROVE OnceInv'
    OBVIOUS
  <2>1. CASE UNCHANGED vars
    BY <2>1 DEF vars, OnceInv, HeldAlone, AttachedIsDone, Converting, rows
  <2> QED
    BY <2>1, EveryoneAttachesOnce
<1>3. Inv /\ OnceInv => AttachedOnce
  BY DEF Inv, TypeOK, OnceInv, AttachedIsDone, AttachedOnce
<1> QED
  BY <1>1, <1>2, <1>3, MediaInvariant, PTL DEF Spec
============================================================================
