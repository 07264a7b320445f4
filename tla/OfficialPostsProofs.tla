------------------------ MODULE OfficialPostsProofs ------------------------
(* Proofs about OfficialPosts, for any number of posts, polls and webhook   *)
(* requests, every fetch limit, with polling or without, and any number of  *)
(* attempts, stops and failures.                                            *)
EXTENDS OfficialPosts, FiniteSetTheorems, TLAPS

USE DEF sending

(* Each path inserts a URL once: ingestion looks for its own row in the     *)
(* statement that inserts, the feed under the lock.                         *)
RowsFit ==
    /\ rows \in [Posts -> [Origins -> 0 .. 2]]
    /\ inserting \in [Posts -> 0 .. 1]
    /\ \A u \in Posts :
          /\ rows[u]["official"] <= 1 /\ rows[u]["feed"] <= 1
          /\ inserting[u] = 1 => rows[u]["feed"] = 0

Creates(w, p) == Busy(w) /\ p \in ingests[w].created

(* A handler that works is a record of its four fields.                     *)
JobsFit ==
    /\ DOMAIN ingests = Ingesters /\ postFaults \in Nat
    /\ \A w \in Ingesters :
          Busy(w) => DOMAIN ingests[w] = {"stage", "delivered", "posts", "created"}

(* What is to be announced is in one place at a time, and stored before.    *)
(* While its message is due, every copy in the chat is of a failed attempt. *)
AnnouncementsFit ==
    /\ failed \in [Posts -> Nat] /\ announced \in [Posts -> Nat]
    /\ \A p \in Posts :
          /\ failed[p] <= MAX_ATTEMPTS /\ announced[p] <= MAX_ATTEMPTS
          /\ announced[p] <= failed[p] + 1
          /\ announced[p] > 0 => HasRow(p, "official")
          /\ p \in outbox => /\ HasRow(p, "official") /\ announced[p] <= failed[p]
                             /\ failed[p] < MAX_ATTEMPTS
          /\ \A w \in Ingesters : Creates(w, p) =>
                /\ HasRow(p, "official") /\ announced[p] = 0 /\ failed[p] = 0 /\ p \notin outbox
                /\ \A v \in Ingesters : Creates(v, p) => v = w
          /\ failed[p] > 0 => HasRow(p, "official")

(* A post of a request is before it or behind it.                           *)
StillAhead(w, p) == \E i \in DOMAIN ingests[w].posts : ingests[w].posts[i] = p

DeliveriesFit ==
    \A w \in Ingesters : Busy(w) =>
        \A p \in ingests[w].delivered : p \in Posts /\ (HasUrl(p) \/ StillAhead(w, p))

(* The batches.  The account has published the posts up to some id; what a  *)
(* handler was given and has created are posts, and a batch that is being   *)
(* created is not empty.                                                    *)
PublishedInOrder == \E n \in 0 .. Cardinality(Posts) : onX = 1 .. n

BatchOfPosts(job) ==
    /\ job.stage \in {"check", "create"} /\ job.delivered \subseteq Posts
    /\ job.posts \in Seq(Posts) /\ job.created \subseteq Posts
    /\ job.stage = "create" => job.posts # <<>>

BatchesFit ==
    /\ PublishedInOrder /\ outbox \subseteq Posts
    /\ \A w \in Ingesters : Busy(w) => BatchOfPosts(ingests[w])
    /\ ingesting \in BOOLEAN /\ postFaults \in 0 .. MaxPostFaults

Inv == RowsFit /\ JobsFit /\ BatchesFit /\ AnnouncementsFit /\ DeliveriesFit

---------------------------------------------------------------------------
(* A statement that inserts keeps every row there was.                      *)
LEMMA InsertKeeps ==
    ASSUME RowsFit, NEW u, NEW origin, Insert(u, origin)
    PROVE  \A p \in Posts, o \in Origins : rows[p][o] > 0 => rows'[p][o] > 0
<1> SUFFICES ASSUME NEW p \in Posts, NEW o \in Origins, rows[p][o] > 0
             PROVE  rows'[p][o] > 0
  OBVIOUS
<1>1. rows \in [Posts -> [Origins -> 0 .. 2]]
  BY DEF RowsFit
<1>2. CASE p = u /\ o = origin
  <2>1. rows'[p][o] = UpToTwo(rows[p][o] + 1)
    BY <1>1, <1>2 DEF Insert
  <2>2. rows[p][o] \in 0 .. 2
    BY <1>1
  <2> QED
    BY <2>1, <2>2 DEF UpToTwo
<1>3. CASE ~ (p = u /\ o = origin)
  BY <1>1, <1>3 DEF Insert
<1> QED
  BY <1>2, <1>3

(* Rows only come.                                                          *)
LEMMA RowsStay ==
    ASSUME RowsFit, PostsNext
    PROVE  \A p \in Posts : /\ \A o \in Origins : HasRow(p, o) => HasRow(p, o)'
                            /\ HasUrl(p) => HasUrl(p)'
<1>1. rows' = rows \/ \E u, o : Insert(u, o)
  <2>1. CASE Publish \/ Switch
    BY <2>1 DEF Publish, Switch
  <2>2. CASE \E w \in Pollers : Poll(w)
    BY <2>2 DEF Poll
  <2>3. CASE \E w \in Hooks : Deliver(w)
    BY <2>3 DEF Deliver
  <2>4. CASE \E w \in Ingesters : Check(w) \/ Finish(w) \/ Stop(w)
    BY <2>4 DEF Check, Finish, Stop
  <2>5. CASE \E w \in Ingesters : Create(w)
    BY <2>5 DEF Create
  <2>6. CASE \E p \in outbox : Announce(p) \/ AttemptFails(p)
    BY <2>6 DEF Announce, AttemptFails
  <2>7. CASE \E u \in SharedPosts : BeginSubmit(u) \/ EndSubmit(u) \/ SubmitDirectly(u)
    BY <2>7 DEF BeginSubmit, EndSubmit, SubmitDirectly
  <2> QED
    BY <2>1, <2>2, <2>3, <2>4, <2>5, <2>6, <2>7 DEF PostsNext, Ingest
<1>2. \A p \in Posts, o \in Origins : rows[p][o] > 0 => rows'[p][o] > 0
  BY <1>1, InsertKeeps
<1> QED
  BY <1>2 DEF HasRow, HasUrl

(* Every step keeps insertions to URLs without a row of the same path.      *)
LEMMA RowsKept ==
    ASSUME RowsFit, PostsNext
    PROVE  RowsFit'
<1> USE DEF RowsFit, Origins
<1>1. CASE Publish \/ Switch
  BY <1>1 DEF Publish, Switch
<1>2. CASE \E w \in Pollers : Poll(w)
  BY <1>2 DEF Poll
<1>3. CASE \E w \in Hooks : Deliver(w)
  BY <1>3 DEF Deliver
<1>4. CASE \E w \in Ingesters : Check(w) \/ Finish(w) \/ Stop(w)
  BY <1>4 DEF Check, Finish, Stop
<1>5. CASE \E w \in Ingesters : Create(w)
  BY <1>5 DEF Create, Insert, HasRow, UpToTwo
<1>6. CASE \E p \in outbox : Announce(p) \/ AttemptFails(p)
  BY <1>6 DEF Announce, AttemptFails
<1>7. CASE \E u \in SharedPosts : BeginSubmit(u)
  BY <1>7, PostsAssumption DEF BeginSubmit, UrlIsFree, HasUrl, HasRow
<1>8. CASE \E u \in SharedPosts : EndSubmit(u)
  BY <1>8, PostsAssumption DEF EndSubmit, Insert, UpToTwo
<1>9. CASE \E u \in SharedPosts : SubmitDirectly(u)
  BY <1>9, PostsAssumption DEF SubmitDirectly, Insert, UpToTwo, HasRow
<1> QED
  BY <1>1, <1>2, <1>3, <1>4, <1>5, <1>6, <1>7, <1>8, <1>9 DEF PostsNext, Ingest

(* Only what goes wrong is counted as a fault.                              *)
LEMMA StopsCounted ==
    ASSUME PostsNext
    PROVE  \/ postFaults' = postFaults
           \/ postFaults' = postFaults + 1
<1>1. CASE Publish \/ Switch
  BY <1>1 DEF Publish, Switch
<1>2. CASE \E w \in Pollers : Poll(w)
  BY <1>2 DEF Poll
<1>3. CASE \E w \in Hooks : Deliver(w)
  BY <1>3 DEF Deliver
<1>4. CASE \E w \in Ingesters : Check(w)
  BY <1>4 DEF Check
<1>5. CASE \E w \in Ingesters : Create(w)
  BY <1>5 DEF Create
<1>6. CASE \E w \in Ingesters : Finish(w)
  BY <1>6 DEF Finish
<1>7. CASE \E w \in Ingesters : Stop(w)
  BY <1>7 DEF Stop
<1>8. CASE \E p \in outbox : Announce(p) \/ AttemptFails(p)
  BY <1>8 DEF Announce, AttemptFails
<1>9. CASE \E u \in SharedPosts : BeginSubmit(u) \/ EndSubmit(u) \/ SubmitDirectly(u)
  BY <1>9 DEF BeginSubmit, EndSubmit, SubmitDirectly
<1> QED
  BY <1>1, <1>2, <1>3, <1>4, <1>5, <1>6, <1>7, <1>8, <1>9 DEF PostsNext, Ingest

(* Every step keeps the handlers well formed.                               *)
LEMMA JobsKept ==
    ASSUME JobsFit, PostsNext
    PROVE  JobsFit'
<1>0. postFaults' \in Nat
  BY StopsCounted DEF JobsFit
<1>1. ASSUME ingests' = ingests
      PROVE  JobsFit'
  BY <1>0, <1>1 DEF JobsFit, Busy
<1>2. ASSUME NEW w \in Ingesters, NEW job, ingests' = [ingests EXCEPT ![w] = job],
             job = Idle \/ DOMAIN job = {"stage", "delivered", "posts", "created"}
      PROVE  JobsFit'
  BY <1>0, <1>2 DEF JobsFit, Busy
<1>3. CASE Publish \/ Switch \/ \E p \in outbox : Announce(p) \/ AttemptFails(p)
  BY <1>1, <1>3 DEF Publish, Switch, Announce, AttemptFails
<1>4. CASE \E u \in SharedPosts : BeginSubmit(u) \/ EndSubmit(u) \/ SubmitDirectly(u)
  BY <1>1, <1>4 DEF BeginSubmit, EndSubmit, SubmitDirectly
<1>5. ASSUME NEW w \in Pollers, Poll(w)
      PROVE  JobsFit'
  <2>0. PICK posts : ingests' = [ingests EXCEPT ![w] = Work({}, posts)]
    BY <1>5 DEF Poll
  <2> DEFINE job == Work({}, posts)
  <2>1. w \in Ingesters /\ ingests' = [ingests EXCEPT ![w] = job]
    BY <1>5, <2>0 DEF Poll, Ingesters
  <2>2. DOMAIN job = {"stage", "delivered", "posts", "created"}
    BY DEF Work
  <2> HIDE DEF job
  <2> QED
    BY <1>2, <2>1, <2>2
<1>6. ASSUME NEW w \in Hooks, Deliver(w)
      PROVE  JobsFit'
  <2>0. PICK usable, posts : ingests' = [ingests EXCEPT ![w] = Work(usable, posts)]
    BY <1>6 DEF Deliver
  <2> DEFINE job == Work(usable, posts)
  <2>1. w \in Ingesters /\ ingests' = [ingests EXCEPT ![w] = job]
    BY <1>6, <2>0 DEF Ingesters
  <2>2. DOMAIN job = {"stage", "delivered", "posts", "created"}
    BY DEF Work
  <2> HIDE DEF job
  <2> QED
    BY <1>2, <2>1, <2>2
<1>7. ASSUME NEW w \in Ingesters, Finish(w) \/ Stop(w)
      PROVE  JobsFit'
  BY <1>2, <1>7 DEF Finish, Stop
<1>8. ASSUME NEW w \in Ingesters, Check(w)
      PROVE  JobsFit'
  BY <1>0, <1>8 DEF Check, At, JobsFit, Busy
<1>9. ASSUME NEW w \in Ingesters, Create(w)
      PROVE  JobsFit'
  BY <1>0, <1>9 DEF Create, At, JobsFit, Busy
<1> QED
  BY <1>3, <1>4, <1>5, <1>6, <1>7, <1>8, <1>9 DEF PostsNext, Ingest

---------------------------------------------------------------------------
(* The posts are finitely many.                                             *)
LEMMA PostsCounted ==
    Cardinality(Posts) \in Nat /\ Posts = 1 .. Cardinality(Posts)
BY PostsAssumption, FS_CardinalityType

(* What is not first is in the rest.                                        *)
LEMMA TailHas ==
    ASSUME NEW s \in Seq(Posts), NEW i \in DOMAIN s, i # 1
    PROVE  i - 1 \in DOMAIN Tail(s) /\ Tail(s)[i - 1] = s[i]
OBVIOUS

(* A sequence of the members of a set of posts is one of posts and has all  *)
(* of them.                                                                 *)
LEMMA SequencesOfPosts ==
    ASSUME NEW S, S \subseteq Posts, NEW posts \in SetToSeqs(S)
    PROVE  posts \in Seq(Posts) /\ \A p \in S : \E i \in DOMAIN posts : posts[i] = p
<1>1. IsFiniteSet(S) /\ Cardinality(S) \in Nat
  BY PostsAssumption, FS_Subset, FS_CardinalityType
<1>2. posts \in [1 .. Cardinality(S) -> S]
      /\ \A i, j \in 1 .. Cardinality(S) : i # j => posts[i] # posts[j]
  BY DEF SetToSeqs, IsInjective
<1>3. posts \in Seq(Posts)
  BY <1>1, <1>2
<1>4. posts \in Injection(1 .. Cardinality(S), S)
  BY <1>2 DEF Injection, IsInjective
<1>5. Cardinality(1 .. Cardinality(S)) = Cardinality(S)
  BY <1>1, FS_Interval
<1>6. posts \in Surjection(1 .. Cardinality(S), S)
  BY <1>1, <1>4, <1>5, FS_Injection
<1> QED
  BY <1>2, <1>3, <1>6 DEF Surjection

(* X answers a poll with posts of the account.                              *)
LEMMA AnswersArePosts ==
    ASSUME PublishedInOrder, NEW since, NEW posts \in fetch_user_posts(since)
    PROVE  posts \in Seq(Posts)
<1> DEFINE new == {p \in onX : p > since}
           newest == {p \in new : Cardinality({q \in new : q > p}) < FETCH_LIMIT}
<1>1. onX \subseteq Posts
  BY PostsCounted DEF PublishedInOrder
<1>2. newest \subseteq Posts
  BY <1>1
<1>3. posts \in SetToSeqs(newest)
  BY DEF fetch_user_posts, NewestFirst
<1> HIDE DEF newest
<1> QED
  BY <1>2, <1>3, SequencesOfPosts

LEMMA BatchesKept ==
    ASSUME JobsFit, BatchesFit, PostsNext
    PROVE  BatchesFit'
<1>1. ASSUME onX' = onX, outbox' \subseteq Posts, ingesting' \in BOOLEAN, postFaults' \in 0 .. MaxPostFaults,
             \A w \in Ingesters : ingests'[w] = ingests[w] \/ ingests'[w] = Idle \/ BatchOfPosts(ingests'[w])
      PROVE  BatchesFit'
  BY <1>1 DEF BatchesFit, PublishedInOrder, Busy
<1>2. ASSUME NEW w \in Ingesters, NEW job, ingests' = [ingests EXCEPT ![w] = job],
             job = Idle \/ BatchOfPosts(job), UNCHANGED <<onX, ingesting>>,
             outbox' \subseteq Posts, postFaults' \in 0 .. MaxPostFaults
      PROVE  BatchesFit'
  <2>1. \A v \in Ingesters : ingests'[v] = ingests[v] \/ ingests'[v] = job
    BY <1>2 DEF JobsFit
  <2> QED
    BY <1>1, <1>2, <2>1 DEF BatchesFit
<1>3. CASE Publish
  <2>1. PICK n \in 0 .. Cardinality(Posts) : onX = 1 .. n
    BY DEF BatchesFit, PublishedInOrder
  <2>2. Cardinality(onX) = n
    <3>1. n \in Int /\ 1 \in Int /\ 1 <= n + 1
      BY <2>1, PostsCounted
    <3>2. Cardinality(1 .. n) = IF 1 > n THEN 0 ELSE n - 1 + 1
      BY <3>1, FS_Interval
    <3> QED
      BY <2>1, <3>1, <3>2, PostsCounted
  <2>4. n # Cardinality(Posts)
    <3> SUFFICES ASSUME n = Cardinality(Posts) PROVE FALSE
      OBVIOUS
    <3>1. onX = Posts
      BY <2>1, PostsCounted
    <3> QED
      BY <1>3, <3>1 DEF Publish
  <2>3. onX' = 1 .. (n + 1) /\ n + 1 \in 0 .. Cardinality(Posts)
    BY <1>3, <2>1, <2>2, <2>4, PostsCounted DEF Publish
  <2> QED
    BY <1>3, <2>3 DEF Publish, BatchesFit, PublishedInOrder, Busy
<1>4. CASE Switch
  BY <1>1, <1>4 DEF Switch, BatchesFit
<1>5. ASSUME NEW p \in outbox, Announce(p) \/ AttemptFails(p)
      PROVE  BatchesFit'
  BY <1>1, <1>5, PostsAssumption DEF Announce, AttemptFails, BatchesFit
<1>6. CASE \E u \in SharedPosts : BeginSubmit(u) \/ EndSubmit(u) \/ SubmitDirectly(u)
  BY <1>1, <1>6 DEF BeginSubmit, EndSubmit, SubmitDirectly, BatchesFit
<1>7. ASSUME NEW w \in Pollers, Poll(w)
      PROVE  BatchesFit'
  <2>1. PICK posts \in fetch_user_posts(latest_post_id) :
          posts # <<>> /\ ingests' = [ingests EXCEPT ![w] = Work({}, posts)]
    BY <1>7 DEF Poll
  <2>2. posts \in Seq(Posts)
    BY AnswersArePosts DEF BatchesFit
  <2>3. BatchOfPosts(Work({}, posts))
    BY <2>2 DEF BatchOfPosts, Work
  <2> QED
    BY <1>2, <1>7, <2>1, <2>3 DEF Poll, BatchesFit, Ingesters
<1>8. ASSUME NEW w \in Hooks, Deliver(w)
      PROVE  BatchesFit'
  <2>0. PICK items \in SUBSET onX : \E usable \in SUBSET items : \E posts \in SetToSeqs(usable) :
           ingests' = [ingests EXCEPT ![w] = Work(usable, posts)]
    BY <1>8 DEF Deliver
  <2>9. PICK usable \in SUBSET items : \E posts \in SetToSeqs(usable) :
           ingests' = [ingests EXCEPT ![w] = Work(usable, posts)]
    BY <2>0
  <2>1. PICK posts \in SetToSeqs(usable) : ingests' = [ingests EXCEPT ![w] = Work(usable, posts)]
    BY <2>9
  <2>2. usable \subseteq Posts
    BY PostsCounted DEF BatchesFit, PublishedInOrder
  <2>3. posts \in Seq(Posts)
    BY <2>2, SequencesOfPosts
  <2>4. BatchOfPosts(Work(usable, posts))
    BY <2>2, <2>3 DEF BatchOfPosts, Work
  <2> QED
    BY <1>2, <1>8, <2>1, <2>4 DEF Deliver, BatchesFit, Ingesters
<1>9. ASSUME NEW w \in Ingesters, Finish(w)
      PROVE  BatchesFit'
  <2>1. outbox' \subseteq Posts
    BY <1>9 DEF Finish, BatchesFit, BatchOfPosts
  <2> QED
    BY <1>2, <1>9, <2>1 DEF Finish, BatchesFit
<1>10. ASSUME NEW w \in Ingesters, Stop(w)
       PROVE  BatchesFit'
  <2>1. postFaults' \in 0 .. MaxPostFaults
    BY <1>10, PostsAssumption DEF Stop, BatchesFit
  <2> QED
    BY <1>2, <1>10, <2>1 DEF Stop, BatchesFit
<1>11. ASSUME NEW w \in Ingesters, Busy(w), ingests[w].posts # <<>>
       PROVE  /\ DOMAIN ingests[w] = {"stage", "delivered", "posts", "created"}
              /\ BatchOfPosts(ingests[w]) /\ Head(ingests[w].posts) \in Posts
              /\ Tail(ingests[w].posts) \in Seq(Posts)
  BY <1>11 DEF BatchesFit, JobsFit, BatchOfPosts
<1>12. ASSUME NEW w \in Ingesters, Check(w)
       PROVE  BatchesFit'
  <2>1. /\ Busy(w) /\ ingests[w].posts # <<>> /\ ingests[w].stage = "check"
        /\ UNCHANGED <<onX, rows, inserting, outbox, announced, ingesting, postFaults>>
    BY <1>12 DEF Check, At
  <2>2. PICK job : /\ ingests' = [ingests EXCEPT ![w] = job]
                   /\ \/ job = [ingests[w] EXCEPT !.posts = Tail(@)]
                      \/ job = [ingests[w] EXCEPT !.stage = "create"]
    BY <1>12 DEF Check
  <2>3. BatchOfPosts(job)
    BY <1>11, <2>1, <2>2 DEF BatchOfPosts
  <2> QED
    BY <1>2, <2>1, <2>2, <2>3 DEF BatchesFit
<1>13. ASSUME NEW w \in Ingesters, Create(w)
       PROVE  BatchesFit'
  <2>1. Busy(w) /\ ingests[w].posts # <<>> /\ UNCHANGED <<onX, outbox, ingesting, postFaults>>
    BY <1>13 DEF Create, At
  <2> DEFINE p == Head(ingests[w].posts)
             done == [ingests[w] EXCEPT !.stage = "check", !.posts = Tail(@)]
  <2>2. PICK job : /\ ingests' = [ingests EXCEPT ![w] = job]
                   /\ job = done \/ job = [done EXCEPT !.created = @ \cup {p}]
    BY <1>13 DEF Create
  <2>3. /\ DOMAIN ingests[w] = {"stage", "delivered", "posts", "created"}
        /\ BatchOfPosts(ingests[w]) /\ p \in Posts /\ Tail(ingests[w].posts) \in Seq(Posts)
    BY <1>11, <2>1
  <2>4. /\ done.stage = "check" /\ done.posts = Tail(ingests[w].posts)
        /\ done.delivered = ingests[w].delivered /\ done.created = ingests[w].created
        /\ DOMAIN done = {"stage", "delivered", "posts", "created"}
    BY <2>3
  <2>5. job = done => BatchOfPosts(job)
    BY <2>3, <2>4 DEF BatchOfPosts
  <2>6. job = [done EXCEPT !.created = @ \cup {p}] => BatchOfPosts(job)
    <3> SUFFICES ASSUME job = [done EXCEPT !.created = @ \cup {p}] PROVE BatchOfPosts(job)
      OBVIOUS
    <3> HIDE DEF done, p
    <3>1. /\ job.stage = "check" /\ job.posts = done.posts
          /\ job.delivered = done.delivered /\ job.created = done.created \cup {p}
      BY <2>4
    <3> QED
      BY <2>3, <2>4, <3>1 DEF BatchOfPosts
  <2>7. BatchOfPosts(job)
    BY <2>2, <2>5, <2>6
  <2> QED
    BY <1>2, <2>1, <2>2, <2>7 DEF BatchesFit
<1> QED
  BY <1>3, <1>4, <1>5, <1>6, <1>7, <1>8, <1>9, <1>10, <1>12, <1>13 DEF PostsNext, Ingest

---------------------------------------------------------------------------
(* A post leaves the list of a request because of a row of its URL or with  *)
(* a row of its own, and no row goes away.                                  *)
LEMMA DeliveriesKept ==
    ASSUME PostsAssumption, RowsFit, JobsFit, BatchesFit, DeliveriesFit, PostsNext
    PROVE  DeliveriesFit'
<1>1. \A p \in Posts : HasUrl(p) => HasUrl(p)'
  BY RowsStay
<1>2. ASSUME ingests' = ingests
      PROVE  DeliveriesFit'
  BY <1>1, <1>2 DEF DeliveriesFit, Busy, StillAhead
<1>3. ASSUME NEW w \in Ingesters, NEW job, ingests' = [ingests EXCEPT ![w] = job],
             job = Idle \/ \A p \in job.delivered :
                p \in Posts /\ (HasUrl(p)' \/ \E i \in DOMAIN job.posts : job.posts[i] = p)
      PROVE  DeliveriesFit'
  <2> SUFFICES ASSUME NEW v \in Ingesters, ingests'[v] # Idle, NEW p \in ingests'[v].delivered
               PROVE  p \in Posts /\ (HasUrl(p)' \/ StillAhead(v, p)')
    BY DEF DeliveriesFit, Busy
  <2>1. CASE v = w
    BY <1>3, <2>1 DEF JobsFit, StillAhead
  <2>2. CASE v # w
    BY <1>1, <1>3, <2>2 DEF JobsFit, DeliveriesFit, Busy, StillAhead
  <2> QED
    BY <2>1, <2>2
<1>4. CASE Publish \/ Switch \/ \E p \in outbox : Announce(p) \/ AttemptFails(p)
  BY <1>2, <1>4 DEF Publish, Switch, Announce, AttemptFails
<1>5. CASE \E u \in SharedPosts : BeginSubmit(u) \/ EndSubmit(u) \/ SubmitDirectly(u)
  BY <1>2, <1>5 DEF BeginSubmit, EndSubmit, SubmitDirectly
<1>6. ASSUME NEW w \in Pollers, Poll(w)
      PROVE  DeliveriesFit'
  <2>0. PICK posts : ingests' = [ingests EXCEPT ![w] = Work({}, posts)]
    BY <1>6 DEF Poll
  <2> DEFINE job == Work({}, posts)
  <2>1. w \in Ingesters /\ ingests' = [ingests EXCEPT ![w] = job]
    BY <1>6, <2>0 DEF Poll, Ingesters
  <2>2. job.delivered = {}
    BY DEF Work
  <2> HIDE DEF job
  <2> QED
    BY <1>3, <2>1, <2>2
<1>7. ASSUME NEW w \in Hooks, Deliver(w)
      PROVE  DeliveriesFit'
  <2>0. PICK items \in SUBSET onX : \E usable \in SUBSET items : \E posts \in SetToSeqs(usable) :
           ingests' = [ingests EXCEPT ![w] = Work(usable, posts)]
    BY <1>7 DEF Deliver
  <2>9. PICK usable \in SUBSET items : \E posts \in SetToSeqs(usable) :
           ingests' = [ingests EXCEPT ![w] = Work(usable, posts)]
    BY <2>0
  <2>1. PICK posts \in SetToSeqs(usable) : ingests' = [ingests EXCEPT ![w] = Work(usable, posts)]
    BY <2>9
  <2>2. usable \subseteq Posts
    BY PostsCounted DEF BatchesFit, PublishedInOrder
  <2>3. \A p \in usable : \E i \in DOMAIN posts : posts[i] = p
    BY <2>2, SequencesOfPosts
  <2> DEFINE job == Work(usable, posts)
  <2>4. w \in Ingesters /\ ingests' = [ingests EXCEPT ![w] = job]
    BY <1>7, <2>1 DEF Ingesters
  <2>5. job.delivered = usable /\ job.posts = posts
    BY DEF Work
  <2> HIDE DEF job
  <2> QED
    BY <1>3, <2>2, <2>3, <2>4, <2>5
<1>8. ASSUME NEW w \in Ingesters, Finish(w) \/ Stop(w)
      PROVE  DeliveriesFit'
  BY <1>3, <1>8 DEF Finish, Stop
<1>9. ASSUME NEW w \in Ingesters, Busy(w), ingests[w].posts # <<>>, NEW job,
             ingests' = [ingests EXCEPT ![w] = job],
             job.delivered = ingests[w].delivered, job.posts = Tail(ingests[w].posts),
             NEW q, q = Head(ingests[w].posts), q \in Posts => HasUrl(q)'
      PROVE  DeliveriesFit'
  <2>1. ingests[w].posts \in Seq(Posts)
    BY <1>9 DEF BatchesFit, BatchOfPosts
  <2> SUFFICES ASSUME NEW p \in job.delivered
               PROVE  p \in Posts /\ (HasUrl(p)' \/ \E i \in DOMAIN job.posts : job.posts[i] = p)
    BY <1>3, <1>9
  <2>2. p \in Posts /\ (HasUrl(p) \/ StillAhead(w, p))
    BY <1>9 DEF DeliveriesFit
  <2>3. ASSUME NEW i \in DOMAIN ingests[w].posts, ingests[w].posts[i] = p
        PROVE  p = q \/ \E k \in DOMAIN job.posts : job.posts[k] = p
    <3>1. CASE i = 1
      BY <1>9, <2>3, <3>1
    <3>2. CASE i # 1
      <4>1. i - 1 \in DOMAIN Tail(ingests[w].posts) /\ Tail(ingests[w].posts)[i - 1] = p
        BY <2>1, <2>3, <3>2, TailHas
      <4> QED
        BY <1>9, <4>1
    <3> QED
      BY <3>1, <3>2
  <2> QED
    BY <1>1, <1>9, <2>2, <2>3 DEF StillAhead
<1>10. ASSUME NEW w \in Ingesters, Check(w)
       PROVE  DeliveriesFit'
  <2>1. /\ DOMAIN ingests[w] = {"stage", "delivered", "posts", "created"}
        /\ Busy(w) /\ ingests[w].posts # <<>>
    BY <1>10 DEF Check, At, JobsFit
  <2>2. CASE HasUrl(Head(ingests[w].posts))
    <3> DEFINE job == [ingests[w] EXCEPT !.posts = Tail(@)]
    <3>1. ingests' = [ingests EXCEPT ![w] = job]
      BY <1>10, <2>2 DEF Check
    <3>2. job.delivered = ingests[w].delivered /\ job.posts = Tail(ingests[w].posts)
      BY <2>1
    <3>3. PICK q : q = Head(ingests[w].posts)
      OBVIOUS
    <3>4. q \in Posts => HasUrl(q)'
      BY <1>1, <2>2, <3>3
    <3> HIDE DEF job
    <3> QED
      BY <1>9, <2>1, <3>1, <3>2, <3>3, <3>4
  <2>3. CASE ~ HasUrl(Head(ingests[w].posts))
    <3> DEFINE job == [ingests[w] EXCEPT !.stage = "create"]
    <3>1. ingests' = [ingests EXCEPT ![w] = job]
      BY <1>10, <2>3 DEF Check
    <3>2. job.delivered = ingests[w].delivered /\ job.posts = ingests[w].posts
      BY <2>1
    <3> HIDE DEF job
    <3>3. \A p \in job.delivered :
             p \in Posts /\ (HasUrl(p)' \/ \E i \in DOMAIN job.posts : job.posts[i] = p)
      BY <1>1, <2>1, <3>2 DEF DeliveriesFit, StillAhead
    <3> QED
      BY <1>3, <3>1, <3>3
  <2> QED
    BY <2>2, <2>3
<1>11. ASSUME NEW w \in Ingesters, Create(w)
       PROVE  DeliveriesFit'
  <2>0. PICK p : p = Head(ingests[w].posts)
    OBVIOUS
  <2> DEFINE done == [ingests[w] EXCEPT !.stage = "check", !.posts = Tail(@)]
  <2>1. /\ DOMAIN ingests[w] = {"stage", "delivered", "posts", "created"}
        /\ Busy(w) /\ ingests[w].posts # <<>>
    BY <1>11 DEF Create, At, JobsFit
  <2>2. p \in Posts => HasUrl(p)'
    <3>1. ASSUME p \in Posts, HasRow(p, "official")
          PROVE  HasUrl(p)'
      BY <1>1, <3>1 DEF HasUrl, Origins
    <3>2. ASSUME p \in Posts, Insert(p, "official")
          PROVE  HasUrl(p)'
      BY <3>2 DEF Insert, UpToTwo, HasUrl, HasRow, Origins, RowsFit
    <3> QED
      BY <1>11, <2>0, <3>1, <3>2 DEF Create
  <2>3. PICK job : /\ ingests' = [ingests EXCEPT ![w] = job]
                   /\ job = done \/ job = [done EXCEPT !.created = @ \cup {p}]
    BY <1>11, <2>0 DEF Create
  <2>4. job.delivered = ingests[w].delivered /\ job.posts = Tail(ingests[w].posts)
    BY <2>1, <2>3
  <2> QED
    BY <1>9, <2>0, <2>1, <2>2, <2>3, <2>4
<1> QED
  BY <1>4, <1>5, <1>6, <1>7, <1>8, <1>10, <1>11 DEF PostsNext, Ingest

---------------------------------------------------------------------------
(* A post is created by the one handler that inserted its row, is then due  *)
(* once, and is no longer due when its message is out.                      *)
LEMMA AnnouncementsKept ==
    ASSUME PostsAssumption, RowsFit, RowsFit', JobsFit, BatchesFit, AnnouncementsFit, PostsNext
    PROVE  AnnouncementsFit'
<1>1. \A p \in Posts : HasRow(p, "official") => HasRow(p, "official")'
  BY RowsStay DEF Origins
<1>2. ASSUME ingests' = ingests, UNCHANGED sending
      PROVE  AnnouncementsFit'
  BY <1>1, <1>2 DEF AnnouncementsFit, Creates, Busy
<1>3. ASSUME NEW w \in Ingesters, NEW job, ingests' = [ingests EXCEPT ![w] = job],
             job = Idle \/ job.created = {} \/ (Busy(w) /\ job.created = ingests[w].created),
             UNCHANGED sending
      PROVE  AnnouncementsFit'
  <2>1. \A v \in Ingesters, p \in Posts : Creates(v, p)' => Creates(v, p)
    BY <1>3 DEF Creates, Busy, JobsFit
  <2> QED
    BY <1>1, <1>3, <2>1 DEF AnnouncementsFit
<1>4. CASE Publish \/ Switch
  BY <1>2, <1>4 DEF Publish, Switch
<1>5. CASE \E u \in SharedPosts : BeginSubmit(u) \/ EndSubmit(u) \/ SubmitDirectly(u)
  BY <1>2, <1>5 DEF BeginSubmit, EndSubmit, SubmitDirectly
<1>6. ASSUME NEW w \in Pollers, Poll(w)
      PROVE  AnnouncementsFit'
  <2>0. PICK posts : ingests' = [ingests EXCEPT ![w] = Work({}, posts)]
    BY <1>6 DEF Poll
  <2> DEFINE job == Work({}, posts)
  <2>1. /\ w \in Ingesters /\ ingests' = [ingests EXCEPT ![w] = job]
        /\ UNCHANGED sending
    BY <1>6, <2>0 DEF Poll, Ingesters
  <2>2. job.created = {}
    BY DEF Work
  <2> HIDE DEF job
  <2> QED
    BY <1>3, <2>1, <2>2
<1>7. ASSUME NEW w \in Hooks, Deliver(w)
      PROVE  AnnouncementsFit'
  <2>0. PICK usable, posts : ingests' = [ingests EXCEPT ![w] = Work(usable, posts)]
    BY <1>7 DEF Deliver
  <2> DEFINE job == Work(usable, posts)
  <2>1. /\ w \in Ingesters /\ ingests' = [ingests EXCEPT ![w] = job]
        /\ UNCHANGED sending
    BY <1>7, <2>0 DEF Deliver, Ingesters
  <2>2. job.created = {}
    BY DEF Work
  <2> HIDE DEF job
  <2> QED
    BY <1>3, <2>1, <2>2
<1>8. ASSUME NEW w \in Ingesters, Stop(w)
      PROVE  AnnouncementsFit'
  BY <1>3, <1>8 DEF Stop
<1>9. ASSUME NEW w \in Ingesters, Check(w)
      PROVE  AnnouncementsFit'
  <2>1. DOMAIN ingests[w] = {"stage", "delivered", "posts", "created"} /\ Busy(w)
    BY <1>9 DEF Check, At, JobsFit
  <2>2. PICK job : /\ ingests' = [ingests EXCEPT ![w] = job]
                   /\ \/ job = [ingests[w] EXCEPT !.posts = Tail(@)]
                      \/ job = [ingests[w] EXCEPT !.stage = "create"]
    BY <1>9 DEF Check
  <2>3. job.created = ingests[w].created
    BY <2>1, <2>2
  <2> QED
    BY <1>3, <1>9, <2>1, <2>2, <2>3 DEF Check
<1>10. ASSUME NEW w \in Ingesters, Create(w)
       PROVE  AnnouncementsFit'
  <2>1. PICK p : p = Head(ingests[w].posts)
    OBVIOUS
  <2> DEFINE done == [ingests[w] EXCEPT !.stage = "check", !.posts = Tail(@)]
  <2>2. DOMAIN ingests[w] = {"stage", "delivered", "posts", "created"} /\ Busy(w)
    BY <1>10 DEF Create, At, JobsFit
  <2>3. done.created = ingests[w].created /\ DOMAIN done = DOMAIN ingests[w]
    BY <2>2
  <2>4. CASE HasRow(p, "official")
    <3>1. ingests' = [ingests EXCEPT ![w] = done] /\ UNCHANGED sending
      BY <1>10, <2>1, <2>4 DEF Create
    <3> HIDE DEF done
    <3> QED
      BY <1>3, <2>2, <2>3, <3>1
  <2>5. CASE ~ HasRow(p, "official")
    <3> DEFINE job == [done EXCEPT !.created = @ \cup {p}]
    <3>1. /\ ingests' = [ingests EXCEPT ![w] = job] /\ Insert(p, "official")
          /\ UNCHANGED sending
      BY <1>10, <2>1, <2>5 DEF Create
    <3>2. job.created = ingests[w].created \cup {p}
      BY <2>2, <2>3
    <3>3. p \in Posts => HasRow(p, "official")'
      BY <3>1 DEF Insert, UpToTwo, HasRow, Origins, RowsFit
    <3> HIDE DEF job, done
    <3>4. \A v \in Ingesters, q \in Posts :
             Creates(v, q)' => Creates(v, q) \/ (v = w /\ q = p)
      BY <2>2, <3>1, <3>2 DEF Creates, Busy, JobsFit
    <3>5. p \in Posts => /\ announced[p] = 0 /\ failed[p] = 0 /\ p \notin outbox
                         /\ \A v \in Ingesters : ~ Creates(v, p)
      BY <2>5 DEF AnnouncementsFit
    <3> QED
      BY <1>1, <3>1, <3>3, <3>4, <3>5 DEF AnnouncementsFit
  <2> QED
    BY <2>4, <2>5
<1>11. ASSUME NEW w \in Ingesters, Finish(w)
       PROVE  AnnouncementsFit'
  <2>1. \A v \in Ingesters, p \in Posts : Creates(v, p)' => Creates(v, p) /\ v # w
    BY <1>11 DEF Finish, Creates, Busy, JobsFit
  <2>2. \A p \in Posts : p \in outbox' => p \in outbox \/ Creates(w, p)
    BY <1>11 DEF Finish, Creates
  <2>3. announced' = announced /\ failed' = failed
    BY <1>11 DEF Finish
  <2> QED
    BY <1>1, <2>1, <2>2, <2>3, PostsAssumption DEF AnnouncementsFit
<1>12. ASSUME NEW p \in Posts, p \in outbox, Announce(p)
       PROVE  AnnouncementsFit'
  <2>1. ingests' = ingests /\ outbox' = outbox \ {p} /\ failed' = failed
    BY <1>12 DEF Announce
  <2>2. announced' = [announced EXCEPT ![p] = announced[p] + 1]
    BY <1>12 DEF Announce, Arrives
  <2>3. \A v \in Ingesters, q \in Posts : Creates(v, q)' => Creates(v, q) /\ q # p
    BY <1>12, <2>1 DEF Creates, Busy, AnnouncementsFit
  <2> QED
    BY <1>1, <1>12, <2>1, <2>2, <2>3, PostsAssumption DEF AnnouncementsFit
<1>13. ASSUME NEW p \in Posts, p \in outbox, AttemptFails(p)
       PROVE  AnnouncementsFit'
  <2>1. /\ ingests' = ingests /\ failed' = [failed EXCEPT ![p] = failed[p] + 1]
        /\ outbox' = outbox \ {p} \/ (outbox' = outbox /\ failed[p] + 1 < MAX_ATTEMPTS)
    BY <1>13 DEF AttemptFails
  <2>2. announced' = announced \/ announced' = [announced EXCEPT ![p] = announced[p] + 1]
    BY <1>13 DEF AttemptFails, Arrives
  <2>3. \A v \in Ingesters, q \in Posts : Creates(v, q)' => Creates(v, q) /\ q # p
    BY <1>13, <2>1 DEF Creates, Busy, AnnouncementsFit
  <2>4. /\ failed' \in [Posts -> Nat] /\ announced' \in [Posts -> Nat]
        /\ failed[p] \in Nat /\ announced[p] \in Nat /\ MAX_ATTEMPTS \in Nat
        /\ HasRow(p, "official") /\ announced[p] <= failed[p] /\ failed[p] < MAX_ATTEMPTS
    BY <1>13, <2>1, <2>2, PostsAssumption DEF AnnouncementsFit
  <2>5. /\ failed'[p] = failed[p] + 1 /\ announced'[p] <= failed[p] + 1
        /\ p \in outbox' => failed[p] + 1 < MAX_ATTEMPTS
    BY <1>13, <2>1, <2>2, <2>4 DEF AnnouncementsFit
  <2>6. \A q \in Posts : q # p =>
           failed'[q] = failed[q] /\ announced'[q] = announced[q] /\ (q \in outbox' => q \in outbox)
    BY <2>1, <2>2 DEF AnnouncementsFit
  <2> QED
    BY <1>1, <2>3, <2>4, <2>5, <2>6 DEF AnnouncementsFit
<1>14. outbox \subseteq Posts
  BY DEF BatchesFit
<1> QED
  BY <1>4, <1>5, <1>6, <1>7, <1>8, <1>9, <1>10, <1>11, <1>12, <1>13, <1>14 DEF PostsNext, Ingest

---------------------------------------------------------------------------
(* The account has not published anything, and nobody is at work.           *)
LEMMA BatchesInitially == PostsInit => BatchesFit
<1> SUFFICES ASSUME PostsInit PROVE BatchesFit
  OBVIOUS
<1>1. onX = 1 .. 0 /\ 0 \in 0 .. Cardinality(Posts)
  BY PostsCounted DEF PostsInit
<1>2. \A w \in Ingesters : ~ Busy(w)
  BY DEF PostsInit, Busy
<1> QED
  BY <1>1, <1>2, PostsAssumption DEF PostsInit, BatchesFit, PublishedInOrder

(* The invariant of the ingestion, for all posts, polls and requests.       *)
THEOREM PostsInvariant == PostsSpec => []Inv
<1>1. PostsInit => Inv
  BY PostsAssumption, BatchesInitially DEF PostsInit, Inv, RowsFit, JobsFit, AnnouncementsFit,
     DeliveriesFit, HasRow, Creates, Busy, Origins
<1>2. Inv /\ [PostsNext]_postsVars => Inv'
  <2> SUFFICES ASSUME Inv, [PostsNext]_postsVars
               PROVE  Inv'
    OBVIOUS
  <2>1. CASE PostsNext
    BY <2>1, PostsAssumption, RowsKept, JobsKept, BatchesKept, AnnouncementsKept, DeliveriesKept DEF Inv
  <2>2. CASE UNCHANGED postsVars
    BY <2>2 DEF postsVars, Inv, RowsFit, JobsFit, BatchesFit, PublishedInOrder, AnnouncementsFit,
       DeliveriesFit, HasRow, HasUrl, StillAhead, Creates, Busy
  <2> QED
    BY <2>1, <2>2
<1> QED
  BY <1>1, <1>2, PTL DEF PostsSpec

(* However often and by however many paths a post arrives, ingestion stores *)
(* it once and the feed stores it once.                                     *)
THEOREM TwinsComeFromDifferentPaths == PostsSpec => []TwinsOnlyAcrossPaths
<1>1. Inv => TwinsOnlyAcrossPaths
  BY DEF Inv, RowsFit, TwinsOnlyAcrossPaths
<1> QED
  BY <1>1, PostsInvariant, PTL

(* A post is announced by one send, after ingestion stored it: whatever     *)
(* copies there are besides the one it learns of are those of attempts that *)
(* failed, within the attempts of one message.                              *)
THEOREM OneSendPerPost == PostsSpec => []AnnouncedByOneSend
<1>1. Inv => AnnouncedByOneSend
  BY DEF Inv, RowsFit, AnnouncementsFit, AnnouncedByOneSend
<1> QED
  BY <1>1, PostsInvariant, PTL

(* A delivery that ends without a failure, and so is answered with a 200,   *)
(* leaves a row of the URL of every post it did not drop.                   *)
THEOREM AnswerMeansLinked == PostsSpec => AckedIsLinked
<1>1. Inv /\ [PostsNext]_postsVars =>
      [\A w \in Hooks :
          (ingests[w] # Idle /\ ingests'[w] = Idle /\ postFaults' = postFaults)
              => \A p \in ingests[w].delivered : HasUrl(p)]_postsVars
  <2> SUFFICES ASSUME Inv, PostsNext, NEW w \in Hooks, ingests[w] # Idle, ingests'[w] = Idle,
                      postFaults' = postFaults, NEW p \in ingests[w].delivered
               PROVE  HasUrl(p)
    BY DEF postsVars
  <2>1. w \in Ingesters /\ Busy(w) /\ DOMAIN ingests = Ingesters /\ postFaults \in Nat
    BY DEF Inv, JobsFit, Ingesters, Busy
  <2>2. DOMAIN ingests'[w] = {"stage"} /\ ingests'[w] # ingests[w]
    BY DEF Idle
  <2>3. \A v \in Ingesters : ~ Check(v) /\ ~ Create(v)
    <3> SUFFICES ASSUME NEW v \in Ingesters, Check(v) \/ Create(v)
                 PROVE  FALSE
      OBVIOUS
    <3>1. PICK job : ingests' = [ingests EXCEPT ![v] = job] /\ DOMAIN job = DOMAIN ingests[v]
      BY DEF Check, Create
    <3>2. v = w
      BY <2>1, <2>2, <3>1
    <3> QED
      BY <2>1, <2>2, <3>1, <3>2 DEF Inv, JobsFit
  <2>4. Finish(w)
    <3>1. ingests' # ingests
      BY <2>2
    <3>2. ~ Publish /\ ~ Switch /\ ~ \E q \in outbox : Announce(q) \/ AttemptFails(q)
      BY <3>1 DEF Publish, Switch, Announce, AttemptFails
    <3>3. ~ \E u \in SharedPosts : BeginSubmit(u) \/ EndSubmit(u) \/ SubmitDirectly(u)
      BY <3>1 DEF BeginSubmit, EndSubmit, SubmitDirectly
    <3>4. ~ \E v \in Pollers : Poll(v)
      <4> SUFFICES ASSUME NEW v \in Pollers, Poll(v) PROVE FALSE
        OBVIOUS
      <4>1. PICK job : ingests' = [ingests EXCEPT ![v] = job] /\ ~ Busy(v)
        BY DEF Poll
      <4> QED
        BY <2>1, <2>2, <4>1
    <3>5. ~ \E v \in Hooks : Deliver(v)
      <4> SUFFICES ASSUME NEW v \in Hooks, Deliver(v) PROVE FALSE
        OBVIOUS
      <4>1. PICK job : ingests' = [ingests EXCEPT ![v] = job] /\ ~ Busy(v)
        BY DEF Deliver
      <4> QED
        BY <2>1, <2>2, <4>1
    <3>6. ~ \E v \in Ingesters : Stop(v)
      BY <2>1 DEF Stop
    <3>7. PICK v \in Ingesters : Finish(v)
      BY <2>3, <3>2, <3>3, <3>4, <3>5, <3>6 DEF PostsNext, Ingest
    <3>8. v = w
      BY <2>1, <2>2, <3>7 DEF Finish
    <3> QED
      BY <3>7, <3>8
  <2>5. ingests[w].posts = <<>>
    BY <2>4 DEF Finish
  <2>6. DOMAIN ingests[w].posts = {}
    BY <2>5
  <2>7. HasUrl(p) \/ StillAhead(w, p)
    BY <2>1 DEF Inv, DeliveriesFit
  <2> QED
    BY <2>6, <2>7 DEF StillAhead
<1> QED
  BY <1>1, PostsInvariant, PTL DEF PostsSpec, AckedIsLinked

(* Rows, handlers and counters stay in their types; in particular a handler *)
(* never creates from an empty batch.                                       *)
THEOREM PostsTyped == PostsSpec => []PostsTypeOK
<1>1. Inv => PostsTypeOK
  <2> SUFFICES ASSUME Inv PROVE PostsTypeOK
    OBVIOUS
  <2>1. onX \subseteq Posts
    BY PostsCounted DEF Inv, BatchesFit, PublishedInOrder
  <2>2. /\ rows \in [Posts -> [Origins -> 0 .. 2]] /\ inserting \in [Posts -> 0 .. 2]
        /\ DOMAIN ingests = Ingesters
    BY DEF Inv, RowsFit, JobsFit
  <2>3. failed \in [Posts -> 0 .. MAX_ATTEMPTS] /\ announced \in [Posts -> Nat]
    BY PostsAssumption DEF Inv, AnnouncementsFit
  <2> QED
    BY <2>1, <2>2, <2>3 DEF Inv, BatchesFit, BatchOfPosts, PostsTypeOK
<1> QED
  BY <1>1, PostsInvariant, PTL

============================================================================
