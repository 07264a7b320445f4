--------------------------- MODULE OfficialPosts --------------------------
(* How posts of an official X account, and links to them, become rows: the  *)
(* poll and the webhook (official_posts.py, x_webhooks.py, views.py,        *)
(* tasks.py), the submissions of the community feed (feed_links.py) and the *)
(* direct ones (social_links.py).  A post is identified with its canonical  *)
(* URL.  Each step of a handler is a statement or a transaction of its own, *)
(* handlers overlap and stop anywhere, X repeats and loses deliveries and   *)
(* batches posts in them as it likes, a message may arrive and the sender   *)
(* not learn of it.                                                         *)
(* Rows are neither deleted nor given another URL here: a post whose row is *)
(* gone would be new to the ingestion and be announced again.               *)
EXTENDS Integers, Sequences, FiniteSets, SequencesExt

CONSTANTS
    Posts,          \* snowflake ids of the account's posts, 1 .. n
    SharedPosts,    \* those of them whose URL users submit, too
    Pollers,        \* runs of the polling task
    Hooks,          \* webhook requests that can be served at the same time
    OFFICIAL_POST_POLLING_ENABLED, \* FALSE unless an operator opts in
    FETCH_LIMIT,    \* OFFICIAL_POST_FETCH_LIMIT
    MAX_ATTEMPTS,   \* MAX_RETRIES of the sender: attempts at one message
    MaxPostFaults   \* bound: handlers that stop half-way, attempts at a message
                    \* that fail

ASSUME PostsAssumption ==
    /\ IsFiniteSet(Posts) /\ Posts = 1 .. Cardinality(Posts)
    /\ SharedPosts \subseteq Posts
    /\ OFFICIAL_POST_POLLING_ENABLED \in BOOLEAN
    /\ FETCH_LIMIT \in Nat \ {0} /\ MAX_ATTEMPTS \in Nat \ {0}
    /\ MaxPostFaults \in Nat
    /\ Pollers \cap Hooks = {}

VARIABLES
    onX,         \* posts the account has published
    rows,        \* SocialMediaLink rows per canonical URL and origin, up to two
    ingests,     \* what each ingesting handler is doing
    inserting,   \* feed submissions of a URL that found no row, up to two
    outbox,      \* posts whose row has been created and whose notification is due
    failed,      \* attempts at the message of a post that failed
    announced,   \* copies of the message that reached the admin chat per post
    ingesting,   \* OFFICIAL_POST_INGESTION_ENABLED
    postFaults

postsVars == <<onX, rows, ingests, inserting, outbox, failed, announced, ingesting, postFaults>>
sending == <<outbox, failed, announced>>

Ingesters == Pollers \cup Hooks
Origins == {"official", "feed", "direct"}
Idle == [stage |-> "idle"]
Busy(w) == ingests[w] # Idle

UpToTwo(n) == IF n < 2 THEN n ELSE 2
HasRow(u, origin) == rows[u][origin] > 0
HasUrl(u) == \E origin \in Origins : HasRow(u, origin)
Insert(u, origin) == rows' = [rows EXCEPT ![u][origin] = UpToTwo(@ + 1)]

(* An automated row counts for since_id; a human's row of the same URL does *)
(* not, it carries no post_id.                                              *)
latest_post_id ==
    LET stored == {p \in Posts : HasRow(p, "official")} IN
    IF stored = {} THEN 0 ELSE CHOOSE p \in stored : \A q \in stored : q <= p

---------------------------------------------------------------------------
Publish ==
    /\ onX # Posts
    /\ onX' = onX \cup {Cardinality(onX) + 1}
    /\ UNCHANGED <<rows, ingests, inserting, sending, ingesting, postFaults>>

(* While the switch is off the poll returns at once and a delivery is       *)
(* acknowledged and forgotten.                                              *)
Switch ==
    /\ ingesting' = ~ ingesting
    /\ UNCHANGED <<onX, rows, ingests, inserting, sending, postFaults>>

---------------------------------------------------------------------------
NewestFirst(posts) == {s \in SetToSeqs(posts) : \A m, n \in DOMAIN s : m < n => s[m] > s[n]}

fetch_user_postsPastNext(since) == \* Mutant: the first id after since_id is skipped
    NewestFirst({p \in onX : p > since + 1})

(* The poll asks for what is newer than since_id; X answers with the newest *)
(* FETCH_LIMIT of them, most recent first, and in this order they are       *)
(* ingested.  The value is the set of the answers, which has one element.   *)
fetch_user_posts(since) ==
    LET new == {p \in onX : p > since}
        newest == {p \in new : Cardinality({q \in new : q > p}) < FETCH_LIMIT}
    IN  NewestFirst(newest)

(* delivered: the posts of a webhook request that are to be ingested; a     *)
(* poll was delivered none.                                                 *)
Work(delivered, posts) ==
    [stage |-> "check", delivered |-> delivered, posts |-> posts, created |-> {}]

(* Polling is opt-in: without the switch beat has no entry for the task,    *)
(* and the task returns at once.                                            *)
Poll(w) ==
    /\ ~ Busy(w) /\ ingesting /\ OFFICIAL_POST_POLLING_ENABLED
    /\ \E posts \in fetch_user_posts(latest_post_id) :
          /\ posts # <<>>
          /\ ingests' = [ingests EXCEPT ![w] = Work({}, posts)]
    /\ UNCHANGED <<onX, rows, inserting, sending, ingesting, postFaults>>

(* A signed delivery.  A post whose account cannot be resolved and one      *)
(* without a usable id are logged and dropped, the others are ingested in   *)
(* the order of the payload, and all of them are answered together; if all  *)
(* are dropped, the 200 is all that happens.                                *)
Deliver(w) ==
    /\ ~ Busy(w) /\ ingesting
    /\ \E items \in SUBSET onX : \E usable \in SUBSET items : \E posts \in SetToSeqs(usable) :
          /\ usable # {}
          /\ ingests' = [ingests EXCEPT ![w] = Work(usable, posts)]
    /\ UNCHANGED <<onX, rows, inserting, sending, ingesting, postFaults>>

---------------------------------------------------------------------------
(* ingest_posts, per post: skip what has a row, then create.  The partial   *)
(* unique constraint on (account, post_id) turns a lost race into a skip;   *)
(* nothing does that for the URL.                                           *)
At(w, stage) == Busy(w) /\ ingests[w].stage = stage /\ ingests[w].posts # <<>>

Check(w) ==
    /\ At(w, "check")
    /\ ingests' = IF HasUrl(Head(ingests[w].posts))
                  THEN [ingests EXCEPT ![w].posts = Tail(@)]
                  ELSE [ingests EXCEPT ![w].stage = "create"]
    /\ UNCHANGED <<onX, rows, inserting, sending, ingesting, postFaults>>

CreateReported(w) == \* Mutant: the skipped post is reported as created
    LET p == Head(ingests[w].posts) IN
    /\ At(w, "create")
    /\ IF HasRow(p, "official") THEN UNCHANGED rows ELSE Insert(p, "official")
    /\ ingests' = [ingests EXCEPT ![w].stage = "check", ![w].posts = Tail(@), ![w].created = @ \cup {p}]
    /\ UNCHANGED <<onX, inserting, sending, ingesting, postFaults>>

CreateStageKept(w) == \* Mutant: the stage is not reset for the next post
    LET p == Head(ingests[w].posts) IN
    /\ At(w, "create")
    /\ IF HasRow(p, "official") THEN UNCHANGED rows ELSE Insert(p, "official")
    /\ ingests' = [ingests EXCEPT ![w].posts = Tail(@)]
    /\ UNCHANGED <<onX, inserting, sending, ingesting, postFaults>>

Create(w) ==
    LET p == Head(ingests[w].posts)
        done == [ingests[w] EXCEPT !.stage = "check", !.posts = Tail(@)]
    IN
    /\ At(w, "create")
    /\ IF HasRow(p, "official")
       THEN ingests' = [ingests EXCEPT ![w] = done] /\ UNCHANGED rows
       ELSE /\ Insert(p, "official")
            /\ ingests' = [ingests EXCEPT ![w] = [done EXCEPT !.created = @ \cup {p}]]
    /\ UNCHANGED <<onX, inserting, sending, ingesting, postFaults>>

(* The poll announces what it has created itself, the webhook queues it and *)
(* answers; the queueing may fail, which is logged and forgotten.           *)
Finish(w) ==
    /\ Busy(w) /\ ingests[w].posts = <<>>
    /\ \/ outbox' = outbox \cup ingests[w].created
       \/ w \in Hooks /\ ingests[w].created # {} /\ UNCHANGED outbox
    /\ ingests' = [ingests EXCEPT ![w] = Idle]
    /\ UNCHANGED <<onX, rows, inserting, failed, announced, ingesting, postFaults>>

StopAnswered(w) == \* Mutant: a database error is answered with a 200
    /\ Busy(w) /\ postFaults < MaxPostFaults
    /\ ingests' = [ingests EXCEPT ![w] = Idle]
    /\ UNCHANGED <<onX, rows, inserting, sending, ingesting, postFaults>>

(* The process dies, a time limit strikes or the database refuses: what was *)
(* created stays, the rest of the batch is lost, and nothing is answered.   *)
Stop(w) ==
    /\ Busy(w) /\ postFaults < MaxPostFaults
    /\ postFaults' = postFaults + 1
    /\ ingests' = [ingests EXCEPT ![w] = Idle]
    /\ UNCHANGED <<onX, rows, inserting, sending, ingesting>>

(* send_message, which tries up to MAX_ATTEMPTS times.  An attempt that     *)
(* fails, by a time-out for one, may have reached the chat all the same.    *)
(* Whether the last one failed, the sender raised or its process died, a    *)
(* message that was given up is not sent again.                             *)
Arrives(p) == announced' = [announced EXCEPT ![p] = @ + 1]

Announce(p) ==
    /\ p \in outbox
    /\ Arrives(p)
    /\ outbox' = outbox \ {p}
    /\ UNCHANGED <<onX, rows, ingests, inserting, failed, ingesting, postFaults>>

AttemptFails(p) ==
    /\ p \in outbox /\ postFaults < MaxPostFaults
    /\ postFaults' = postFaults + 1
    /\ failed' = [failed EXCEPT ![p] = @ + 1]
    /\ Arrives(p) \/ UNCHANGED announced
    /\ \/ failed[p] + 1 < MAX_ATTEMPTS /\ UNCHANGED outbox
       \/ outbox' = outbox \ {p}
    /\ UNCHANGED <<onX, rows, ingests, inserting, ingesting>>

---------------------------------------------------------------------------
(* submitFeedLink: one transaction under the advisory lock of the URL, in   *)
(* which the newest row of the URL is looked up and, if there is none, one  *)
(* is inserted.  A duplicate is reported and upvoted, which changes no row. *)
UrlIsFreeUnlocked(u) == inserting[u] < 2 \* Mutant: no advisory lock

UrlIsFree(u) == inserting[u] = 0

BeginSubmit(u) ==
    /\ u \in onX /\ UrlIsFree(u) /\ ~ HasUrl(u)
    /\ inserting' = [inserting EXCEPT ![u] = @ + 1]
    /\ UNCHANGED <<onX, rows, ingests, sending, ingesting, postFaults>>

EndSubmit(u) ==
    /\ inserting[u] > 0
    /\ inserting' = [inserting EXCEPT ![u] = @ - 1]
    /\ Insert(u, "feed")
    /\ UNCHANGED <<onX, ingests, sending, ingesting, postFaults>>

(* submitSocialMediaLink and the bot: neither a lock nor a look-up.         *)
SubmitDirectly(u) ==
    /\ u \in onX /\ ~ HasRow(u, "direct")
    /\ Insert(u, "direct")
    /\ UNCHANGED <<onX, ingests, inserting, sending, ingesting, postFaults>>

---------------------------------------------------------------------------
PostsInit ==
    /\ onX = {} /\ rows = [u \in Posts |-> [origin \in Origins |-> 0]]
    /\ ingests = [w \in Ingesters |-> Idle] /\ inserting = [u \in Posts |-> 0]
    /\ outbox = {} /\ failed = [p \in Posts |-> 0] /\ announced = [p \in Posts |-> 0]
    /\ ingesting = TRUE /\ postFaults = 0

Ingest(w) == Check(w) \/ Create(w) \/ Finish(w)

PostsNext ==
    \/ Publish \/ Switch
    \/ \E w \in Pollers : Poll(w)
    \/ \E w \in Hooks : Deliver(w)
    \/ \E w \in Ingesters : Ingest(w) \/ Stop(w)
    \/ \E p \in outbox : Announce(p) \/ AttemptFails(p)
    \/ \E u \in SharedPosts : BeginSubmit(u) \/ EndSubmit(u) \/ SubmitDirectly(u)

(* Where polling is enabled beat polls every five minutes and X answers in  *)
(* the end; where it is not, the first conjunct says nothing.  A handler    *)
(* that goes on comes to its end.  X's deliveries, the users, the switch    *)
(* and the failures are not fair.                                           *)
PostsFairness ==
    /\ \A w \in Pollers : WF_postsVars(Poll(w))
    /\ \A w \in Ingesters : WF_postsVars(Ingest(w))

PostsSpec == PostsInit /\ [][PostsNext]_postsVars /\ PostsFairness

---------------------------------------------------------------------------
(* Rows, handlers and counters stay in their types.                         *)
PostsTypeOK ==
    /\ onX \subseteq Posts
    /\ rows \in [Posts -> [Origins -> 0 .. 2]]
    /\ DOMAIN ingests = Ingesters
    /\ \A w \in Ingesters :
          Busy(w) => /\ ingests[w].stage \in {"check", "create"}
                     /\ ingests[w].delivered \subseteq Posts
                     /\ ingests[w].posts \in Seq(Posts) /\ ingests[w].created \subseteq Posts
                     /\ ingests[w].stage = "create" => ingests[w].posts # <<>>
    /\ inserting \in [Posts -> 0 .. 2]
    /\ outbox \subseteq Posts
    /\ failed \in [Posts -> 0 .. MAX_ATTEMPTS] /\ announced \in [Posts -> Nat]
    /\ ingesting \in BOOLEAN /\ postFaults \in 0 .. MaxPostFaults

(* However a post and its URL arrive, at once, twice or by several paths,   *)
(* ingestion stores it once and the feed stores it once: only different     *)
(* paths can be twins of each other.                                        *)
TwinsOnlyAcrossPaths ==
    \A u \in Posts : rows[u]["official"] <= 1 /\ rows[u]["feed"] <= 1

(* Redelivered, polled as well and fetched again after a crash, a post is   *)
(* announced to the admins by one send only: every copy but one is that of  *)
(* an attempt the sender saw fail, and there are at most MAX_ATTEMPTS.      *)
(* What users submit is never announced.                                    *)
AnnouncedByOneSend ==
    \A p \in Posts :
       /\ announced[p] <= IF HasRow(p, "official") THEN 1 + failed[p] ELSE 0
       /\ announced[p] <= MAX_ATTEMPTS

(* X does not redeliver what was answered with a 200: when the answer is    *)
(* given, every post of the delivery, but for the dropped ones, has a row,  *)
(* whoever else was inserting it and whichever post failed.                 *)
AckedIsLinked ==
    [][\A w \in Hooks :
          (ingests[w] # Idle /\ ingests'[w] = Idle /\ postFaults' = postFaults)
              => \A p \in ingests[w].delivered : HasUrl(p)]_postsVars

(* Where polling is enabled, and while ingestion stays on, a post is missed *)
(* only because a newer one got a row before it; that its delivery was      *)
(* lost, dropped or stopped is no reason.                                   *)
EveryPostIsLinkedOrPassed ==
    OFFICIAL_POST_POLLING_ENABLED /\ <>[] ingesting =>
        \A p \in Posts : p \in onX ~> \E q \in Posts : q >= p /\ HasUrl(q)
===========================================================================
