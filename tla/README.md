# Verification of the transit community backend

TLA+ models, TLC runs and TLAPS proofs for the backend in `src/`: a Django and
Strawberry GraphQL service with Celery workers, a Telegram bot and PostgreSQL.
It records sightings, calendar incidents and social links about the Malaysian
rail network, has the community and admins moderate them, ingests official
posts, and publishes media and push notifications.

Sections 1 and 2 are the inventory and the plan; 3 to 6 describe what is
modelled, checked and proved today; 7 is what is not. `PROJECT.json` lists the
runs, the mutants that show each property can fail, the lines of the source
that every definition stands for, the hazards and the findings.

## 1. Inventory

### Calendar incidents (`src/incident/services/incidents.py`, `chronologies.py`, `access.py`, `src/incident/tasks.py`)

State: `CalendarIncident` rows (status DRAFT, PENDING_APPROVAL, LIVE, REJECTED;
`version`; `parent`, set on a *revision* of another incident; author; soft
delete through safedelete), their m2m sets, and `CalendarIncidentChronology`
rows (a status of their own, plus PENDING_DELETION).

Operations: create, update, submit, approve (promote, or merge a revision into
its parent), reject, delete; the eight chronology calls; two daily purges.
An update by an author of somebody's LIVE incident makes or resumes a draft
revision instead of writing.

Interactions: a promotion or a merge that makes an incident LIVE and MAJOR
enqueues a push notification on commit; the GraphQL context supplies user and
admin flag; safedelete decides what a delete cascades to.

Hard: a call reads a row, checks it, and later saves the *whole* row; an update
is three separate transactions (columns, m2m sets, chronologies); a save of a
soft-deleted or purged row makes it visible again; a process can stop between
any two of these. Correct when nothing becomes public without an admin, an
incident has one open draft, chronologies fit their incident's status, a
delete leaves nothing waiting for a decision, no edit is silently overwritten
and no one is alerted twice.

### Social link threads (`src/incident/services/social_link_threads.py`)

State: `parent`, `position`, `occurred_at` of `SocialMediaLink`. Operations:
group (under a named link, or under the earliest of the selection), ungroup,
reorder; `submit`, re-dating and `delete` in `social_links.py` change the same
columns. Hard: acyclicity and the depth cap are enforced in the service alone;
transactions lock the rows they touch in different orders and walk the parent
column without locks. Correct when the result is a forest within the depth
cap, siblings have a definite order, regrouping is a no-op, callers move only
what they may, and every call ends.

### Social links, feed, votes (`social_links.py`, `feed_links.py`, `votes.py`, `social_link_visibility.py`, `schema/resolvers.py`, `schema/scalars.py`)

State: links (status PENDING_APPROVAL, LIVE, HIDDEN; `occurred_at`; the tree
columns; `completed_by`), reports, one vote per user and target. Operations:
submit, feed submission with deduplication on the canonical URL, update,
delete, mark completed, vote; the public feed, read page by page under a
keyset cursor, by a default window of days, flat or as thread cards with a
count of the sublinks. Hard: an advisory lock that only one of three writers of
links takes; pages read while links are re-dated, hidden and deleted; windows
that are decided on whole subtrees; a hidden link that hides what is beneath
it. Correct when a URL has one row per path that checks, a link that stays is
shown once, days are not torn, badges agree with what can be opened, and no
thread falls between two windows.

### Official post ingestion (`official_posts.py`, `x_webhooks.py`, `views.py`, `tasks.py`)

State: registered accounts, links with an external post id. Operations: poll
per account with a `since_id` derived from what is stored, webhook, redelivery,
announcement of new links. Hard: at-least-once delivery, a poll racing a
webhook, posts that are dropped from a delivery, a message that timed out and
arrived all the same, a `since_id` that masks a post that was missed. Polling is
opt-in and off by default. Correct when each post becomes one link, is announced
by one send, is not acknowledged before it has a row unless it was dropped, and,
where polling is on, is missed only behind a newer one.

### Line status (`line_status.py`)

Reports, tagged to a voted link or not, and three reads of them: the pulse, a
service day by hour, a week profile, the last two with the dominant status of
each bucket. Hard: 03:00 boundaries, ties, votes that weigh but must not erase.
Correct when the three reads agree.

### Web push (`push.py`)

State: at most 20 tokens per user, a cooldown per line in the cache. Hard:
claims under concurrent workers, retries after a part was sent, verdicts of the
provider on tokens that may have changed owner. Correct when a browser hears
once per cooldown and a live token is never deleted.

### Media pipeline (`src/common/tasks.py`, `signals.py`, `views.py`, `enums.py`)

State: `TemporaryMedia` with a status, a fail count and a file; `Media` once
published. Operations: upload, the signal that clears or queues it, approval by
an admin, conversion, a cleanup every minute, the upload switch. Hard: tasks
queued twice or lost, a worker that saves the whole row it read at its start,
kills between two steps. Correct when nothing that awaits review is published,
approvals are kept, a file is dropped only after its publication, and a row
that is pending or approved is settled at last.

### Accounts (`src/common/utils.py`, `models.py`, `src/rosak/context.py`)

State: users, verification codes, a credit ledger that is read and then
written. Correct when a request costs its price once, and a chat that is told
of its link is linked.

### Telegram (`src/telegram_provider/`)

State: per-chat rate limiter, an audit row per message, dead letters. Correct
when the rate holds up to those that were told to wait, and the audit tells
what was sent.

### Spotting (`src/spotting/`, `telegram_provider/utils.py`)

Events with a spotting date that a cut-off at 03:00 decides, a deletion window,
a digest sent at 03:01 for what was created since 03:01 the day before, to one
channel after the other, whether or not the message to the one before went out.
Correct when an event is in one digest, but for a digest that was given up.

### Import (`src/utils/import_range_utils.py`)

Traces are split into pieces per key, merged where the gap is small, and stored
as spans; nothing orders the pieces of a key. Correct when spans stand for rows
of their key, and cover them when the pieces came in order.

### Operation, chartography, jejak, reporting, generic, mlptf, other scripts

Operation is reference data edited in the admin site. Chartography counts rows
once a day. The others hold little or no mutable state (jejak reads an optional
second database).

## 2. Plan

Everything in this table exists. The abstract specification is `LinkThreads`;
`MCServices` composes what does not share a table into one run.

| # | Modules | Subject |
|---|---|---|
| 1 | `LinkForest`, `LinkThreads`, `SocialLinkTree` | the thread tree, calls that run alone; refines `LinkThreads` |
| 2 | `SocialLinkTreeTx` | the same calls as overlapping transactions; composes 1 with row locks |
| 3 | `CalendarIncidents` | incidents, revisions, chronologies, purges |
| | `UndisturbedIncidents` | 3 with the record of the incidents that overlapping calls were about |
| 4 | `MediaPipeline` | upload, approval, conversion, cleanup |
| 5 | `OfficialPosts` | poll, webhook, announcements, the three ways to submit a link |
| 6 | `PublicFeed` over `LinkForest`, `ServiceDay` | paging, windows, visibility, badges |
| 7 | `PushAlerts` | tokens, cooldowns, chunks, retries |
| 8 | `TelegramEgress` | limiter, attempts, audit, dead letters |
| 9 | `LineStatus` over `ServiceDay` | reports, votes, three reads that must agree |
| 10 | `CreditLedger`, `BotAccounts` | charging a request; linking a chat to an account |
| 11 | `SpottingDigest`, `RangeImport` | the digest's days; from rows to spans |

Proofs are in eight modules beside the ones they are about: `LinkForestProofs`
(lemmas on forests that three of the others use), `SocialLinkTreeProofs`,
`SocialLinkTreeTxProofs`, `CalendarIncidentsProofs`, `MediaPipelineProofs`,
`OfficialPostsProofs`, `PublicFeedProofs` and `ServicesProofs` (accounts, credits,
egress, digest, push, line status, import, and the composition `MCServices`).
Every safety property of a passing run is a theorem; liveness remains with TLC
(section 6). Still to be modelled: `social_links.update` and `mark_completed` as a
fourth kind of call of `SocialLinkTreeTx`. No module with a theorem uses a
RECURSIVE operator.

## 3. The modules and the code

### `LinkForest`

Operators on a parent column (a function from rows to rows or `Null`): children,
ancestors, depth, subtree, height, acyclicity. They stand for the recursive SQL of
the thread service and for the self-reference cascade of a hard delete.
Reachability is the least set that holds a row and is closed under the relation,
so no recursion is needed.

### `SocialLinkTree` and `LinkThreads`

Variables `parent`, `position`, `occurred_at` are the columns of the same
name; `caller` records who took the last step. One action per mutation:
`GroupNewThread` and `GroupUnder` (the two branches of `group`), `Ungroup`,
`Reorder`, and from `social_links.py` `Submit`, `EditOccurredAt`, `Delete`.
Each action is the whole transaction: locks, refusal, the writes, and the
renumbering of the target's children and of those of every parent left behind.

`LinkThreads` knows no positions: `before` is the set of pairs of sublinks of
one link, the earlier one first. Its actions say who ends where and which pairs
change; a guard that walks the tree is replaced by what it is for, a legal
forest afterwards. `SocialLinkTree` implements it under the mapping
`StoredBefore`, which reads the pairs off `position`, with the primary key as
tie-breaker as in `_reindex_siblings`. The mapping shows what the integer
arithmetic of positions must achieve.

### `SocialLinkTreeTx`

EXTENDS `SocialLinkTree` and runs its three service calls as READ COMMITTED
transactions. `pc` is the statement a transaction is at, `want` and `held` the
rows of the current statement and the row locks, `seen` what it has in memory.
`LockRow` takes one row lock and re-reads the row; `ReadChain` and
`ReadHeights` are the two lock-free recursive queries (the second is one query
for each mover in the code and one step here; no property that is checked depends
on it); `WriteGroup`,
`WriteReorder`, `WriteUngroup` are the bulk update and the commit. The values
written are computed by the operators of `SocialLinkTree`. `DeadlockVictim`
is PostgreSQL aborting a member of a waiting circle. The rows are fixed and
the callers are admins; the calls come from a named set.

### `CalendarIncidents`

`incidents`, `chronologies` are the tables (chronologies that are soft-deleted
are dropped: no modelled call reads them); `lines` is the m2m content of each
incident, kept apart because it is written apart; `jobs` is the call each
worker is in: the stage it has reached, the user, and the row it holds in
memory; `queued` the push tasks; `expired` the row a purge holds.

A `ReadFor...` action is the first half of a call: fetch, permission check, status
check, and it stores the row. The second half is one action per transaction:
`LookForDraft`, `Revise`, `WriteFields`, `WriteTags`, `WriteChronologies`;
`SubmitIncident`, `Promote`, `Merge`, `RejectIncident`; `ResolveChildren`,
`SoftDelete`; `SaveChronology`, `DropChronology`. `Fail` ends a call at any stage.
`Save` writes the row from memory and clears the soft-delete mark, which is what
safedelete's `save()` does, and inserts the row again when it was purged
meanwhile. `HardDelete` cascades to revisions and chronologies. `LoadDeleted`,
`LoadRejected` and `Purge` are the two daily tasks.

Abstractions: an edit's content is one value for columns and m2m sets; the four
m2m sets of one edit are written in a step; the writes of a call's chronologies
are a set of identities, their order is left out; `ResolveChildren` is one step
although the code commits row by row (`incidents.py:450`), so what a stop between
two of these rows leaves behind is not covered; a purge holds one row at a time,
and a row's age is not modelled, so anything in a purgeable state may be
loaded; a version past `MaxVersion` stays there; the client's version is the
version it read, other versions being refused before anything changes. A
primary key is used again only when no row, call, task or purge holds it, as
a sequence would not reuse one at all. Authors do not disappear.

Operators introduced by a comment that begins with "Slip" or "Mutant", here and
in every other module, are not part of the specification: each is a plausible
error in the definition below it and serves to show that a property would
notice.

### `MediaPipeline`

`staged` are the `TemporaryMedia` rows, `queue` counts the queued conversions of
each, `jobs` is the conversion each worker is in with the COPY of the row it
holds, `approving` the row an `/approve` has read. `Receive` is an upload by web
or bot with the `post_save` signal; `FindAwaiting` and `Approve` the two halves
of `/approve`; `Take`, `PostToDiscord`, `CreateMedia`, `Attach`, `Finish` the
conversion, statement by statement, `Fail` its handler of exceptions and `Kill`
the death of the worker; `Cleanup` the periodic task. `disturbed` is a history
variable: uploads whose handlers overlapped or were killed, for which the code
promises no single attachment. `Receive` reads twice whether the uploader is
trusted, in the handler and in the signal; with `ClearancesChange` the answers
may differ. The handler reads the upload flag before either, only to choose the
words of its reply; the model reads it in the same step. The screening of images is not modelled: it
returns before it does anything, because `tasks.py:45` compares a string with an
enum member by identity.

### `OfficialPosts`

A post is identified with its canonical URL; `rows` counts the links of a URL by
the path that inserted them. `Poll`, `Deliver`, `Check`, `Create`, `Finish` are
ingestion, by a polling task or a webhook request, post by post;
`fetch_user_posts` is the set of the answers X may give, the newest posts after
`since_id`, newest first, which is one sequence; `Create` loses a race to the
unique constraint. `Stop` is a death, a time limit or a refusal of the database
anywhere in between.

`Poll` needs `OFFICIAL_POST_POLLING_ENABLED`: without it beat has no entry and
the task returns at once, which is how the program is shipped. The manual command
that polls regardless is left out. `Deliver` takes from a delivery the posts that
are usable: one whose account cannot be resolved and one without an id are
dropped, which the code logs and answers with a 200, as it does when nothing is
left.

`Announce` and `AttemptFails` are the attempts of `send_message` at the message
of one post, up to `MAX_ATTEMPTS`. An attempt that fails may have arrived
(`Arrives`), so an admin may read an announcement more than once: `announced`
counts the copies, `failed` the attempts that failed. A message that was given up
is not sent again.

`BeginSubmit` and `EndSubmit` are the feed's transaction under the advisory lock,
`SubmitDirectly` the path without it, for the posts of `SharedPosts`. Rows are
neither deleted nor given another URL here.

### `PublicFeed` and `ServiceDay`

`table` are the links a reader may meet, `walk` the request that is being paged
and what it has shown. `Begin`, `ReadPage`, `ReadDay`, `Probe` are the queries of
one page; between any two of them a link may be submitted, updated or deleted. The
filters, the window predicates (decided on a root's subtree when threads are
collapsed), the visibility gate and the two views of a subtree are operators of
the same names. A page is a set of rows, the leading ones of its query, and
`walk.shown` counts how often each link was on a page; the order within a page is
the one of the query, `Before`. `Suppressed` is the pass of
`_publicly_visible_subtree` in the order of the loader, depth first
(`LoadedBefore`): a row is dropped if it is hidden or if its parent was dropped
before it. Siblings are ordered by primary key, the tie-breaker of the code's
`position`, which the feed does not model otherwise. `ServiceDay` has the two notions of a day, the
calendar's and the service day that begins at a given hour.

### `PushAlerts`

`subs` are the subscriptions, each with its owner, its lines and `modified`, the
time of its last registration, by which `register` evicts what exceeds
`MAX_TOKENS_PER_USER`; `cooldown` the claimed lines, `tasks` the run of each
incident's task: `Begins` looks at the incident and at the lines that are
followed, `ClaimLine` is one `cache.add`, `ReadTokens` the list of tokens,
`SendChunk` the send of a chunk with FCM's verdicts, `DropStale` the deletion of
the stale tokens and, if FCM took nothing, the exception. Registrations, removals
and other tasks come between any two of these. A run that fails while it claims
leaves its claims behind, as in the code. An incident may be withdrawn while its
task is queued; a run that has begun looks at it no more.
The query of the tokens has no order, so a chunk is any `FCM_MULTICAST_LIMIT` of
its rows; `distinct()` is what keeps one row of a token that follows two claimed
lines. `Verdict` is what the provider may answer for a token, given what its
browser has become, which a behaviour begins with: a token that FCM has dropped
stays dropped. `heard` what each browser was shown since its line was
claimed.

### `TelegramEgress`

Time in ticks; a call acquires, waits, sends, stamps or retries. `_timestamps`
is the limiter's deque of a chat, as the set of the slots it gave out: it is in
the order of time, so dropping what is too old from its head is a filter and its
head is the oldest slot. A call that was told to wait sends when it wakes, without
asking again, as in the code. `passes` and `arrived` are histories.

### `CreditLedger` and `BotAccounts`

`CreditLedger`: a request's charges are prepared one by one against the balance
read each time and stored in one insert. `BotAccounts`: `/verify` finds the code,
loads its user and gathers three branches in any order, each of which may fail
while the others go on (`BranchFails`), the save also on the unique constraint;
it may die anywhere (`VerifyDies`). Beside it `update_user` saves the same row.
`presented`, `unsaved` and `unlinked` are histories: whose codes a chat has
presented, which links were not saved, and which `update_user` has overwritten
with an older copy.

### `LineStatus`, `SpottingDigest`, `RangeImport`

Mostly operators: `load_line_pulse`, `bucket_hourly`, `bucket_week_profile` over
a growing set of reports and votes, with `_dominant_status` in every bucket; the
spotting date and the digest's interval over a clock of three instants a day
(before 03:00, the minute of 03:00, after), and the loop over the channels, in
which `DeadLetterDigest` is a message that `send_message` gave up: it may have
arrived, the loop goes on, and `undelivered` remembers it;
the split, merge and storage of a trace. Rows that tie in the sort come in any
order, the pieces of each key in any order of their own (a piece is named by the
place of its first row; `inOrder` are the keys whose pieces came in order), and an insert may be retried after it had succeeded.
What a status weighs is written as a count of ballots, one for each unit of the
contributions, which is their sum.

### `MCServices`

These nine hardly meet: links are all that two of them share, and each models
the writers of links that it depends on, so their interleavings would say
nothing new. `MCServices` puts them side by side: every service begins in one of
its own initial states, and only the one in `focus` takes steps. For those out of
focus one initial state is enough (`FeedAtRest`: no links yet; `PushAtRest`: the
payloads are accepted), so the state space is the sum of the nine, not the
product. `EachServiceAsAlone` proves that this composition implements each
service's own specification.

### MC modules

`MCSocialLinkTree`, `MCSocialLinkTreeTx`, `MCCalendarIncidents` and `MCServices`
give the constants their values: users, owners, forests, calls, contents,
requests, prices, traces.

## 4. The runs

| run | question | bounds | result |
|---|---|---|---|
| `link_tree` | types, acyclicity, who may move, refinement of `LinkThreads` | 3 links, 2 users, 2 instants, cap 3 | holds |
| `link_tree_deep` | depth cap, sibling order, regrouping | 4 links, 1 admin, 1 instant, cap 2 | holds |
| `link_tree_tx` | memory agrees with the table, order, every call ends | 4 links, 2 transactions, named calls | holds |
| `link_tree_tx_cycle` | acyclicity across two transactions | as above, calls that land beneath each other | violated |
| `cycle_refusal` | a call is refused as a cycle only when it would be one | 4 links | violated |
| `incident_workflow` | referential integrity, chronology states, deletion, live edits, alerts | 1 worker, 2 incidents, 1 chronology, 2 contents, 2 users | holds |
| `incident_drafts` | one open draft | 1 worker, 3 incidents, 3 users | holds |
| `incident_overlap` | only admins publish | 2 workers, 2 incidents, 2 users | holds |
| `lost_update` | a version mismatch never overwrites | 2 workers, versions to 3 | violated |
| `media` | the review gate, kept approvals, no file dropped unpublished, one attachment, settlement | 1 upload, 2 workers, 2 approvers, 1 fault, 2 toggles | holds |
| `media_enabled` | what was received while uploads were off is published later | 1 upload, 1 worker, no fault | violated |
| `services` | the nine smaller services, seventeen properties | `Services.cfg`, below | holds |

Why the bounds are enough. Four links with a cap of two contain a root,
a chain at the cap, a sibling set, and a link that moves from beneath one parent to
beneath another; three links with two instants contain every tie and every order of
arrival. `link_tree` has the code's cap of 3, which three links never reach: a low
cap would refuse most cycles by itself and hide a hole in the cycle check. Two
transactions show every conflict of a pair of calls; circles of three or more
waiting transactions are left out. Two incidents are an incident and its
revision; the third in `incident_drafts` is a second draft, of another user. A
worker that failed half-way leaves the same tables whatever it would have done
next, so with one worker every *sequence* of complete and broken calls is
covered; two workers add each pair of overlapping calls.

`link_tree_deep` has one instant: ties are then broken by the primary key, which
is the harder case; `link_tree` varies the instant. `incident_overlap` and
`lost_update` leave chronologies out: publication does not depend on them.
Symmetry is used in `CalendarIncidents` alone, over primary keys, workers and the
two users without rights; no run with a liveness property uses it. The other
bounds are named `Max...` and described where they are declared.

`media` needs one upload: rows meet only in the queue, whose order is not
modelled, and two workers with two approvers make every pair of handlers of one
row overlap. Five failures are two, which is enough for a row that still has
attempts left and one that has none.

`services`, by service. Posts: two posts, so that one is newer, one of which
users submit too (`SharedPosts`); polling enabled; a poll beside a webhook; one
fault (`MaxPostFaults`), a handler that stops or an attempt that fails, which is
enough for a second copy of an announcement. That the attempts end at
`MAX_ATTEMPTS` is beyond this bound, and proved (`OneSendPerPost`). Feed: three links over two days
with pages of one, two forests (one in which a row hangs below a later one, as a
pass in the wrong order would miss, and two sublinks of one root), one change while the pages
are read; the requests are a flat list, a flat list aligned to days, cards with
either window, and the caller's own list. Push: two incidents that share a line,
three browsers of two users, one that works, one whose token FCM refuses and one
that is gone (`OneAlertPerCooldown` and `LiveTokensSurvive` are about each
working token by itself, and a chunk of two puts it beside either), a payload
that FCM takes or refuses, one registration or removal (`MaxChanges`), one fault
(`MaxPushFaults`). Egress: two messages to a chat that
takes one per window. Credits: two overlapping requests of up to three charges.
Accounts: two accounts, two chats, two codes. Line status: three reports over
six hours, two-hour days, two-day weeks, one tagged link. Spotting: two events,
two channels, a report up to a day late and one digest that is given up
(`MaxUndelivered`). Import: traces of up to four rows
and two keys, one of which joins ambiguously.

`MaxPosition`, `MaxCalls`, `MaxVersion`, `MaxOriginals`, `MaxQueued` are the
bounds inside the actions of the tree and of the incidents. The first is above
what renumbering in tens can reach from the links at hand; `MaxOriginals` leaves
room for revisions; push tasks past `MaxQueued` are enqueued but not kept track
of, and runs that ask nothing about alerts keep track of none.

`OneOpenDraft`, `ChronologyStatesFit`, `NothingPendingUnderDeleted`, `NoRealert`
and `LiveChangedByAdmin` are checked with one worker: the code takes no lock
between the read and the save, and they fail for an incident that two overlapping
calls are about. That calls on different incidents do not reach one another is
proved (`OverlapsStayApart`, section 5), not checked by a run.

### Fairness

`TxSpec`: weak fairness of each transaction's steps. A running
transaction executes its next statement unless it waits for a lock; the holder
of that lock is itself such a transaction, and PostgreSQL breaks circles after
`deadlock_timeout`. No fairness is assumed of users, who need not call at all.

`FairSpec` of `MediaPipeline`: weak fairness of the cleanup, which beat starts
every minute, of the clock, and of a worker's next statement; strong fairness of
taking a queued task, since workers become busy and free again while it waits
and the broker's queue is FIFO. The switch, approvals, failures and kills are
not fair.

`PostsFairness`: the poll, which beat starts every five minutes where polling is
enabled, and the next statement of a running ingestion. Publication, delivery,
the switch, stops and failed attempts are not fair. `EveryPostIsLinkedOrPassed`
has polling and lasting ingestion in its antecedent, and holds without the
webhook; in the shipped configuration nothing polls, and the code promises
nothing for a post whose delivery was lost.

### Findings

1. `link_tree_tx_cycle`: the header of `social_link_threads.py` says that the
   service enforces "NO CYCLES". Two groupings that lock disjoint rows each
   walk the committed tree, find no clash, and together close a cycle.
2. `cycle_refusal`: a comment says that a cycle exists *exactly* when a mover
   is above the target. When the target is the elected root of a new thread,
   its own parent is cleared by the same write, and the call is refused
   although no cycle would arise.
3. `lost_update`: the documentation says that a version mismatch raises a
   concurrency error. The version is compared with the row read at the start,
   and the save carries no condition on it.
4. `media_enabled`: the bot tells a user that a medium received while uploads
   are disabled "will be published once uploads are re-enabled". The upload of
   a trusted user is cleared at once, its task is dropped, and the cleanup
   queues only what is pending or was approved by an admin.

Some properties are stated for less than a reader may expect, because the code
does less.

* `TwinsOnlyAcrossPaths` counts each path by itself: only the feed takes the lock.
* `AnnouncedByOneSend` allows a copy for each attempt that failed: Telegram may
  have taken the message before the attempt timed out.
* `AckedIsLinked` excepts the posts that a delivery drops, which are answered with
  a 200 like the others and are stored nowhere.
* `SuccessMeansLinked` excepts a save that did not go through, for which the reply
  does not wait, and a link that `update_user` overwrote with an older copy.
* `EachEventInOneDigest` excepts the digest of a channel that `send_message` gave
  up: the loop goes on, the day ends, and nothing sends it again.
* `RateHeld` excepts the messages that had been told to wait, which send without
  asking again.
* `SpansCoverTrace` says for any order of the pieces that spans begin and end at
  rows of the key, keep their distance and reach the last row. That they leave no
  row out is said only of a key whose pieces came in order: a later piece that
  comes first swallows the earlier one. Keys that join ambiguously are excepted.

## 5. What is proved

Every invariant below was checked by TLC on a small instance before it was
proved. `incident_workflow` and the other runs show the properties; the theorems
hold for every value of the constants that satisfies the assumptions named at
the end of this section.

### Forests: `LinkForestProofs`

Facts about any parent column, for the tree, the feed and the incidents alike.
Lemmas about ancestors are stated with closed sets instead of path lengths,
because induction over data is out of the prover's reach; where an argument
does need a smallest case (`AncestorsLinear`) it takes the least element of a
set of naturals. `AncestorsAntisymmetric`, `AncestorsLinear`: without cycles the walk up
is one chain. `DepthIsNatural`, `ChildDepth`, `RootDepth`: depth counts that
chain. `MovedDepth`: where a row ends when what is above it moves.

### The thread tree: `SocialLinkTreeProofs`

For every set of links, users, owners and instants, and every cap:

* `TypeCorrect`: the columns are well formed and every parent exists.
* `TreeStaysAcyclic`: no sequence of calls makes a link its own ancestor.
  Acyclicity is inductive together with the types. The argument: a grouping
  re-parents a set of movers to one target; a path in the new tree from a row
  to itself would either avoid the movers, and be a path of the old tree, or
  pass the target, so that a mover was an ancestor of the target, which the
  check refuses.
* `OnlyEntitledMove`: the action property of who may move what.
* `TreeStaysShallow`: the cap. `_assert_depth` measures the height of each mover
  and the depth of the target before the write; `MovedDepth` shows that this is
  what the write makes of it, and `GroupingKeepsDepth` that rows below no mover
  do not sink, also when the elected root rises at the same time.
* `StoredOrderIsStrict`: siblings never share a position. Arrivals get ranks
  below those of the stayers, stayers keep distinct ranks, ranks of a finite set
  are distinct because a later row has strictly more rows before it, and a
  reorder or a deletion touches one sibling set only.
* `RegroupingIsIdempotent`: after a grouping the elected root is a root, its
  movers lead its sublinks, and the same call computes the same columns.
* `ThreadsImplemented`: `Spec => ImplementsThreads`, the refinement of
  `LinkThreads`, call by call. Renumbering keeps the order of a set
  (`NumberingKeepsOrder`), so the pairs `StoredBefore` change only as the
  abstract action says; `TreeStaysAcyclic` and `TreeStaysShallow` give the legal
  forest that the abstract action asks for; a changed `occurred_at` moves no
  pair.

### Overlapping transactions: `SocialLinkTreeTxProofs`

For any number of transactions and any set of calls:

* `MemoryStaysCurrent`: the invariant is `LockInv`: locks exclude one another,
  whatever is in memory is locked, the selection is locked once it was read, and
  memory says what the table says. A commit by another transaction writes only
  rows it holds, so it cannot touch what is in memory here.
* `OverlappingNeverTie`: siblings never share a position. `SublinksNeverTie` is
  not inductive with `LockInv`, which does not say that a sibling set was read
  *whole* before it is renumbered. `TxInv` adds, for each transaction, what its
  stage has read: of every parent it will renumber, the sublinks are in memory or
  wanted by the statement under way (`SiblingsCovered`); the target is locked
  before its sublinks are read (`TargetIsLocked`); and a reorder reads its
  selection, its target and sublinks of its target (`ReorderReads`). Nobody joins
  a set that is being read (`NobodyJoins`): the reader holds the parent when it is
  its target, and otherwise a sublink, which a writer who renumbers the same set
  must have read too. A commit then renumbers whole sets (`GroupWritesWhole`,
  `ReorderWrites`), to which `RenumberingNeverTies` applies. `NoCycles` is neither
  assumed nor true here: the argument only needs that no row is its own parent.
* `CallsWriteAsAlone`: an action property that relates the overlapping calls to
  those that run alone: a group, and a reorder beneath a parent, write the columns
  that the operators of `SocialLinkTree` give for the whole table at the commit,
  although they are computed from the rows in memory. A reorder of roots is the
  exception: no lock keeps a link from becoming a root meanwhile.

### Incidents: `CalendarIncidentsProofs`

For any number of workers, users and incidents, and any overlap of their calls:

* `AlwaysEntitled`: the invariant `Inv`, that is `WellTyped` with
  `SavesAreEntitled`. `PublishedOnlyByAdmin` alone is about a step and says
  nothing of the rows that calls hold in memory: a stale LIVE row, or a stage
  that promotes, could publish later. The strengthening says that a call about
  to promote or merge is an admin's, and that an edit about to save its columns
  holds a LIVE row only if it is an admin's. The first comes from the checks at
  the start of approve; the second from `update_incident`, which sends anybody
  else who edits a LIVE row to a draft. Deletion saves a LIVE row too, but with
  its soft-delete mark.
* `PublicationNeedsAdmin`: `Spec => PublishedOnlyByAdmin` from `Inv` and `Inv'`.
* `AlwaysLinked`: no foreign key dangles and no revision is its own ancestor.
  The hard case is a call that saves its copy of a row which was purged
  meanwhile: the row is inserted again, with the parent it had. `NoLoop`
  therefore counts what calls have in memory as said, and a step says nothing
  new of a row that something still names (`NothingNewSaid`). `TypeCorrect` is
  `AlwaysEntitled` and `AlwaysLinked`.

What the code does not promise for calls that overlap on an incident, it still
promises for all other incidents. `UndisturbedIncidents` adds a history variable
to `CalendarIncidents`: `disturbed` are the incidents that two calls in progress
at the same time were about. A call is about the row it works on and the row that
one revises; a call that shares one of these with another call, or with what is
disturbed already, disturbs all of its own. The variable restricts no step. For any
number of workers, users, incidents, contents and versions, with calls that stop
between any two of their transactions and purges at any moment:

* `OverlapsStayApart`: the invariant `CalmInv`. It adds to the above what the
  tables satisfy for every undisturbed incident (`Settled`: chronologies fit the
  status of their incident, drafts are leaves and at most one is open, a deleted
  incident is resolved), and for every call that is about undisturbed incidents
  only, that its copy is current and what its stage has checked or done
  (`QuietCallsReady`). The copy is the point: what fails on a disturbed incident
  fails because a copy is stale. The hard part is that merges, cascades, purges and
  stale saves of other calls do not reach an undisturbed incident.
* `ChronologiesFollowIncidents`, `DeletedLeavesNothingPending`,
  `DraftsAreUnique`, and the action properties `AlertsOncePerPublication` and
  `PublishedContentNeedsAdmin` follow, each for the undisturbed incidents. Where
  calls do not overlap at all nothing is ever disturbed, and these are the
  properties that `incident_workflow` and `incident_drafts` check; no run checks
  `UndisturbedIncidents` itself.

The races on one incident (two drafts, a stale decision, two merges) are exactly
what is excluded; `lost_update` exhibits one of them.

### Media: `MediaPipelineProofs`

For any number of uploads, workers and `/approve` handlers, and every bound:

* `MediaInvariant`: the invariant `Inv`. `ReviewGate` alone is not inductive: it
  is about what was published and says nothing of a queued task or of a worker
  half-way. The strengthening: before its approval an upload that awaits review
  is in no queue and with no worker (`AwaitingIsUntouched`); only rows in review
  are approved (`AwaitingIsReviewed`); a worker's copy is never one in review or
  one to delete, carries the approval of an approved upload, and belongs to a
  published upload once the worker attaches (`CopiesAreSafe`), so that the save
  of a whole row can neither take an approval back nor mark an unpublished file
  for deletion. `SaveIsSafe` is that argument, once for the three saves.
* `TypesHold`, `NothingUnreviewed`, `ApprovalsStay` and
  `NoFileDroppedUnpublished` follow from it.
* `NeverAttachedTwice`: `OnceInv` says that an upload which was left undisturbed
  is with one handler at most (`HeldAlone`), and that once its medium is
  attached the one conversion left has only to save the row as done, or the row
  says so already (`AttachedIsDone`).

### Posts: `OfficialPostsProofs`

For any number of posts, polls and webhook requests:

* `PostsInvariant`: the invariant `Inv`. `RowsFit`: an insertion of ingestion
  looks for its own row, one of the feed holds the lock of a URL without a row.
  `AnnouncementsFit`: a created post is with one handler, or due, or done with,
  never in two of these places, and always has a row, and the copies of its message
  are accounted for by its attempts; this is why a repeated delivery or a poll after
  a crash cannot announce it again. `DeliveriesFit`: every post that a request took
  is before its handler, or behind it with a row of its URL.
* `PostsTyped`: posts appear in the order of their ids and handlers hold sequences
  of posts (`BatchesFit`). That a batch is a sequence needs that the answer of a
  fetch exists: a finite set of ids has one descending sequence.
* `TwinsComeFromDifferentPaths` and `OneSendPerPost` follow, and
  `AnswerMeansLinked` is the step in which a request ends: only `Finish` and
  `Stop` end one, and `Stop` answers nothing.

### The feed: `PublicFeedProofs`

For any links, instants, page size, groupings, walks and number of edits:

* `LinksStayForest`: submissions are roots, deletions free their sublinks, and
  no other edit touches the parent column.
* `BadgeAlwaysMatches`, `WindowsAreCovered`: facts about every forest. The
  visible subtree of a card is closed towards the card, so a visible link is
  reached through visible ones; and a window asks a card about its whole
  subtree, which contains the rows the flat window lists.
* `StayingLinksShown`, `PagesAlign`: the invariant `WalkInv`. The cursor divides
  the links that stay: those up to it were shown once, those after it not yet
  (`CursorDivides`); nothing that stays is after the cursor of the last page
  (`NoneLeft`); and between aligned pages nothing that stays is after the cursor
  and of its day (`DayIsComplete`). A page is a leading part of its query
  (`PagesLead`), and continuing from its last row finds exactly the rest
  (`ContinueAfterPart`).
* `FeedTyped`: the feed's part of `ServicesTypeOK`.

### Accounts, credits, egress, digest, push, import, line status: `ServicesProofs`

Accounts, for any number of accounts, codes and overlapping requests:

* `AccountInvariant`: the branches of the gather run in any order and fail one by
  one, so the invariant says what is on record of each that is done: a save has
  linked the account or is among the unsaved ones, and the reply has named the
  account. Copies hold links of chats that have presented a code (`CopiesFit`), a
  later save of an older copy keeps a link or records it as overwritten, and the
  unique constraint keeps the Telegram accounts apart.
* `SuccessIsALink`: `SuccessMeansLinked` follows.

Credits, for any number of requests and any prices:

* What a price adds up to is a sum over a sequence. No induction is needed: a
  counterexample of least length would have a shorter one (`LeastNatural`), which
  gives `TotalOfTail`, the sum is the head and the sum of the rest.
* `CreditInvariant`: what is prepared and what is still due make the price
  (`ChargesSplit`), the ledger is what was owed (`LedgerAddsUp`), and while no two
  requests have crossed the free balance covers every prepared row
  (`FreeIsCovered`). `FreeCreditsHold`: `FreeCreditsNotOverdrawn` follows.

Egress, for any number of calls and chats, any window, limit and backoffs:

* `EgressInvariant`: the limiter's list holds messages that passed at once and
  every one of the last window (`SlotsArePasses`), which is why its length bounds
  what any window that contains this instant has seen (`RoomForOne`: an injection
  of passes into slots). Every window holds at most the limit (`WindowsHold`); a
  sleeper wakes a window after a message that passed at once (`WaitersFollow`);
  the audit row fits the stage of its call (`AuditFits`).
* `EgressStaysGoverned`: `EgressIsGoverned` follows. It does not say that a window
  holds at most the limit: those who slept are not counted again, here as in the
  code.

Digest, for any number of days, channels and spottings:

* `DigestInvariant`: the task of a day is queued at its 03:01, both instants at
  which a worker may read its clock give the same date (`DatesFit`), and an event
  whose day is closed is in the digest of every channel that had its turn, unless
  that digest was given up (`ServedIsListed`). `ClosesOn` turns the spotting date into the interval the
  digest selects.
* `EventsAreDigestedOnce`: `EachEventInOneDigest` follows.

Push, for any number of incidents, lines, browsers, faults and any chunk size:

* `PushInvariant`: a claimed line is held by one task (`LinesHeld`), a list names a
  token once (`OnceOnList`, which is `distinct()`), and a token that `MayHear` of
  a line, because nobody claimed it or the holder has not sent to it, has heard no
  more of it than the runs that raised account for (`HeardFits`). A run sends no
  token more than one message, whether or not its last chunk arrived: that is why
  one message more per failed run is enough.
* `AlertsAreRationed`: `OneAlertPerCooldown` follows. `WorkingTokensStay`: the
  action property `LiveTokensSurvive`. A payload that is refused is refused to all
  tokens of a chunk, so what a run keeps as stale is dead (`StaleAreDead`); and it is
  still dead when the rows are deleted, a step later, whoever has registered the
  token meanwhile (`StaleStayDead`).

Import, for any files, threshold and number of broken connections:

* `ImportInvariant`: while the spans of a key are merged they begin and end at its
  rows and reach the last of them, whatever order the pieces have; if it is the
  order of time, they also cover the rows, each ending before the next begins. A
  split establishes it: the rows are sorted, so a piece is a run of rows
  (`PiecesAreRuns`), and for a key whose string is its own the pieces are its rows
  and nothing else (`PiecesOfPlainKeys`); a merge of two neighbours keeps it. No
  induction over the list is needed, because the merges are steps of the model: one
  pair at a time, as in `group_is_close_dt`. `StoredAreFinal`: nothing is stored
  before the spans are final, and nothing more often than one more than the breaks.
* `SpansStandForRows`: `SpansCoverTrace` follows.

Line status, for any lines, voters, tagged links, reports, days and weeks:

* `LineReadsAlwaysAgree`: `LineReadsAgree`. `StatusInv` only says that reports lie
  in the past and votes are votes; the work is in the operators. A report of the
  last weeks lies in exactly one service day of those that the history offers, and
  the weekday of that day is the one the profile files it under (`WeeksAreDays`,
  `HistoryMatches`). A status that prevails in every bucket of a slot prevails in
  their union, ties included, because reports of different days are different ones. The pulse shows a status that exists (`HeaviestExists`: the
  order by weight, latest report and severity is total and has a maximum on a
  finite set), and where no link has a positive score every report has one ballot,
  so weights are counts (`BallotsAreCounted`).

Types of the services: `AccountsTyped`, `CreditsTyped`, `EgressTyped`,
`SpottingsTyped`, `PushTyped`, `ImportTyped`, `StatusTyped`, beside `PostsTyped` and
`FeedTyped`. Most need a part that the invariants above did not: that a message
that may still be sent has arrived less often than it was attempted
(`ArrivalsFit`), that no event is of the future (`EventsInTime`), that
registrations differ in their time (`TimesApart`: a registration is later than all
before it).

The composition: `EachServiceAsAlone` maps every initial state and step of
`MCServices` to one, or a stutter, of each service, so that all theorems about a
service hold of the instance TLC checks. `ServicesTyped`, that is
`ServicesSpec => []ServicesTypeOK`, follows from it and the nine typing theorems.

### Assumptions

The named ASSUMEs of the modules, which TLC evaluates in the runs: admins are
users; primary keys are positive and finitely many, so `Null` is no row; `None`
is no upload, `Empty` no content, `NoTelegram` and `NoAccount` no account; posts
are numbered from 1; instants and bounds are naturals, a page has at least one
row, a day at least one instant; the groupings a walk or a transaction starts
from are forests of the links; the requests that are walked through are requests.
`PushAssumption`: the registrations a behaviour starts from are of different
times. `ImportAssumption`: a file has finitely many rows, times and left keys are
naturals, and the joined string of a key without a null is not empty (the left
key, a number, is in it). `StatusAssumption`: lines and voters are finitely many.
`CallsAssumption`: the calls of `SocialLinkTreeTx` select some rows of the table
and target one or none, which is what is left of `_normalize_ids` (no empty
selection, no id twice) and of the refusal of unknown ids, a read before any lock;
and the forests that overlapping calls start from are acyclic. Those are the
forests that calls which run alone leave behind (`TreeStaysAcyclic`).

## 6. Only model-checked

* Liveness: `EveryCallEnds`, `PendingIsSettled`, `EveryPostIsLinkedOrPassed`.
  Fairness needs ENABLED, which is out of the prover's reach.
* The wait of all transactions on one another in `SocialLinkTreeTx`, beyond the
  circles of two: that `EveryCallEnds` is checked with two transactions.
* The refutations: the runs that expect a violation.

## 7. Not modelled

* `social_links.update` and `mark_completed` as transactions that overlap
  regrouping (they save whole rows); soft-deleted links; authors that are
  removed; the display order of chronologies.
* The feed's filters by line, category and text, totals, and the gate-free list
  of links under an incident (`scalars.py:530`): filters commute with paging.
* Signatures of webhooks, the registry of accounts and its profiles, dry runs.
* Deduplication of bot updates and the log of replies; commands that only read.
* `add_width_height_to_media_task`, which fills in two columns, and the
  screening of images, which never runs.
* `spotting` read marks, one idempotent insertion per user and event.
* `get_trends` and the other aggregations: one query each, whose meaning is
  the database's.
* The other importers: one-shot scripts that share the helpers modelled here.
* Operation, chartography, jejak, generic, mlptf and reporting have no workflow
  of their own, or a single statement per day. Chartography's one hazard, a
  crash between a snapshot and its rows, is on the list of hazards.

The map covers a small part of the lines in `src/`: most of them are migrations,
admin pages, GraphQL types, parsing and formatting, seeds, and docstrings.
