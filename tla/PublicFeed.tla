----------------------------- MODULE PublicFeed ---------------------------
(* Reading the feed of social media links while it changes: the page query  *)
(* get_public_social_media_links with its gates, windows, conversation      *)
(* cards and day-aligned pages (incident/schema/resolvers.py, keyset.py),   *)
(* the nesting below a card (scalars.py, loaders.py), and the edits of      *)
(* social_links.py that happen between two queries of a reader.             *)
EXTENDS Integers, FiniteSets, LinkForest, ServiceDay

CONSTANTS
    LinkIds,            \* primary keys, 1 .. n; Null (0) is no link
    Automated,          \* links written by the ingestion (is_automated)
    Instants,           \* values of occurred_at
    Now,                \* the time of the reader's requests
    DAYS_BACK,          \* days before today that lastWeekOnly opens with, 6
    PAGE_SIZE,          \* first
    Forests,            \* the groupings of the links a behaviour starts from
    Walks,              \* the requests whose pages are walked through
    MaxEdits            \* bound: changes during one walk through the feed

ASSUME FeedAssumption ==
    /\ IsFiniteSet(LinkIds) /\ LinkIds \subseteq Nat \ {Null}
    /\ Now \in Nat /\ Instants \subseteq Nat /\ Automated \subseteq LinkIds
    /\ DAYS_BACK \in Nat /\ PAGE_SIZE \in Nat \ {0} /\ MaxEdits \in Nat
    /\ Forests \subseteq [LinkIds -> LinkIds \cup {Null}]
    /\ \A par \in Forests : Acyclic(par)

VARIABLES
    table,   \* SocialMediaLink: the rows that exist, by primary key
    walk,    \* a reader going through the pages of one request
    steady,  \* history: links that belonged to the request, unmoved, all the time
    edits

feedVars == <<table, walk, steady, edits>>

LinkStatuses == {"live", "pending_approval", "hidden"}
Link == [at : Instants, status : LinkStatuses, parent : LinkIds \cup {Null}]
Present == DOMAIN table
Parents == [x \in Present |-> table[x].parent]

(* order_by("-occurred_at", "-id")                                          *)
Before(x, y) == \/ table[x].at > table[y].at
                \/ table[x].at = table[y].at /\ x > y

last_week_start(now) == Midnight(now) - DAYS_BACK * INSTANTS_PER_DAY

---------------------------------------------------------------------------
(* The moderation gates, per row and, but for `mine', on the query.         *)
is_publicly_visible(x) ==
    /\ table[x].status # "hidden"
    /\ ~ (x \in Automated /\ table[x].status = "pending_approval")

SubtreeHas(x, bound) == \E d \in Subtree(Parents, x) : table[d].at >= bound

EventWindowOfRoot(x, bound, collapse) == table[x].at >= bound \* Mutant: resolved on the root

EventWindowBeforeOfRoot(x, bound, collapse) == table[x].at < bound \* Mutant: resolved on the root

(* The windows ask about the row itself or, on cards, the conversation.     *)
EventWindow(x, bound, collapse) ==
    table[x].at >= bound \/ (collapse /\ SubtreeHas(x, bound))

EventWindowBefore(x, bound, collapse) ==
    table[x].at < bound /\ (collapse => ~ SubtreeHas(x, bound))

Requests ==
    [mine : BOOLEAN, collapse : BOOLEAN, align : BOOLEAN,
     window : {"all", "serviceDay", "lastWeek", "lastWeekAndToday"}]

ASSUME WalksAssumption == Walks \subseteq Requests

Request(mine, collapse, align, window) ==
    [mine |-> mine, collapse |-> collapse, align |-> align, window |-> window]

(* The filters of get_public_social_media_links.  Every link is the         *)
(* reader's own when `mine' is asked for.                                   *)
Listed(req) ==
    LET collapse == req.collapse /\ ~ req.mine IN
    {x \in Present :
        /\ req.mine \/ table[x].status # "hidden"
        /\ ~ (x \in Automated /\ table[x].status = "pending_approval")
        /\ collapse => table[x].parent = Null
        /\ req.window = "serviceDay" => EventWindow(x, service_day_start(Now), collapse)
        /\ req.window \in {"lastWeek", "lastWeekAndToday"}
              => EventWindow(x, last_week_start(Now), collapse)
        /\ req.window = "lastWeek" => EventWindowBefore(x, Midnight(Now), collapse)}

(* A cursor is the instant and the id of the last row that was read.        *)
NoCursor == [at |-> -1, id |-> Null]

AfterInstant(x, cursor) == \* Mutant: the predicate compares instants only
    cursor = NoCursor \/ table[x].at < cursor.at

After(x, cursor) ==
    \/ cursor = NoCursor
    \/ table[x].at < cursor.at
    \/ table[x].at = cursor.at /\ x < cursor.id

(* A page query, what its first n rows are, and the rows at its two ends.   *)
Rows(req, cursor) == {x \in Listed(req) : After(x, cursor)}
Leading(n, rows) == {x \in rows : Cardinality({y \in rows : Before(y, x)}) < n}
FirstOf(rows) == CHOOSE x \in rows : \A y \in rows \ {x} : Before(x, y)
LastOf(rows) == CHOOSE x \in rows : \A y \in rows \ {x} : Before(y, x)
CursorOf(x) == [at |-> table[x].at, id |-> x]

---------------------------------------------------------------------------
(* The nesting below a card.  The loader reads the whole subtree, each row  *)
(* followed by what hangs below it; siblings are ordered by position, for   *)
(* which the id, its tie-breaker, stands.                                   *)
LoadedById(e, d) == e < d \* Mutant: one order for the whole subtree

LoadedBefore(e, d) ==
    \/ e # d /\ e \in Ancestors(Parents, d)
    \/ \E a \in Ancestors(Parents, e), b \in Ancestors(Parents, d) :
          table[a].parent = table[b].parent /\ a < b

(* One pass over the rows: a row is suppressed if it is not public, or if   *)
(* its parent has been suppressed by the time the row is reached.           *)
Suppressed(x) ==
    LET rows == Subtree(Parents, x) \ {x} IN
    CHOOSE out \in SUBSET rows :
        \A d \in rows :
            d \in out <=> \/ \E p \in out : p = table[d].parent /\ LoadedBefore(p, d)
                         \/ ~ is_publicly_visible(d)

VisibleSubtree(x) == Subtree(Parents, x) \ ({x} \cup Suppressed(x))

sublink_count(x) == Cardinality(VisibleSubtree(x))
sublinks(x) == {d \in VisibleSubtree(x) : table[d].parent = x}

---------------------------------------------------------------------------
(* A walk: page after page until hasNextPage is false.  A page is one query *)
(* for the rows and, when it has to be completed to the end of a day, a     *)
(* second for the rest of the day and a third for what follows.             *)
Idle0 == [stage |-> "idle"]
Reading(stage) == walk.stage = stage

Begin(req) ==
    /\ Reading("idle")
    /\ walk' = [stage |-> "page", req |-> req, cursor |-> NoCursor,
                shown |-> [x \in LinkIds |-> 0], lookahead |-> NoCursor]
    /\ steady' = Listed(req)
    /\ UNCHANGED <<table, edits>>

(* How often each link was on a page, when the rows of one more query are.  *)
Showing(rows) ==
    [x \in LinkIds |-> walk.shown[x] + (IF x \in rows THEN 1 ELSE 0)]

ReadPage ==
    LET rows == Rows(walk.req, walk.cursor)
        page == Leading(PAGE_SIZE, rows)
        last == CursorOf(LastOf(page))
        lookahead == FirstOf(rows \ page)
        next == CursorOf(lookahead)
    IN
    /\ Reading("page")
    /\ walk' = IF rows = {} THEN [walk EXCEPT !.stage = "done"]
               ELSE IF rows = page
               THEN [walk EXCEPT !.stage = "done", !.shown = Showing(page), !.cursor = last]
               ELSE IF walk.req.align /\ Day(next.at) = Day(last.at)
               THEN [walk EXCEPT !.stage = "day", !.shown = Showing(page \cup {lookahead}),
                                 !.cursor = next, !.lookahead = next]
               ELSE [walk EXCEPT !.shown = Showing(page), !.cursor = last]
    /\ UNCHANGED <<table, steady, edits>>

ReadDayOneMore == \* Mutant: only the row that was looked ahead is added
    /\ Reading("day")
    /\ walk' = [walk EXCEPT !.stage = "probe"]
    /\ UNCHANGED <<table, steady, edits>>

ReadDay ==
    LET rest == {x \in Rows(walk.req, walk.lookahead) :
                    Day(table[x].at) = Day(walk.lookahead.at)}
    IN
    /\ Reading("day")
    /\ walk' = [walk EXCEPT !.stage = "probe", !.shown = Showing(rest),
                            !.cursor = IF rest = {} THEN @ ELSE CursorOf(LastOf(rest))]
    /\ UNCHANGED <<table, steady, edits>>

Probe ==
    /\ Reading("probe")
    /\ walk' = [walk EXCEPT !.stage = IF Rows(walk.req, walk.cursor) = {} THEN "done" ELSE "page"]
    /\ UNCHANGED <<table, steady, edits>>

---------------------------------------------------------------------------
(* The edits.  `moved' is the link whose place in the order changes.        *)
Edit(newTable, moved) ==
    /\ walk.stage \notin {"idle", "done"} /\ edits < MaxEdits
    /\ edits' = edits + 1
    /\ table' = newTable
    /\ UNCHANGED walk
    /\ steady' = (steady \cap Listed(walk.req)') \ moved

(* submit_social_media_link and the ingestion: a new row, as a root, at any *)
(* instant, awaiting approval unless an admin or the ingestion writes it.   *)
Submit(x, at, status) ==
    /\ x \notin Present
    /\ x \in Automated => status = "live"
    /\ status # "hidden"
    /\ Edit([y \in Present \cup {x} |->
                IF y = x THEN [at |-> at, status |-> status, parent |-> Null] ELSE table[y]], {x})

(* update_social_media_link: the owner's edit goes back to the queue, from  *)
(* whatever status; an admin sets any.                                      *)
UpdateByOwner(x, at) ==
    Edit([table EXCEPT ![x].status = "pending_approval", ![x].at = at],
         IF at = table[x].at THEN {} ELSE {x})

UpdateByAdmin(x, at, status) ==
    Edit([table EXCEPT ![x].status = status, ![x].at = at],
         IF at = table[x].at THEN {} ELSE {x})

(* delete_social_media_link: the children become roots.                     *)
DeleteLink(x) ==
    Edit([y \in Present \ {x} |->
            [table[y] EXCEPT !.parent = IF @ = x THEN Null ELSE @]], {x})

---------------------------------------------------------------------------
FeedInit ==
    /\ \E par \in Forests, at \in [LinkIds -> Instants], hiddenOnes \in SUBSET LinkIds :
       \E missing \in {{}, LinkIds} \cup {{x} : x \in {y \in LinkIds : Children(par, y) = {}}} :
          table = [x \in LinkIds \ missing |->
                     [at |-> at[x], parent |-> par[x],
                      status |-> IF x \notin hiddenOnes THEN "live"
                                 ELSE IF x \in Automated THEN "pending_approval" ELSE "hidden"]]
    /\ walk = Idle0 /\ steady = {} /\ edits = 0

FeedNext ==
    \/ \E req \in Walks : Begin(req)
    \/ ReadPage \/ ReadDay \/ Probe
    \/ \E x \in LinkIds, at \in Instants, status \in LinkStatuses : Submit(x, at, status)
    \/ \E x \in Present, at \in Instants :
          UpdateByOwner(x, at) \/ \E status \in LinkStatuses : UpdateByAdmin(x, at, status)
    \/ \E x \in Present : DeleteLink(x)

FeedSpec == FeedInit /\ [][FeedNext]_feedVars

---------------------------------------------------------------------------
(* Rows, requests and pages stay in their types, and the links a forest.   *)
FeedTypeOK ==
    /\ Present \subseteq LinkIds /\ \A x \in Present : table[x] \in Link
    /\ Acyclic(Parents)
    /\ walk.stage \in {"idle", "page", "day", "probe", "done"}
    /\ walk.stage # "idle" => walk.req \in Requests /\ walk.shown \in [LinkIds -> Nat]
    /\ steady \subseteq Present /\ edits \in 0 .. MaxEdits

(* Paging by cursor: a link that belonged to the feed and kept its instant  *)
(* from the first page to the last is shown exactly once, whatever arrived, *)
(* moved or disappeared around it between two queries.                      *)
StayingLinksShownOnce ==
    walk.stage # "idle" =>
        \A x \in steady : /\ walk.shown[x] <= 1
                          /\ walk.stage = "done" => walk.shown[x] = 1

(* align_page_to_day: between two pages no link of the last page's day is   *)
(* still to come, unless it was changed meanwhile.                          *)
PagesEndWithTheDay ==
    (Reading("page") /\ walk.req.align /\ walk.cursor # NoCursor)
        => \A x \in steady : walk.shown[x] = 0 => Day(table[x].at) # Day(walk.cursor.at)

(* The rows from d up to the sublink of x it hangs below.                  *)
Between(x, d) == Ancestors(Parents, d) \ Ancestors(Parents, x)

(* sublinkCount is the number of links a client reaches through sublinks,   *)
(* level by level, also below and beside links that moderation removed.     *)
BadgeMatchesNesting ==
    \A x \in Present :
        sublink_count(x) =
            Cardinality({d \in Subtree(Parents, x) \ {x} :
                            \A a \in Between(x, d) : a \in sublinks(table[a].parent)})

Card(window) == Request(FALSE, TRUE, FALSE, window)
Flat(window) == Request(FALSE, FALSE, FALSE, window)

(* A windowed feed of conversation cards: whatever the flat feed lists in a *)
(* window without an end is on a card there, if the root is public, and no  *)
(* card of "the previous days" carries anything of today.                   *)
CardsCoverTheWindow ==
    /\ \A window \in {"serviceDay", "lastWeekAndToday"} :
       \A x \in Listed(Flat(window)) :
       \A root \in Ancestors(Parents, x) \cap Listed(Card("all")) : root \in Listed(Card(window))
    /\ \A root \in Listed(Card("lastWeek")) :
       \A d \in Subtree(Parents, root) : table[d].at < Midnight(Now)
===========================================================================
