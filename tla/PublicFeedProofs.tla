------------------------- MODULE PublicFeedProofs -------------------------
(* Proofs about PublicFeed: for every table of links, every page size and   *)
(* every sequence of edits between two queries.                             *)
EXTENDS PublicFeed, LinkForestProofs, TLAPS

---------------------------------------------------------------------------
(* The links stay a forest.                                                 *)

(* The rows have their types and refer to rows, without a cycle.            *)
LinksAreForest ==
    /\ Present \subseteq LinkIds
    /\ \A x \in Present : table[x] \in Link /\ table[x].parent \in Present \cup {Null}
    /\ Acyclic(Parents)

(* The links that exist are a forest in the sense of LinkForest.            *)
LEMMA ParentsAreForest ==
    ASSUME LinksAreForest
    PROVE  IsForest(Parents) /\ DOMAIN Parents = Present /\ Acyclic(Parents)
BY FeedAssumption DEF LinksAreForest, IsForest, Parents

(* Rows that leave, arrive as roots or become roots close no loop.          *)
LEMMA FewerParentsAcyclic ==
    ASSUME NEW par, NEW new, Acyclic(par), Null \notin DOMAIN new,
           \A x \in DOMAIN new : new[x] = Null \/ (x \in DOMAIN par /\ new[x] = par[x])
    PROVE  Acyclic(new)
<1> SUFFICES ASSUME NEW S \in SUBSET DOMAIN new, S # {}, \A x \in S : new[x] \in S
             PROVE  FALSE
  BY DEF Acyclic
<1>1. \A x \in S : x \in DOMAIN par /\ par[x] \in S
  OBVIOUS
<1> QED
  BY <1>1 DEF Acyclic

(* What an edit does to the rows: those that stay keep their parent or      *)
(* become roots, and new ones are roots.                                    *)
EditsRows(old, new) ==
    /\ DOMAIN new \subseteq LinkIds
    /\ \A x \in DOMAIN new :
          /\ new[x] \in Link
          /\ new[x].parent # Null =>
                /\ x \in DOMAIN old /\ new[x].parent = old[x].parent
                /\ new[x].parent \in DOMAIN new

(* New roots, new contents and deletions that free the sublinks close no    *)
(* cycle.                                                                   *)
LEMMA EditsKeepForest ==
    ASSUME LinksAreForest, EditsRows(table, table')
    PROVE  LinksAreForest'
<1>1. /\ Present' = DOMAIN table' /\ Present = DOMAIN table
      /\ Parents' = [x \in DOMAIN table' |-> table'[x].parent]
      /\ Parents = [x \in DOMAIN table |-> table[x].parent]
  BY DEF Present, Parents
<1>2. Acyclic(Parents')
  <2>1. Null \notin DOMAIN Parents'
    BY <1>1, FeedAssumption DEF EditsRows
  <2>2. \A x \in DOMAIN Parents' :
          Parents'[x] = Null \/ (x \in DOMAIN Parents /\ Parents'[x] = Parents[x])
    BY <1>1 DEF EditsRows
  <2>3. Acyclic(Parents)
    BY DEF LinksAreForest
  <2> QED
    BY <2>1, <2>2, <2>3, FewerParentsAcyclic
<1> QED
  BY <1>1, <1>2 DEF LinksAreForest, EditsRows

(* Every edit edits rows, and whoever it does not count as moved keeps its  *)
(* instant.                                                                 *)
IsEdit(new, moved) ==
    /\ EditsRows(table, new)
    /\ \A x \in (DOMAIN new \cap Present) \ moved : new[x].at = table[x].at

(* A step of the feed is a step of the reader or one edit of the kind       *)
(* described above.                                                         *)
LEMMA EditsAre ==
    ASSUME LinksAreForest, FeedNext
    PROVE  \/ \E req \in Walks : Begin(req)
           \/ ReadPage \/ ReadDay \/ Probe
           \/ \E new, moved : Edit(new, moved) /\ IsEdit(new, moved)
<1>0. /\ Present = DOMAIN table /\ Present \subseteq LinkIds /\ Null \notin LinkIds
      /\ \A x \in Present : table[x] \in Link /\ table[x].parent \in Present \cup {Null}
  BY FeedAssumption DEF LinksAreForest, Present
<1>1. ASSUME NEW x \in LinkIds, NEW at \in Instants, NEW status \in LinkStatuses,
             Submit(x, at, status)
      PROVE  \E new, moved : Edit(new, moved) /\ IsEdit(new, moved)
  <2> DEFINE row == [at |-> at, status |-> status, parent |-> Null]
             new == [y \in Present \cup {x} |-> IF y = x THEN row ELSE table[y]]
  <2>1. Edit(new, {x}) /\ x \notin Present
    BY <1>1 DEF Submit
  <2>2. row \in Link /\ row.parent = Null
    BY DEF Link
  <2> HIDE DEF row
  <2>3. IsEdit(new, {x})
    BY <1>0, <2>1, <2>2 DEF IsEdit, EditsRows
  <2> QED
    BY <2>1, <2>3
<1>2. ASSUME NEW x \in Present, NEW at \in Instants, NEW status \in LinkStatuses
      PROVE  IsEdit([table EXCEPT ![x].status = status, ![x].at = at],
                    IF at = table[x].at THEN {} ELSE {x})
  <2> DEFINE new == [table EXCEPT ![x].status = status, ![x].at = at]
  <2>1. /\ DOMAIN new = Present
        /\ \A y \in Present \ {x} : new[y] = table[y]
        /\ new[x] = [table[x] EXCEPT !.status = status, !.at = at]
    BY <1>0
  <2>2. new[x] \in Link /\ new[x].parent = table[x].parent /\ new[x].at = at
    BY <1>0, <2>1 DEF Link
  <2> HIDE DEF new
  <2>3. IsEdit(new, IF at = table[x].at THEN {} ELSE {x})
    BY <1>0, <2>1, <2>2 DEF IsEdit, EditsRows
  <2> QED
    BY <2>3 DEF new
<1>3. ASSUME NEW x \in Present, NEW at \in Instants, UpdateByOwner(x, at)
      PROVE  \E new, moved : Edit(new, moved) /\ IsEdit(new, moved)
  <2>1. "pending_approval" \in LinkStatuses
    BY DEF LinkStatuses
  <2> QED
    BY <1>2, <1>3, <2>1 DEF UpdateByOwner
<1>4. ASSUME NEW x \in Present, NEW at \in Instants, NEW status \in LinkStatuses,
             UpdateByAdmin(x, at, status)
      PROVE  \E new, moved : Edit(new, moved) /\ IsEdit(new, moved)
  BY <1>2, <1>4 DEF UpdateByAdmin
<1>5. ASSUME NEW x \in Present, DeleteLink(x)
      PROVE  \E new, moved : Edit(new, moved) /\ IsEdit(new, moved)
  <2> DEFINE new == [y \in Present \ {x} |->
                       [table[y] EXCEPT !.parent = IF @ = x THEN Null ELSE @]]
  <2>1. Edit(new, {x})
    BY <1>5 DEF DeleteLink
  <2>2. ASSUME NEW y \in Present \ {x}
        PROVE  /\ new[y] \in Link /\ new[y].at = table[y].at
               /\ new[y].parent = IF table[y].parent = x THEN Null ELSE table[y].parent
    BY <1>0, <2>2 DEF Link
  <2>3. DOMAIN new = Present \ {x}
    OBVIOUS
  <2> HIDE DEF new
  <2>4. IsEdit(new, {x})
    BY <1>0, <2>2, <2>3 DEF IsEdit, EditsRows
  <2> QED
    BY <2>1, <2>4
<1> QED
  BY <1>1, <1>3, <1>4, <1>5 DEF FeedNext

(* Every step keeps the links a forest.                                     *)
LEMMA ForestInductive == LinksAreForest /\ [FeedNext]_feedVars => LinksAreForest'
<1> SUFFICES ASSUME LinksAreForest, [FeedNext]_feedVars PROVE LinksAreForest'
  OBVIOUS
<1>1. ASSUME table' = table PROVE LinksAreForest'
  BY <1>1 DEF LinksAreForest, Present, Parents
<1>2. ASSUME NEW new, NEW moved, Edit(new, moved), IsEdit(new, moved)
      PROVE  LinksAreForest'
  BY <1>2, EditsKeepForest DEF Edit, IsEdit
<1>3. CASE FeedNext
  BY <1>1, <1>2, <1>3, EditsAre DEF Begin, ReadPage, ReadDay, Probe
<1> QED
  BY <1>1, <1>3 DEF feedVars

(* The groupings a behaviour starts from are forests.                       *)
LEMMA ForestInitially == FeedInit => LinksAreForest
<1> SUFFICES ASSUME FeedInit PROVE LinksAreForest
  OBVIOUS
<1>0. PICK par \in Forests, at \in [LinkIds -> Instants], hiddenOnes \in SUBSET LinkIds :
        \E missing \in {{}, LinkIds} \cup {{x} : x \in {y \in LinkIds : Children(par, y) = {}}} :
           table = [x \in LinkIds \ missing |->
                      [at |-> at[x], parent |-> par[x],
                       status |-> IF x \notin hiddenOnes THEN "live"
                                  ELSE IF x \in Automated THEN "pending_approval" ELSE "hidden"]]
  BY DEF FeedInit
<1>1. PICK missing \in {{}, LinkIds} \cup {{x} : x \in {y \in LinkIds : Children(par, y) = {}}} :
        table = [x \in LinkIds \ missing |->
                   [at |-> at[x], parent |-> par[x],
                    status |-> IF x \notin hiddenOnes THEN "live"
                               ELSE IF x \in Automated THEN "pending_approval" ELSE "hidden"]]
  BY <1>0
<1>2. par \in [LinkIds -> LinkIds \cup {Null}] /\ Acyclic(par) /\ Null \notin LinkIds
  BY FeedAssumption
<1>3. \A x \in LinkIds \ missing : par[x] \notin missing
  BY <1>2 DEF Children
<1>4. Present = LinkIds \ missing /\ \A x \in Present : table[x].parent = par[x]
  BY <1>1 DEF Present
<1>5. \A x \in Present : table[x] \in Link /\ table[x].parent \in Present \cup {Null}
  BY <1>1, <1>2, <1>3, <1>4 DEF Link, LinkStatuses
<1>6. Acyclic(Parents)
  <2>1. \A x \in DOMAIN Parents : x \in DOMAIN par /\ Parents[x] = par[x]
    BY <1>2, <1>4 DEF Parents
  <2>2. Null \notin DOMAIN Parents
    BY <1>2, <1>4 DEF Parents
  <2> QED
    BY <1>2, <2>1, <2>2, FewerParentsAcyclic
<1> QED
  BY <1>4, <1>5, <1>6 DEF LinksAreForest

(* Whatever is submitted, edited and deleted, the parent column of the rows *)
(* that are left refers to rows that are left, without a cycle.             *)
THEOREM LinksStayForest == FeedSpec => []LinksAreForest
BY ForestInitially, ForestInductive, PTL DEF FeedSpec

---------------------------------------------------------------------------
(* The badge and the nesting.                                               *)

(* The pass suppresses exactly the rows with one that is not public from    *)
(* them up to the sublink they hang below: rows come after their parents,   *)
(* so that there is one answer for every row.                               *)
Shown(x) == {d \in Subtree(Parents, x) \ {x} : \A a \in Between(x, d) : is_publicly_visible(a)}

(* What is between x and a row: the row and what is between x and its       *)
(* parent.                                                                  *)
LEMMA BetweenSteps ==
    ASSUME LinksAreForest, NEW x, NEW d \in Subtree(Parents, x) \ {x}
    PROVE  /\ table[d].parent \in Subtree(Parents, x) /\ d \in Present
           /\ Between(x, d) = {d} \cup Between(x, table[d].parent)
           /\ Between(x, x) = {}
           /\ LoadedBefore(table[d].parent, d)
<1>1. IsForest(Parents) /\ DOMAIN Parents = Present /\ Acyclic(Parents)
  BY ParentsAreForest
<1>2. d \in Present /\ x \in Ancestors(Parents, d) /\ Parents[d] = table[d].parent
  BY <1>1 DEF Subtree, Parents
<1> DEFINE p == Parents[d]
<1>3. p # Null /\ p \in Subtree(Parents, x) /\ p \in Present
  BY <1>1, <1>2, SubtreeAscends DEF Subtree
<1>4. Ancestors(Parents, d) = {d} \cup Ancestors(Parents, p)
  BY <1>1, <1>2, <1>3, AncestorsStep
<1>5. d \notin Ancestors(Parents, x)
  BY <1>1, <1>2, AncestorsAntisymmetric
<1>6. Between(x, d) = {d} \cup Between(x, p)
  BY <1>4, <1>5 DEF Between
<1>7. p \in Ancestors(Parents, d) /\ p # d
  <2>1. d \notin Ancestors(Parents, p)
    BY <1>1, <1>2, <1>3, NoRowAboveItself
  <2>2. p \in Ancestors(Parents, p)
    BY <1>1, <1>3, AncestorsReflexive
  <2> QED
    BY <1>4, <2>1, <2>2
<1> QED
  BY <1>2, <1>3, <1>6, <1>7 DEF Between, LoadedBefore

LEMMA VisibleSubtreeIs ==
    ASSUME LinksAreForest, NEW x
    PROVE  VisibleSubtree(x) = Shown(x)
<1> DEFINE below == Subtree(Parents, x) \ {x}
           Judged(out) == \A d \in below :
               d \in out <=> \/ \E p \in out : p = table[d].parent /\ LoadedBefore(p, d)
                             \/ ~ is_publicly_visible(d)
<1>1. Acyclic(Parents) /\ DOMAIN Parents = Present /\ \A d \in Present : Parents[d] = table[d].parent
  BY ParentsAreForest DEF Parents
<1>2. \A d \in below : /\ d \in Present /\ table[d].parent \in below \cup {x}
                       /\ Between(x, d) = {d} \cup Between(x, table[d].parent) /\ Between(x, x) = {}
                       /\ LoadedBefore(table[d].parent, d)
  BY BetweenSteps
<1>3. below \subseteq Present
  BY <1>2
<1> DEFINE hidden == below \ Shown(x)
<1>4. \A d \in below : d \in hidden <=> \E a \in Between(x, d) : ~ is_publicly_visible(a)
  BY DEF Shown
<1>5. hidden \in SUBSET below /\ Shown(x) = below \ hidden
  BY DEF Shown
<1> HIDE DEF below, hidden
<1>6. Judged(hidden)
  <2> SUFFICES ASSUME NEW d \in below
               PROVE  d \in hidden <=> \/ \E p \in hidden : p = table[d].parent /\ LoadedBefore(p, d)
                                       \/ ~ is_publicly_visible(d)
    OBVIOUS
  <2> DEFINE p == table[d].parent
  <2>1. (\E a \in Between(x, d) : ~ is_publicly_visible(a)) <=>
           (\E a \in Between(x, p) : ~ is_publicly_visible(a)) \/ ~ is_publicly_visible(d)
    BY <1>2
  <2>2. CASE p \in below
    BY <1>2, <1>4, <2>1, <2>2
  <2>3. CASE p = x
    <3>1. p \notin hidden
      BY <1>5, <2>3 DEF below
    <3>2. Between(x, p) = {}
      BY <1>2, <2>3
    <3> QED
      BY <1>4, <2>1, <3>1, <3>2
  <2> QED
    BY <1>2, <2>2, <2>3
<1>7. ASSUME NEW out \in SUBSET below, Judged(out)
      PROVE  out = hidden
  <2> DEFINE differ == {d \in below : ~ (d \in out <=> d \in hidden)}
  <2> SUFFICES ASSUME differ # {} PROVE FALSE
    BY <1>5
  <2>1. PICK d \in differ : Parents[d] \notin differ
    BY <1>1, <1>3 DEF Acyclic
  <2>2. d \in below /\ table[d].parent \notin differ
    BY <1>1, <1>3, <2>1
  <2> DEFINE p == table[d].parent
  <2>3. p \in out <=> p \in hidden
    BY <1>5, <2>2
  <2>4. d \in out <=> p \in out \/ ~ is_publicly_visible(d)
    BY <1>2, <1>7, <2>2
  <2>5. d \in hidden <=> p \in hidden \/ ~ is_publicly_visible(d)
    BY <1>2, <1>6, <2>2
  <2> QED
    BY <2>1, <2>3, <2>4, <2>5
<1>8. Suppressed(x) = hidden
  <2>1. Suppressed(x) = CHOOSE out \in SUBSET below : Judged(out)
    BY DEF Suppressed, below
  <2> HIDE DEF Judged
  <2> QED
    BY <1>5, <1>6, <1>7, <2>1
<1> QED
  BY <1>5, <1>8 DEF VisibleSubtree, below

(* In a forest the rows above d and not above x, for d below x, are the     *)
(* rows from d up to a sublink of x.                                        *)
LEMMA VisibleMeansReachable ==
    ASSUME LinksAreForest, NEW x \in Present
    PROVE  VisibleSubtree(x)
             = {d \in Subtree(Parents, x) \ {x} :
                   \A a \in Between(x, d) : a \in sublinks(table[a].parent)}
<1>1. IsForest(Parents) /\ DOMAIN Parents = Present /\ Acyclic(Parents)
  BY ParentsAreForest
<1>2. \A y \in Present : Parents[y] = table[y].parent
  BY DEF Parents
<1>3. ASSUME NEW d \in Subtree(Parents, x) \ {x}, NEW a \in Between(x, d), is_publicly_visible(a)
      PROVE  a \in sublinks(table[a].parent)
  <2>1. /\ a \in Ancestors(Parents, d) /\ a \notin Ancestors(Parents, x)
        /\ x \in Ancestors(Parents, d) /\ d \in Present /\ a \in Present
    BY <1>1, AncestorsAreRows DEF Between, Subtree
  <2>2. x \in Ancestors(Parents, a) /\ a # x
    BY <1>1, <2>1, AncestorsLinear, AncestorsReflexive
  <2> DEFINE p == Parents[a]
  <2>3. p # Null /\ p \in Present
    <3>1. a \in Subtree(Parents, x)
      BY <1>1, <2>1, <2>2 DEF Subtree
    <3> QED
      BY <1>1, <2>2, <3>1, SubtreeAscends DEF Subtree
  <2>4. Ancestors(Parents, a) = {a} \cup Ancestors(Parents, p)
    BY <1>1, <2>1, <2>3, AncestorsStep
  <2>5. a \notin Ancestors(Parents, p)
    BY <1>1, <2>1, <2>3, NoRowAboveItself
  <2>6. p \in Ancestors(Parents, p)
    BY <1>1, <2>3, AncestorsReflexive
  <2> HIDE DEF p
  <2>7. Between(p, a) = {a}
    BY <2>4, <2>5 DEF Between
  <2>8. a \in Subtree(Parents, p) \ {p}
    BY <1>1, <2>1, <2>4, <2>5, <2>6 DEF Subtree
  <2>9. p = table[a].parent
    BY <1>2, <2>1 DEF p
  <2> QED
    BY <1>3, <2>7, <2>8, <2>9, VisibleSubtreeIs DEF sublinks, Shown
<1>4. ASSUME NEW a, a \in sublinks(table[a].parent)
      PROVE  is_publicly_visible(a)
  <2> DEFINE p == table[a].parent
  <2>1. /\ a \in Subtree(Parents, p) /\ a # p
        /\ \A b \in Between(p, a) : is_publicly_visible(b)
    BY <1>4, VisibleSubtreeIs DEF sublinks, Shown
  <2>2. a \in Present /\ p \in Ancestors(Parents, a)
    BY <1>1, <2>1 DEF Subtree
  <2> HIDE DEF p
  <2>3. a \in Ancestors(Parents, a)
    BY <1>1, <2>2, AncestorsReflexive
  <2>4. a \notin Ancestors(Parents, p)
    BY <1>1, <2>1, <2>2, AncestorsAntisymmetric
  <2> QED
    BY <2>1, <2>3, <2>4 DEF Between
<1> QED
  BY <1>3, <1>4, VisibleSubtreeIs DEF Shown

(* The badge and the nesting agree on every table the edits can reach,      *)
(* whatever moderation removed in the middle of a thread.                   *)
THEOREM BadgeAlwaysMatches == FeedSpec => []BadgeMatchesNesting
<1>1. LinksAreForest => BadgeMatchesNesting
  BY VisibleMeansReachable DEF BadgeMatchesNesting, sublink_count
<1> QED
  BY <1>1, LinksStayForest, PTL

---------------------------------------------------------------------------
(* The windows.                                                             *)

(* Whatever is in a window without an end is there on a card, and a window  *)
(* with an end has no card that reaches into today.                         *)
THEOREM WindowsAreCovered == FeedSpec => []CardsCoverTheWindow
<1>1. LinksAreForest => CardsCoverTheWindow
  <2> SUFFICES ASSUME LinksAreForest PROVE CardsCoverTheWindow
    OBVIOUS
  <2>1. ASSUME NEW window \in {"serviceDay", "lastWeekAndToday"}, NEW x \in Listed(Flat(window)),
               NEW root \in Ancestors(Parents, x) \cap Listed(Card("all"))
        PROVE  root \in Listed(Card(window))
    <3> DEFINE bound == IF window = "serviceDay" THEN service_day_start(Now)
                        ELSE last_week_start(Now)
    <3>1. x \in Present /\ table[x].at >= bound
      BY <2>1 DEF Listed, Flat, Request, EventWindow
    <3>2. EventWindow(root, bound, TRUE)
      BY <3>1 DEF EventWindow, SubtreeHas, Subtree, Parents
    <3> QED
      BY <2>1, <3>2 DEF Listed, Card, Request
  <2>2. ASSUME NEW root \in Listed(Card("lastWeek")), NEW d \in Subtree(Parents, root)
        PROVE  table[d].at < Midnight(Now)
    <3>1. ~ (table[d].at >= Midnight(Now))
      BY <2>2 DEF Listed, Card, Request, EventWindowBefore, SubtreeHas
    <3>2. d \in Present
      BY <2>2 DEF Subtree, Parents
    <3>3. table[d].at \in Nat
      BY <3>2, FeedAssumption DEF LinksAreForest, Link
    <3>4. Midnight(Now) \in Int
      BY FeedAssumption, ServiceDayAssumption DEF Midnight, Day
    <3> QED
      BY <3>1, <3>3, <3>4
  <2> QED
    BY <2>1, <2>2 DEF CardsCoverTheWindow
<1> QED
  BY <1>1, LinksStayForest, PTL

---------------------------------------------------------------------------
(* The order of the feed.                                                   *)

(* Rows that a query returned are links that exist.                         *)
AreRows(rows) == LinksAreForest /\ rows \in SUBSET Present

(* The rows of a query are finitely many links, with instants to compare.   *)
LEMMA RowsAreLinks ==
    ASSUME NEW rows, AreRows(rows)
    PROVE  /\ IsFiniteSet(rows) /\ rows \subseteq LinkIds
           /\ \A x \in rows : x \in Nat \ {Null} /\ table[x].at \in Nat /\ table[x].at \in Instants
<1>1. rows \in SUBSET LinkIds
  BY DEF AreRows, LinksAreForest
<1> QED
  BY <1>1, FeedAssumption, FS_Subset DEF AreRows, LinksAreForest, Link

(* order_by("-occurred_at", "-id") leaves no two rows side by side.         *)
LEMMA FeedOrder ==
    ASSUME NEW rows, AreRows(rows), NEW x \in rows, NEW y \in rows, NEW z \in rows
    PROVE  /\ x # y => Before(x, y) \/ Before(y, x)
           /\ ~ (Before(x, y) /\ Before(y, x))
           /\ ~ Before(x, x)
           /\ Before(x, y) /\ Before(y, z) => Before(x, z)
<1>1. /\ x \in Nat /\ y \in Nat /\ z \in Nat
      /\ table[x].at \in Nat /\ table[y].at \in Nat /\ table[z].at \in Nat
  BY RowsAreLinks
<1> QED
  BY <1>1 DEF Before

(* The number of rows that come before a row says which of two comes first. *)
Ahead(rows, x) == {y \in rows : Before(y, x)}

(* A later row has more rows ahead of it than an earlier one, and never     *)
(* more than the query has.                                                 *)
LEMMA AheadGrows ==
    ASSUME NEW rows, AreRows(rows), NEW x \in rows, NEW y \in rows, Before(x, y)
    PROVE  /\ Cardinality(Ahead(rows, x)) \in Nat /\ Cardinality(Ahead(rows, y)) \in Nat
           /\ Cardinality(Ahead(rows, x)) < Cardinality(Ahead(rows, y))
           /\ Cardinality(Ahead(rows, y)) <= Cardinality(rows)
<1>1. IsFiniteSet(rows)
  BY RowsAreLinks
<1>2. Ahead(rows, x) \in SUBSET Ahead(rows, y) /\ Ahead(rows, y) \in SUBSET rows
  BY FeedOrder DEF Ahead
<1>3. x \in Ahead(rows, y) /\ x \notin Ahead(rows, x)
  BY FeedOrder DEF Ahead
<1>4. IsFiniteSet(Ahead(rows, y)) /\ IsFiniteSet(Ahead(rows, x))
  BY <1>1, <1>2, FS_Subset
<1>5. /\ Cardinality(Ahead(rows, x)) \in Nat /\ Cardinality(Ahead(rows, y)) \in Nat
  BY <1>4, FS_CardinalityType
<1>6. /\ Cardinality(Ahead(rows, x)) <= Cardinality(Ahead(rows, y))
      /\ Cardinality(Ahead(rows, x)) # Cardinality(Ahead(rows, y))
      /\ Cardinality(Ahead(rows, y)) <= Cardinality(rows)
  BY <1>1, <1>2, <1>3, <1>4, FS_Subset
<1> QED
  BY <1>5, <1>6

(* A nonempty set of rows has a first one and a last one.                   *)
LEMMA RowsHaveEnds ==
    ASSUME NEW rows, AreRows(rows), rows # {}
    PROVE  /\ FirstOf(rows) \in rows /\ \A y \in rows \ {FirstOf(rows)} : Before(FirstOf(rows), y)
           /\ LastOf(rows) \in rows /\ \A y \in rows \ {LastOf(rows)} : Before(y, LastOf(rows))
<1>1. \A x \in rows : /\ Cardinality(Ahead(rows, x)) \in Nat
                       /\ Cardinality(rows) - Cardinality(Ahead(rows, x)) \in Nat
  <2> SUFFICES ASSUME NEW x \in rows
               PROVE  /\ Cardinality(Ahead(rows, x)) \in Nat
                      /\ Cardinality(rows) - Cardinality(Ahead(rows, x)) \in Nat
    OBVIOUS
  <2>1. IsFiniteSet(rows) /\ Ahead(rows, x) \in SUBSET rows
    BY RowsAreLinks DEF Ahead
  <2>2. /\ Cardinality(rows) \in Nat /\ Cardinality(Ahead(rows, x)) \in Nat
        /\ Cardinality(Ahead(rows, x)) <= Cardinality(rows)
    BY <2>1, FS_Subset, FS_CardinalityType
  <2> QED
    BY <2>2
<1>2. \E x \in rows : \A y \in rows \ {x} : Before(x, y)
  <2> DEFINE T == {Cardinality(Ahead(rows, x)) : x \in rows}
  <2>1. PICK m \in T : \A n \in T : m <= n
    BY <1>1, NatMinimum
  <2>2. PICK x \in rows : m = Cardinality(Ahead(rows, x))
    BY <2>1
  <2>3. ASSUME NEW y \in rows \ {x} PROVE Before(x, y)
    <3>1. Before(y, x) => Cardinality(Ahead(rows, y)) < Cardinality(Ahead(rows, x))
      BY AheadGrows
    <3>2. Cardinality(Ahead(rows, x)) <= Cardinality(Ahead(rows, y))
      BY <2>1, <2>2
    <3> QED
      BY <1>1, <3>1, <3>2, FeedOrder
  <2> QED
    BY <2>3
<1>3. \E x \in rows : \A y \in rows \ {x} : Before(y, x)
  <2> DEFINE T == {Cardinality(rows) - Cardinality(Ahead(rows, x)) : x \in rows}
  <2>1. PICK m \in T : \A n \in T : m <= n
    BY <1>1, NatMinimum
  <2>2. PICK x \in rows : m = Cardinality(rows) - Cardinality(Ahead(rows, x))
    BY <2>1
  <2>3. ASSUME NEW y \in rows \ {x} PROVE Before(y, x)
    <3>1. Before(x, y) => Cardinality(Ahead(rows, x)) < Cardinality(Ahead(rows, y))
      BY AheadGrows
    <3>2. Cardinality(rows) - Cardinality(Ahead(rows, x))
            <= Cardinality(rows) - Cardinality(Ahead(rows, y))
      BY <2>1, <2>2
    <3>3. Cardinality(rows) \in Nat
      BY RowsAreLinks, FS_CardinalityType
    <3>4. ~ Before(x, y)
      BY <1>1, <3>1, <3>2, <3>3
    <3> QED
      BY <3>4, FeedOrder
  <2> QED
    BY <2>3
<1> QED
  BY <1>2, <1>3 DEF FirstOf, LastOf

(* A part of a query's rows that lacks nothing that comes before its rows.  *)
IsLeading(page, rows) ==
    /\ page \in SUBSET rows
    /\ \A x \in page, y \in rows : Before(y, x) => y \in page

(* A page is a leading part of the rows of its query, and has a row when    *)
(* they do.                                                                 *)
LEMMA PagesLead ==
    ASSUME NEW rows, AreRows(rows), NEW n \in Nat \ {0}
    PROVE  IsLeading(Leading(n, rows), rows) /\ (rows # {} => Leading(n, rows) # {})
<1>1. IsLeading(Leading(n, rows), rows)
  <2> SUFFICES ASSUME NEW x \in Leading(n, rows), NEW y \in rows, Before(y, x)
               PROVE  y \in Leading(n, rows)
    BY DEF IsLeading, Leading
  <2>1. x \in rows /\ Cardinality(Ahead(rows, x)) < n
    BY DEF Leading, Ahead
  <2>2. /\ Cardinality(Ahead(rows, y)) \in Nat /\ Cardinality(Ahead(rows, x)) \in Nat
        /\ Cardinality(Ahead(rows, y)) < Cardinality(Ahead(rows, x))
    BY <2>1, AheadGrows
  <2>3. Cardinality(Ahead(rows, y)) < n
    BY <2>1, <2>2
  <2> QED
    BY <2>3 DEF Leading, Ahead
<1>2. ASSUME rows # {} PROVE FirstOf(rows) \in Leading(n, rows)
  <2>1. FirstOf(rows) \in rows /\ \A y \in rows \ {FirstOf(rows)} : Before(FirstOf(rows), y)
    BY <1>2, RowsHaveEnds
  <2>2. {y \in rows : Before(y, FirstOf(rows))} = {}
    BY <2>1, FeedOrder
  <2>3. Cardinality({y \in rows : Before(y, FirstOf(rows))}) = 0
    BY <2>2, FS_EmptySet
  <2> QED
    BY <2>1, <2>3 DEF Leading
<1> QED
  BY <1>1, <1>2

(* The keyset predicate and the order of the feed agree.                    *)
LEMMA AfterIsBefore ==
    ASSUME NEW rows, AreRows(rows), NEW x \in rows, NEW y \in rows
    PROVE  After(y, CursorOf(x)) <=> Before(x, y)
<1>1. /\ x \in Nat /\ y \in Nat /\ table[x].at \in Nat /\ table[y].at \in Nat
  BY RowsAreLinks
<1>2. CursorOf(x) # NoCursor /\ CursorOf(x).at = table[x].at /\ CursorOf(x).id = x
  BY <1>1 DEF CursorOf, NoCursor
<1> QED
  BY <1>1, <1>2 DEF After, Before

(* No cursor, or one that names an instant and a link.                      *)
Cursors == {NoCursor} \cup [at : Instants, id : LinkIds]

(* Continuing from the last row of a leading part of a query finds exactly  *)
(* the rest of the query.                                                   *)
LEMMA ContinueAfterPart ==
    ASSUME LinksAreForest, NEW req, NEW cursor \in Cursors, NEW page, NEW last \in page,
           IsLeading(page, Rows(req, cursor)),
           \A y \in page \ {last} : Before(y, last),
           NEW x \in Listed(req)
    PROVE  After(x, CursorOf(last)) <=> x \in Rows(req, cursor) \ page
<1>1. AreRows(Listed(req)) /\ page \subseteq Listed(req) /\ last \in Listed(req)
  BY DEF AreRows, Listed, IsLeading, Rows
<1>2. After(x, CursorOf(last)) <=> Before(last, x)
  BY <1>1, AfterIsBefore
<1>3. ASSUME x \in Rows(req, cursor) \ page PROVE Before(last, x)
  BY <1>1, <1>3, FeedOrder DEF IsLeading
<1>4. ASSUME Before(last, x) PROVE x \in Rows(req, cursor)
  <2>1. After(last, cursor)
    BY DEF IsLeading, Rows
  <2>2. /\ x \in Nat /\ last \in Nat /\ table[x].at \in Nat /\ table[last].at \in Nat
    BY <1>1, RowsAreLinks
  <2>3. cursor = NoCursor \/ (cursor.at \in Nat /\ cursor.id \in Nat)
    BY FeedAssumption DEF Cursors
  <2> QED
    BY <1>4, <2>1, <2>2, <2>3 DEF Rows, After, Before
<1>5. ASSUME Before(last, x) PROVE x \notin page
  BY <1>1, <1>5, FeedOrder
<1> QED
  BY <1>2, <1>3, <1>4, <1>5

(* Days are in the order of their instants.                                 *)
LEMMA DaysInOrder ==
    ASSUME NEW s \in Nat, NEW t \in Nat, s <= t
    PROVE  Day(s) \in Int /\ Day(t) \in Int /\ Day(s) <= Day(t)
<1>1. INSTANTS_PER_DAY \in Nat \ {0}
  BY ServiceDayAssumption
<1> QED
  BY <1>1 DEF Day

---------------------------------------------------------------------------
(* A walk through the pages.                                                *)

Walking ==
    [stage : {"page", "day", "probe", "done"}, req : Requests, cursor : Cursors,
     shown : [LinkIds -> Nat], lookahead : Cursors]

(* The cursor divides the links that stay: those up to it were shown once,  *)
(* those after it were not, and what is still to come is of another day     *)
(* when the pages are aligned.                                              *)
CursorDivides ==
    \A x \in steady : walk.shown[x] = IF After(x, walk.cursor) THEN 0 ELSE 1

NoneLeft == walk.stage = "done" => \A x \in steady : ~ After(x, walk.cursor)

DayIsComplete ==
    walk.stage \in {"page", "probe"} /\ walk.req.align /\ walk.cursor # NoCursor =>
        \A x \in steady : After(x, walk.cursor) => Day(table[x].at) # Day(walk.cursor.at)

WalkInv ==
    \/ walk = Idle0 /\ steady = {}
    \/ /\ walk \in Walking
       /\ steady \subseteq Listed(walk.req)
       /\ walk.stage = "day" => walk.lookahead = walk.cursor /\ walk.cursor # NoCursor
       /\ CursorDivides /\ NoneLeft /\ DayIsComplete

(* What one more query adds, when its rows are a leading part of what is    *)
(* still to come, and the cursor moves to the last of them.                 *)
LEMMA ShowingKeepsDivision ==
    ASSUME LinksAreForest, walk \in Walking, steady \subseteq Listed(walk.req), CursorDivides,
           NEW page, NEW last \in page, IsLeading(page, Rows(walk.req, walk.cursor)),
           \A y \in page \ {last} : Before(y, last)
    PROVE  /\ Showing(page) \in [LinkIds -> Nat] /\ CursorOf(last) \in Cursors
           /\ CursorOf(last) # NoCursor
           /\ \A x \in steady :
                 /\ Showing(page)[x] = IF After(x, CursorOf(last)) THEN 0 ELSE 1
                 /\ After(x, CursorOf(last)) <=> x \in Rows(walk.req, walk.cursor) \ page
<1>1. walk.cursor \in Cursors /\ walk.shown \in [LinkIds -> Nat]
  BY DEF Walking
<1>2. AreRows(Listed(walk.req)) /\ last \in Listed(walk.req)
  BY DEF AreRows, Listed, IsLeading, Rows
<1>3. last \in LinkIds /\ table[last].at \in Instants /\ table[last].at \in Nat
  BY <1>2, RowsAreLinks
<1>4. CursorOf(last) \in Cursors /\ CursorOf(last) # NoCursor
  BY <1>3 DEF CursorOf, Cursors, NoCursor
<1>5. Showing(page) \in [LinkIds -> Nat]
  BY <1>1 DEF Showing
<1>6. ASSUME NEW x \in steady
      PROVE  /\ Showing(page)[x] = IF After(x, CursorOf(last)) THEN 0 ELSE 1
             /\ After(x, CursorOf(last)) <=> x \in Rows(walk.req, walk.cursor) \ page
  <2>1. x \in Listed(walk.req) /\ x \in LinkIds
    BY <1>2, RowsAreLinks
  <2>2. After(x, CursorOf(last)) <=> x \in Rows(walk.req, walk.cursor) \ page
    BY <1>1, <2>1, ContinueAfterPart
  <2>3. x \in Rows(walk.req, walk.cursor) <=> After(x, walk.cursor)
    BY <2>1 DEF Rows
  <2>4. walk.shown[x] = (IF After(x, walk.cursor) THEN 0 ELSE 1)
    BY DEF CursorDivides
  <2>5. Showing(page)[x] = walk.shown[x] + (IF x \in page THEN 1 ELSE 0)
    BY <2>1 DEF Showing
  <2>6. x \in page => x \in Rows(walk.req, walk.cursor)
    BY DEF IsLeading
  <2>7. CASE x \in page
    BY <2>2, <2>3, <2>4, <2>5, <2>6, <2>7
  <2>8. CASE x \notin page
    <3>1. Showing(page)[x] = walk.shown[x]
      BY <2>4, <2>5, <2>8
    <3> QED
      BY <2>2, <2>3, <2>4, <2>8, <3>1
  <2> QED
    BY <2>2, <2>7, <2>8
<1> QED
  BY <1>4, <1>5, <1>6

(* The rows a request lists depend on the table alone.                      *)
LEMMA ListedUnchanged ==
    ASSUME table' = table, walk'.req = walk.req
    PROVE  Listed(walk.req)' = Listed(walk.req)
<1>1. Parents' = Parents /\ Present' = Present
  BY DEF Parents, Present
<1>2. \A x, bound : SubtreeHas(x, bound)' <=> SubtreeHas(x, bound)
  BY <1>1 DEF SubtreeHas
<1> QED
  BY <1>1, <1>2 DEF Listed, EventWindow, EventWindowBefore

(* The invariant of the walk from what a query did to the walk.             *)
LEMMA QueryKeepsWalk ==
    ASSUME table' = table, steady' = steady, steady \subseteq Listed(walk.req),
           walk' \in Walking, walk'.req = walk.req,
           walk'.stage = "day" => walk'.lookahead = walk'.cursor /\ walk'.cursor # NoCursor,
           \A x \in steady : walk'.shown[x] = IF After(x, walk'.cursor) THEN 0 ELSE 1,
           walk'.stage = "done" => \A x \in steady : ~ After(x, walk'.cursor),
           walk'.stage \in {"page", "probe"} /\ walk.req.align /\ walk'.cursor # NoCursor =>
             \A x \in steady : After(x, walk'.cursor) => Day(table[x].at) # Day(walk'.cursor.at)
    PROVE  WalkInv'
<1>1. Listed(walk.req)' = Listed(walk.req)
  BY ListedUnchanged
<1>2. \A x : After(x, walk.cursor)' <=> After(x, walk'.cursor)
  BY DEF After
<1>3. CursorDivides'
  BY <1>2 DEF CursorDivides
<1>4. NoneLeft'
  BY <1>2 DEF NoneLeft
<1>5. DayIsComplete'
  BY <1>2 DEF DayIsComplete
<1> QED
  BY <1>1, <1>3, <1>4, <1>5 DEF WalkInv

(* The walk after a page query.                                             *)
LEMMA ReadPageKeepsWalk ==
    ASSUME LinksAreForest, WalkInv, ReadPage
    PROVE  WalkInv'
<1> DEFINE rows == Rows(walk.req, walk.cursor)
           page == Leading(PAGE_SIZE, rows)
           lookahead == FirstOf(rows \ page)
           last == LastOf(page)
           whole == page \cup {lookahead}
<1>1. /\ walk \in Walking /\ walk.stage = "page" /\ steady \subseteq Listed(walk.req)
      /\ CursorDivides /\ DayIsComplete
      /\ table' = table /\ steady' = steady
  BY DEF ReadPage, Reading, WalkInv, Idle0
<1>2. AreRows(rows) /\ AreRows(page) /\ AreRows(rows \ page) /\ page \subseteq rows
  BY DEF AreRows, Rows, Listed, Leading
<1>3. IsLeading(page, rows) /\ (rows # {} => page # {})
  <2> HIDE DEF rows
  <2> QED
    BY <1>2, PagesLead, FeedAssumption
<1>4. CASE rows = {}
  <2>1. walk' = [walk EXCEPT !.stage = "done"]
    BY <1>4 DEF ReadPage
  <2>2. /\ walk' \in Walking /\ walk'.stage = "done" /\ walk'.req = walk.req
        /\ walk'.cursor = walk.cursor /\ walk'.shown = walk.shown
    BY <1>1, <2>1 DEF Walking
  <2>3. \A x \in steady : ~ After(x, walk.cursor)
    BY <1>1, <1>4 DEF Rows
  <2> QED
    BY <1>1, <2>2, <2>3, QueryKeepsWalk DEF CursorDivides
<1>5. ASSUME rows # {}
      PROVE  /\ last \in page /\ \A y \in page \ {last} : Before(y, last)
             /\ Showing(page) \in [LinkIds -> Nat] /\ CursorOf(last) \in Cursors
             /\ \A x \in steady :
                   /\ Showing(page)[x] = IF After(x, CursorOf(last)) THEN 0 ELSE 1
                   /\ After(x, CursorOf(last)) <=> x \in rows \ page
  <2>1. last \in page /\ \A y \in page \ {last} : Before(y, last)
    <3> HIDE DEF page
    <3> QED
      BY <1>2, <1>3, <1>5, RowsHaveEnds
  <2> HIDE DEF page, last
  <2> QED
    BY <1>1, <1>3, <2>1, ShowingKeepsDivision
<1>6. CASE rows # {} /\ rows = page
  <2>1. walk' = [walk EXCEPT !.stage = "done", !.shown = Showing(page), !.cursor = CursorOf(last)]
    BY <1>6 DEF ReadPage
  <2> HIDE DEF rows, page, last
  <2>2. /\ walk' \in Walking /\ walk'.stage = "done" /\ walk'.req = walk.req
        /\ walk'.cursor = CursorOf(last) /\ walk'.shown = Showing(page)
    BY <1>1, <1>5, <1>6, <2>1 DEF Walking
  <2> QED
    BY <1>1, <1>5, <1>6, <2>2, QueryKeepsWalk
<1>7. ASSUME rows # {}, rows # page
      PROVE  /\ lookahead \in rows \ page /\ \A y \in (rows \ page) \ {lookahead} : Before(lookahead, y)
             /\ Before(last, lookahead)
             /\ IsLeading(whole, rows) /\ \A y \in whole \ {lookahead} : Before(y, lookahead)
  <2>1. /\ lookahead \in rows \ page
        /\ \A y \in (rows \ page) \ {lookahead} : Before(lookahead, y)
    <3> HIDE DEF rows, page
    <3> QED
      BY <1>2, <1>7, RowsHaveEnds
  <2> HIDE DEF rows, page, last, lookahead
  <2>2. \A y \in page : Before(y, lookahead)
    BY <1>2, <1>3, <2>1, FeedOrder DEF IsLeading
  <2>3. \A y \in rows : Before(y, lookahead) => y \in page
    BY <1>2, <2>1, FeedOrder
  <2>4. IsLeading(whole, rows)
    BY <1>2, <1>3, <2>1, <2>3 DEF IsLeading
  <2> QED
    BY <1>5, <1>7, <2>1, <2>2, <2>4
<1>8. CASE /\ rows # {} /\ rows # page
           /\ walk.req.align /\ Day(CursorOf(lookahead).at) = Day(CursorOf(last).at)
  <2>1. walk' = [walk EXCEPT !.stage = "day", !.shown = Showing(whole),
                             !.cursor = CursorOf(lookahead), !.lookahead = CursorOf(lookahead)]
    BY <1>8 DEF ReadPage
  <2>2. /\ Showing(whole) \in [LinkIds -> Nat] /\ CursorOf(lookahead) \in Cursors
        /\ CursorOf(lookahead) # NoCursor
        /\ \A x \in steady :
              Showing(whole)[x] = IF After(x, CursorOf(lookahead)) THEN 0 ELSE 1
    <3>1. lookahead \in whole
      OBVIOUS
    <3> HIDE DEF whole, lookahead
    <3> QED
      BY <1>1, <1>7, <1>8, <3>1, ShowingKeepsDivision
  <2> HIDE DEF rows, page, last, lookahead, whole
  <2>3. /\ walk' \in Walking /\ walk'.stage = "day" /\ walk'.req = walk.req
        /\ walk'.cursor = CursorOf(lookahead) /\ walk'.shown = Showing(whole)
        /\ walk'.lookahead = CursorOf(lookahead)
    BY <1>1, <2>1, <2>2 DEF Walking
  <2> QED
    BY <1>1, <2>2, <2>3, QueryKeepsWalk
<1>9. CASE /\ rows # {} /\ rows # page
           /\ ~ (walk.req.align /\ Day(CursorOf(lookahead).at) = Day(CursorOf(last).at))
  <2>1. walk' = [walk EXCEPT !.shown = Showing(page), !.cursor = CursorOf(last)]
    BY <1>9 DEF ReadPage
  <2>2. ASSUME walk.req.align, NEW x \in steady, After(x, CursorOf(last))
        PROVE  Day(table[x].at) # Day(CursorOf(last).at)
    <3>1. x \in rows \ page /\ lookahead \in rows /\ last \in rows
      BY <1>2, <1>5, <1>7, <1>9, <2>2
    <3> HIDE DEF rows, page, last, lookahead
    <3>2. x = lookahead \/ Before(lookahead, x)
      BY <1>7, <1>9, <3>1
    <3>3. /\ table[x].at \in Nat /\ table[lookahead].at \in Nat /\ table[last].at \in Nat
      BY <1>2, <3>1, RowsAreLinks
    <3>4. table[x].at <= table[lookahead].at /\ table[lookahead].at <= table[last].at
      BY <1>7, <1>9, <3>2, <3>3 DEF Before
    <3>5. /\ Day(table[x].at) \in Int /\ Day(table[lookahead].at) \in Int
          /\ Day(table[last].at) \in Int
          /\ Day(table[x].at) <= Day(table[lookahead].at)
          /\ Day(table[lookahead].at) <= Day(table[last].at)
      BY <3>3, <3>4, DaysInOrder
    <3>6. Day(table[lookahead].at) # Day(table[last].at) /\ CursorOf(last).at = table[last].at
      BY <1>9, <2>2 DEF CursorOf
    <3> QED
      BY <3>5, <3>6
  <2> HIDE DEF rows, page, last, lookahead
  <2>3. /\ walk' \in Walking /\ walk'.stage = "page" /\ walk'.req = walk.req
        /\ walk'.cursor = CursorOf(last) /\ walk'.shown = Showing(page)
    BY <1>1, <1>5, <1>9, <2>1 DEF Walking
  <2> QED
    BY <1>1, <1>5, <1>9, <2>2, <2>3, QueryKeepsWalk
<1> HIDE DEF rows, page, last, lookahead
<1> QED
  BY <1>4, <1>6, <1>8, <1>9

(* The walk after the query that completes the day.                         *)
LEMMA ReadDayKeepsWalk ==
    ASSUME LinksAreForest, WalkInv, ReadDay
    PROVE  WalkInv'
<1> DEFINE rows == Rows(walk.req, walk.cursor)
           rest == {x \in rows : Day(table[x].at) = Day(walk.cursor.at)}
           last == LastOf(rest)
<1>1. /\ walk \in Walking /\ walk.stage = "day" /\ steady \subseteq Listed(walk.req)
      /\ CursorDivides /\ walk.lookahead = walk.cursor /\ walk.cursor # NoCursor
      /\ table' = table /\ steady' = steady
  BY DEF ReadDay, Reading, WalkInv, Idle0
<1>2. AreRows(rows) /\ AreRows(rest) /\ rest \subseteq rows
  BY DEF AreRows, Rows, Listed
<1>3. walk' = [walk EXCEPT !.stage = "probe", !.shown = Showing(rest),
                           !.cursor = IF rest = {} THEN walk.cursor ELSE CursorOf(last)]
  BY <1>1 DEF ReadDay
<1>4. walk.cursor.at \in Nat
  BY <1>1, FeedAssumption DEF Walking, Cursors
<1>5. CASE rest = {}
  <2>1. /\ Showing(rest) = walk.shown
    <3>1. walk.shown = [x \in LinkIds |-> walk.shown[x]] /\ \A x \in LinkIds : walk.shown[x] \in Nat
      BY <1>1 DEF Walking
    <3>2. \A x \in LinkIds : walk.shown[x] + (IF x \in rest THEN 1 ELSE 0) = walk.shown[x]
      BY <1>5, <3>1
    <3> HIDE DEF rest
    <3>3. Showing(rest) = [x \in LinkIds |-> walk.shown[x]]
      BY <3>2 DEF Showing
    <3> QED
      BY <3>1, <3>3
  <2>2. /\ walk' \in Walking /\ walk'.stage = "probe" /\ walk'.req = walk.req
        /\ walk'.cursor = walk.cursor /\ walk'.shown = walk.shown
    <3> HIDE DEF rest, last
    <3> QED
      BY <1>1, <1>3, <1>5, <2>1 DEF Walking
  <2>3. \A x \in steady : After(x, walk.cursor) => Day(table[x].at) # Day(walk.cursor.at)
    BY <1>1, <1>5 DEF Rows
  <2> QED
    BY <1>1, <2>2, <2>3, QueryKeepsWalk DEF CursorDivides
<1>6. CASE rest # {}
  <2>1. last \in rest /\ \A y \in rest \ {last} : Before(y, last)
    <3> HIDE DEF rest
    <3> QED
      BY <1>2, <1>6, RowsHaveEnds
  <2>2. IsLeading(rest, rows)
    <3> SUFFICES ASSUME NEW x \in rest, NEW y \in rows, Before(y, x)
                 PROVE  Day(table[y].at) = Day(walk.cursor.at)
      BY DEF IsLeading
    <3>1. Day(table[x].at) = Day(walk.cursor.at) /\ x \in rows /\ After(y, walk.cursor)
      BY DEF Rows
    <3> HIDE DEF rows
    <3>2. table[x].at \in Nat /\ table[y].at \in Nat
      BY <1>2, <3>1, RowsAreLinks
    <3>3. table[x].at <= table[y].at /\ table[y].at <= walk.cursor.at
      BY <1>1, <1>4, <3>1, <3>2 DEF Before, After
    <3>4. /\ Day(table[x].at) \in Int /\ Day(table[y].at) \in Int /\ Day(walk.cursor.at) \in Int
          /\ Day(table[x].at) <= Day(table[y].at)
          /\ Day(table[y].at) <= Day(walk.cursor.at)
      BY <1>4, <3>2, <3>3, DaysInOrder
    <3> QED
      BY <3>1, <3>4
  <2>3. Day(CursorOf(last).at) = Day(walk.cursor.at)
    BY <2>1 DEF CursorOf
  <2>4. \A x \in rows \ rest : Day(table[x].at) # Day(walk.cursor.at)
    OBVIOUS
  <2> HIDE DEF rest, last
  <2>5. /\ Showing(rest) \in [LinkIds -> Nat] /\ CursorOf(last) \in Cursors
        /\ \A x \in steady :
              /\ Showing(rest)[x] = IF After(x, CursorOf(last)) THEN 0 ELSE 1
              /\ After(x, CursorOf(last)) <=> x \in rows \ rest
    BY <1>1, <2>1, <2>2, ShowingKeepsDivision
  <2> HIDE DEF rows
  <2>6. /\ walk' \in Walking /\ walk'.stage = "probe" /\ walk'.req = walk.req
        /\ walk'.cursor = CursorOf(last) /\ walk'.shown = Showing(rest)
    BY <1>1, <1>3, <1>6, <2>5 DEF Walking
  <2>7. \A x \in steady : After(x, walk'.cursor) => Day(table[x].at) # Day(walk'.cursor.at)
    BY <2>3, <2>4, <2>5, <2>6
  <2> QED
    BY <1>1, <2>5, <2>6, <2>7, QueryKeepsWalk
<1> QED
  BY <1>5, <1>6

(* An edit leaves the walk alone; the links that stay kept their instants.  *)
LEMMA EditKeepsWalk ==
    ASSUME LinksAreForest, WalkInv, NEW new, NEW moved, Edit(new, moved), IsEdit(new, moved)
    PROVE  WalkInv'
<1>1. /\ table' = new /\ walk' = walk /\ walk.stage \notin {"idle", "done"}
      /\ steady' \subseteq steady \ moved /\ steady' \subseteq Listed(walk.req)'
  BY DEF Edit
<1>2. /\ walk \in Walking /\ steady \subseteq Listed(walk.req) /\ CursorDivides /\ DayIsComplete
      /\ walk.stage = "day" => walk.lookahead = walk.cursor /\ walk.cursor # NoCursor
  BY <1>1 DEF WalkInv, Idle0
<1>3. \A x \in steady' : table'[x].at = table[x].at
  <2>1. steady' \subseteq Present /\ steady' \subseteq DOMAIN new
    BY <1>1, <1>2 DEF Listed, Present
  <2> QED
    BY <1>1, <2>1 DEF IsEdit
<1>4. \A x \in steady' : After(x, walk.cursor)' <=> After(x, walk.cursor)
  BY <1>1, <1>3 DEF After
<1>5. CursorDivides' /\ NoneLeft' /\ DayIsComplete'
  <2>1. CursorDivides'
    BY <1>1, <1>2, <1>4 DEF CursorDivides
  <2>2. NoneLeft'
    BY <1>1 DEF NoneLeft
  <2>3. DayIsComplete'
    BY <1>1, <1>2, <1>3, <1>4 DEF DayIsComplete
  <2> QED
    BY <2>1, <2>2, <2>3
<1> QED
  BY <1>1, <1>2, <1>5 DEF WalkInv

(* Every step of the reader and every edit keeps the invariant of the walk. *)
LEMMA WalkInductive == LinksAreForest /\ WalkInv /\ [FeedNext]_feedVars => WalkInv'
<1> SUFFICES ASSUME LinksAreForest, WalkInv, [FeedNext]_feedVars PROVE WalkInv'
  OBVIOUS
<1>1. ASSUME NEW req \in Walks, Begin(req) PROVE WalkInv'
  <2>1. /\ walk' = [stage |-> "page", req |-> req, cursor |-> NoCursor,
                    shown |-> [x \in LinkIds |-> 0], lookahead |-> NoCursor]
        /\ steady' = Listed(req) /\ table' = table
    BY <1>1 DEF Begin
  <2>2. walk' \in Walking /\ walk'.req = req /\ walk'.cursor = NoCursor /\ walk'.stage = "page"
    BY <2>1, WalksAssumption DEF Walking, Cursors, NoCursor, Null
  <2>3. Listed(walk.req)' = Listed(req)
    <3>1. Parents' = Parents /\ Present' = Present
      BY <2>1 DEF Parents, Present
    <3>2. \A x, bound : SubtreeHas(x, bound)' <=> SubtreeHas(x, bound)
      BY <2>1, <3>1 DEF SubtreeHas
    <3> QED
      BY <2>1, <2>2, <3>1, <3>2 DEF Listed, EventWindow, EventWindowBefore
  <2>4. \A x \in steady' : walk'.shown[x] = 0
    <3>1. Listed(req) \subseteq LinkIds
      BY DEF Listed, LinksAreForest
    <3> QED
      BY <2>1, <3>1
  <2>5. CursorDivides' /\ NoneLeft' /\ DayIsComplete'
    BY <2>2, <2>4 DEF CursorDivides, NoneLeft, DayIsComplete, After
  <2> QED
    BY <2>1, <2>2, <2>3, <2>5 DEF WalkInv
<1>2. ASSUME Probe PROVE WalkInv'
  <2>1. /\ walk \in Walking /\ steady \subseteq Listed(walk.req) /\ CursorDivides /\ DayIsComplete
        /\ table' = table /\ steady' = steady /\ walk.stage = "probe"
        /\ walk' = [walk EXCEPT !.stage = IF Rows(walk.req, walk.cursor) = {} THEN "done" ELSE "page"]
    BY <1>2 DEF WalkInv, Idle0, Probe, Reading
  <2>2. /\ walk' \in Walking /\ walk'.req = walk.req /\ walk'.cursor = walk.cursor
        /\ walk'.shown = walk.shown /\ walk'.stage \in {"done", "page"}
        /\ walk'.stage = "done" => Rows(walk.req, walk.cursor) = {}
    BY <2>1 DEF Walking
  <2>3. Rows(walk.req, walk.cursor) = {} => \A x \in steady : ~ After(x, walk.cursor)
    BY <2>1 DEF Rows
  <2> QED
    BY <2>1, <2>2, <2>3, QueryKeepsWalk DEF CursorDivides, DayIsComplete
<1>3. CASE UNCHANGED feedVars
  <2>1. table' = table /\ walk' = walk /\ steady' = steady
    BY <1>3 DEF feedVars
  <2>2. Listed(walk.req)' = Listed(walk.req)
    BY <2>1, ListedUnchanged
  <2> QED
    BY <2>1, <2>2 DEF WalkInv, CursorDivides, NoneLeft, DayIsComplete, After
<1> QED
  BY <1>1, <1>2, <1>3, EditsAre, ReadPageKeepsWalk, ReadDayKeepsWalk, EditKeepsWalk

(* The cursor divides the feed on every walk, through all edits.            *)
LEMMA WalksDivide == FeedSpec => []WalkInv
<1>1. FeedInit => WalkInv
  BY DEF FeedInit, WalkInv
<1> QED
  BY <1>1, WalkInductive, LinksStayForest, PTL DEF FeedSpec

(* A link that belonged to the feed and kept its instant from the first     *)
(* page to the last is shown exactly once, for every page size and whatever *)
(* arrives, moves or disappears between two queries.                        *)
THEOREM StayingLinksShown == FeedSpec => []StayingLinksShownOnce
<1>1. WalkInv => StayingLinksShownOnce
  BY DEF WalkInv, StayingLinksShownOnce, Idle0, CursorDivides, NoneLeft
<1> QED
  BY <1>1, WalksDivide, PTL

(* Aligned pages end with their day: between two pages no link that stays   *)
(* and is of the last page's day is still to come.                          *)
THEOREM PagesAlign == FeedSpec => []PagesEndWithTheDay
<1>1. WalkInv => PagesEndWithTheDay
  BY DEF WalkInv, PagesEndWithTheDay, Reading, Idle0, CursorDivides, DayIsComplete
<1> QED
  BY <1>1, WalksDivide, PTL

(* Rows, requests and walks stay in their types.                            *)
THEOREM FeedTyped == FeedSpec => []FeedTypeOK
<1> DEFINE Counted == edits \in 0 .. MaxEdits
<1>1. FeedInit => Counted
  BY FeedAssumption DEF FeedInit
<1>2. LinksAreForest /\ Counted /\ [FeedNext]_feedVars => Counted'
  <2> SUFFICES ASSUME LinksAreForest, Counted, [FeedNext]_feedVars PROVE Counted'
    OBVIOUS
  <2>1. ASSUME NEW new, NEW moved, Edit(new, moved) PROVE Counted'
    BY <2>1, FeedAssumption DEF Edit
  <2> QED
    BY <2>1, EditsAre DEF feedVars, Begin, ReadPage, ReadDay, Probe
<1>3. LinksAreForest /\ WalkInv /\ Counted => FeedTypeOK
  <2> SUFFICES ASSUME LinksAreForest, WalkInv, Counted PROVE FeedTypeOK
    OBVIOUS
  <2>1. /\ walk.stage \in {"idle", "page", "day", "probe", "done"}
        /\ walk.stage # "idle" => walk.req \in Requests /\ walk.shown \in [LinkIds -> Nat]
    BY DEF WalkInv, Walking, Idle0
  <2>2. steady \subseteq Present
    BY DEF WalkInv, Listed
  <2> QED
    BY <2>1, <2>2 DEF FeedTypeOK, LinksAreForest
<1> QED
  BY <1>1, <1>2, <1>3, LinksStayForest, WalksDivide, PTL DEF FeedSpec
===========================================================================
