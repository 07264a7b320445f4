-------------------------- MODULE SocialLinkTree --------------------------
(* The SocialMediaLink table as the thread mutations see it: one ordered    *)
(* tree per thread, kept in the columns parent, position and occurred_at.   *)
(* Every call here is one transaction that runs alone; SocialLinkTreeTx has *)
(* the same calls as overlapping transactions.                              *)
EXTENDS Integers, FiniteSets, Sequences, LinkForest

CONSTANTS
    Links,             \* primary keys a row can have; their order breaks ties
    Users,
    Admins,            \* callers whose context has is_admin
    Owner,             \* SocialMediaLink.user of each row, never reassigned
    Instants,          \* values of occurred_at
    MAX_THREAD_DEPTH,
    MaxPosition        \* bound: no row is submitted past this root position

ASSUME LinksAssumption == IsFiniteSet(Links) /\ Links \subseteq Nat \ {Null}
ASSUME UsersAssumption == Admins \subseteq Users /\ Owner \in [Links -> Users]
ASSUME NumbersAssumption ==
    Instants \subseteq Nat /\ MAX_THREAD_DEPTH \in Nat /\ MaxPosition \in Nat

VARIABLES
    parent,        \* parent_id of every row of the table, Null for a root
    position,      \* the stored sibling sequence
    occurred_at,   \* when the event happened, editable by the owner
    caller         \* history: the user whose call was committed last

vars == <<parent, position, occurred_at, caller>>

PositionStep == 10

rows == DOMAIN parent

TypeOK ==
    /\ rows \subseteq Links
    /\ parent \in [rows -> rows \cup {Null}]
    /\ position \in [rows -> Nat]
    /\ occurred_at \in [rows -> Instants]
    /\ caller \in Users

Init ==
    /\ parent = [x \in {} |-> Null]
    /\ position = [x \in {} |-> 0]
    /\ occurred_at = [x \in {} |-> 0]
    /\ caller \in Users

---------------------------------------------------------------------------
(* Orders: the election rule for roots, and the stored sibling order.       *)

Earlier(x, y) ==
    \/ occurred_at[x] < occurred_at[y]
    \/ occurred_at[x] = occurred_at[y] /\ x < y

SiblingBefore(pos, x, y) ==
    \/ pos[x] < pos[y]
    \/ pos[x] = pos[y] /\ x < y

ElectedRoot(sel) == CHOOSE r \in sel : \A y \in sel \ {r} : Earlier(r, y)

(* Slip: arrivals numbered by submission instead of by event.               *)
ArrivalRankBySubmission(movers) ==
    [x \in movers |-> Cardinality({y \in movers : y <= x})]

(* The order grouping writes for the rows that arrive, as 1, 2, 3, ...      *)
ArrivalRank(movers) ==
    [x \in movers |-> Cardinality({y \in movers : y = x \/ Earlier(y, x)})]

(* The order a reorder call names. *)
NamedRank(named) ==
    [x \in {named[i] : i \in DOMAIN named} |->
        CHOOSE i \in DOMAIN named : named[i] = x]

(* Reindexing one sibling set: the ranked rows lead, the others follow in   *)
(* their stored order, and the whole set is numbered 10, 20, 30, ...        *)
Reindexed(pos, rank, stayers, x) ==
    PositionStep *
        IF x \in DOMAIN rank
        THEN rank[x]
        ELSE Cardinality(DOMAIN rank)
             + Cardinality({y \in stayers : y = x \/ SiblingBefore(pos, y, x)})

---------------------------------------------------------------------------
(* What a grouping call writes.  `t' is the parent the movers get, `sel'    *)
(* the whole selection (the movers, and t itself when it is promoted).      *)

GroupedParent(par, sel, t) ==
    [x \in DOMAIN par |->
        IF x \in sel THEN (IF x = t THEN Null ELSE t) ELSE par[x]]

(* The sibling sets that lose a member: the old parents, roots excepted.    *)
LeftParents(par, sel, t) == {par[x] : x \in sel} \ {Null, t}

(* Slip: a re-parent leaves the number alone, as the tree library does.     *)
GroupedPositionKept(par, pos, sel, t) == pos

(* Slip: arrivals are appended after the sublinks the target already has.   *)
GroupedPositionAppends(par, pos, sel, t) ==
    LET movers == sel \ {t}
    IN  [x \in DOMAIN par |->
            IF x \in movers
            THEN PositionStep * (Cardinality(Children(par, t)) + ArrivalRank(movers)[x])
            ELSE pos[x]]

GroupedPosition(par, pos, sel, t) ==
    LET movers == sel \ {t}
        stayers(p) == Children(par, p) \ sel
    IN  [x \in DOMAIN par |->
            IF x \in movers \/ x \in stayers(t)
            THEN Reindexed(pos, ArrivalRank(movers), stayers(t), x)
            ELSE IF x \notin sel /\ par[x] \in LeftParents(par, sel, t)
                 THEN Reindexed(pos, <<>>, stayers(par[x]), x)
                 ELSE pos[x]]

(* Slip: only the earliest mover is looked for above the target.            *)
GroupAllowedFirstMover(par, sel, t, base) ==
    /\ \A m \in sel \ {t} :
          m = ElectedRoot(sel \ {t}) => m \notin Ancestors(par, t)
    /\ DepthAllows(par, sel \ {t}, base + 1, MAX_THREAD_DEPTH)

(* Slip: the movers are measured without the subtrees they carry.           *)
GroupAllowedMoverAlone(par, sel, t, base) ==
    /\ (sel \ {t}) \cap Ancestors(par, t) = {}
    /\ sel \ {t} # {} => base + 1 <= MAX_THREAD_DEPTH

(* The refusals of a grouping call, for a target that ends at depth `base'. *)
GroupAllowed(par, sel, t, base) ==
    /\ (sel \ {t}) \cap Ancestors(par, t) = {}
    /\ DepthAllows(par, sel \ {t}, base + 1, MAX_THREAD_DEPTH)

OwnsAll(u, S) == u \in Admins \/ \A x \in S : Owner[x] = u

---------------------------------------------------------------------------
(* The calls.  A refused call writes nothing, so it is no action.           *)

(* A new row is a root, numbered after the last root by the tree library.   *)
Submit(u, x, at) ==
    /\ x \in Links \ rows
    /\ Owner[x] = u
    /\ parent' = [y \in rows \cup {x} |-> IF y = x THEN Null ELSE parent[y]]
    /\ \E last \in {position[y] : y \in Children(parent, Null)} \cup {0} :
          /\ \A y \in Children(parent, Null) : position[y] <= last
          /\ last + PositionStep <= MaxPosition
          /\ position' = [y \in rows \cup {x} |->
                            IF y = x THEN last + PositionStep ELSE position[y]]
    /\ occurred_at' = [y \in rows \cup {x} |->
                         IF y = x THEN at ELSE occurred_at[y]]
    /\ caller' = u

(* update_social_media_link: editing the instant moves no row.              *)
EditOccurredAt(u, x, at) ==
    /\ x \in rows
    /\ OwnsAll(u, {x})
    /\ occurred_at' = [occurred_at EXCEPT ![x] = at]
    /\ caller' = u
    /\ UNCHANGED <<parent, position>>

(* groupSocialMediaLinks without a parent: the earliest selected event is   *)
(* promoted to a root and takes the others as its children.                 *)
GroupNewThread(u, sel) ==
    LET r == ElectedRoot(sel)
    IN  /\ OwnsAll(u, sel)
        /\ GroupAllowed(parent, sel, r, 0)
        /\ parent' = GroupedParent(parent, sel, r)
        /\ position' = GroupedPosition(parent, position, sel, r)
        /\ caller' = u
        /\ UNCHANGED occurred_at

(* Slip: the target may be somebody else's.                                 *)
GroupUnderForeign(u, sel, t) ==
    /\ t \in rows \ sel
    /\ OwnsAll(u, sel)
    /\ GroupAllowed(parent, sel, t, Depth(parent, t))
    /\ parent' = GroupedParent(parent, sel, t)
    /\ position' = GroupedPosition(parent, position, sel, t)
    /\ caller' = u
    /\ UNCHANGED occurred_at

(* groupSocialMediaLinks with a parent: the selection becomes its children. *)
(* A selection that contains the target is refused as a cycle.              *)
GroupUnder(u, sel, t) ==
    /\ t \in rows \ sel
    /\ OwnsAll(u, sel \cup {t})
    /\ GroupAllowed(parent, sel, t, Depth(parent, t))
    /\ parent' = GroupedParent(parent, sel, t)
    /\ position' = GroupedPosition(parent, position, sel, t)
    /\ caller' = u
    /\ UNCHANGED occurred_at

(* ungroupSocialMediaLinks clears the parent of exactly these rows.         *)
Ungroup(u, sel) ==
    /\ OwnsAll(u, sel)
    /\ parent' = [x \in rows |-> IF x \in sel THEN Null ELSE parent[x]]
    /\ caller' = u
    /\ UNCHANGED <<position, occurred_at>>

(* reorderSocialMediaLinks permutes one sibling set: the named rows lead.   *)
(* The cycle check of the code cannot fail once the rows are children of p. *)
Reorder(u, p, named) ==
    LET sel == {named[i] : i \in DOMAIN named}
        stayers == Children(parent, p) \ sel
        base == IF p = Null THEN -1 ELSE Depth(parent, p)
    IN  /\ sel \subseteq Children(parent, p)
        /\ OwnsAll(u, IF p = Null THEN sel ELSE sel \cup {p})
        /\ DepthAllows(parent, sel, base + 1, MAX_THREAD_DEPTH)
        /\ position' = [x \in rows |->
                          IF x \in sel \cup stayers
                          THEN Reindexed(position, NamedRank(named), stayers, x)
                          ELSE position[x]]
        /\ caller' = u
        /\ UNCHANGED <<parent, occurred_at>>

(* Slip: the sublinks keep pointing at the deleted row.                     *)
DeleteDangling(u, x) ==
    /\ x \in rows
    /\ OwnsAll(u, {x})
    /\ parent' = [y \in rows \ {x} |-> parent[y]]
    /\ position' = [y \in rows \ {x} |-> position[y]]
    /\ occurred_at' = [y \in rows \ {x} |-> occurred_at[y]]
    /\ caller' = u

(* delete_social_media_link: on_delete=SET_NULL makes the children roots.   *)
Delete(u, x) ==
    /\ x \in rows
    /\ OwnsAll(u, {x})
    /\ parent' = [y \in rows \ {x} |-> IF parent[y] = x THEN Null ELSE parent[y]]
    /\ position' = [y \in rows \ {x} |-> position[y]]
    /\ occurred_at' = [y \in rows \ {x} |-> occurred_at[y]]
    /\ caller' = u

(* The selections and the orders a caller can send: no repeated id.         *)
Selections == (SUBSET rows) \ {{}}
Orders(S) == {f \in [1 .. Cardinality(S) -> S] : {f[i] : i \in DOMAIN f} = S}

Next ==
    \E u \in Users :
        \/ \E x \in Links, at \in Instants : Submit(u, x, at)
        \/ \E x \in rows, at \in Instants : EditOccurredAt(u, x, at)
        \/ \E sel \in Selections : GroupNewThread(u, sel)
        \/ \E sel \in Selections, t \in rows : GroupUnder(u, sel, t)
        \/ \E sel \in Selections : Ungroup(u, sel)
        \/ \E sel \in Selections, p \in rows \cup {Null} :
              \E named \in Orders(sel) : Reorder(u, p, named)
        \/ \E x \in rows : Delete(u, x)

Spec == Init /\ [][Next]_vars

---------------------------------------------------------------------------
(* Properties.                                                              *)

(* No sequence of thread calls makes a link its own descendant: the upward  *)
(* walk of _assert_no_cycle is enough for every mover of every selection.   *)
NoCycles == Acyclic(parent)

(* Whatever subtree a mover carries along, and however deep the promoted    *)
(* root was, nothing ends below MAX_THREAD_DEPTH: _assert_depth measures    *)
(* the result before it is written.                                         *)
DepthWithinCap == \A x \in rows : Depth(parent, x) <= MAX_THREAD_DEPTH

(* The sublinks of a row have a stored order without ties, after any mix of *)
(* moves in, moves out, promotions and deletions (_reindex_siblings).       *)
SublinksNeverTie ==
    \A x, y \in rows :
        x # y /\ parent[x] = parent[y] /\ parent[x] # Null
            => position[x] # position[y]

(* "Re-grouping a live thread ... must be idempotent": the same selection,  *)
(* grouped again, is accepted and writes what is already there.             *)
RegroupIsNoOp ==
    \A sel \in Selections :
        LET r == ElectedRoot(sel)
            par == GroupedParent(parent, sel, r)
            pos == GroupedPosition(parent, position, sel, r)
        IN  GroupAllowed(parent, sel, r, 0) =>
                /\ GroupAllowed(par, sel, r, 0)
                /\ GroupedParent(par, sel, r) = par
                /\ GroupedPosition(par, pos, sel, r) = pos

(* A surviving row changes its parent only for an admin or its owner, and   *)
(* then only to leave or to go under a row of the same caller; the one      *)
(* exception is a row whose parent has just been deleted.                   *)
MovedByEntitled ==
    [][\A x \in rows \cap rows' :
          parent'[x] # parent[x] /\ (parent[x] \in rows' \cup {Null})
              => OwnsAll(caller', {x} \cup ({parent'[x]} \ {Null}))]_vars

(* The threads as their readers see them: whose sublink a link is, and the  *)
(* stored order of the sublinks of one link.                                *)
StoredBefore ==
    {pair \in rows \X rows :
        /\ parent[pair[1]] = parent[pair[2]] /\ parent[pair[1]] # Null
        /\ SiblingBefore(position, pair[1], pair[2])}

Threads == INSTANCE LinkThreads
    WITH under <- parent, before <- StoredBefore, when <- occurred_at

(* Reindexing, the changed-rows diff and the walks of the parent column     *)
(* implement ordered sublinks: arrivals lead in event order, nobody else's  *)
(* order changes, and only legal forests are written.                       *)
ImplementsThreads == Threads!Spec

(* What _assert_no_cycle says of itself, "a cycle exists exactly when some  *)
(* mover is already ABOVE the target": a new thread is refused for a mover  *)
(* above the elected root only if writing it would close a loop.            *)
CycleRefusalIsExact ==
    \A sel \in Selections :
        LET r == ElectedRoot(sel)
        IN  (sel \ {r}) \cap Ancestors(parent, r) # {}
                => ~Acyclic(GroupedParent(parent, sel, r))
===========================================================================
