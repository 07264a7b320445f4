----------------------- MODULE SocialLinkTreeProofs -----------------------
(* Proofs about SocialLinkTree, for every set of links, users and instants, *)
(* every ownership and every cap.                                           *)
EXTENDS SocialLinkTree, LinkForestProofs, TLAPS

(* The table of links is a finite forest whose rows are positive keys.      *)
LEMMA TableIsForest ==
    ASSUME TypeOK
    PROVE  /\ IsForest(parent) /\ IsFiniteSet(DOMAIN parent)
           /\ rows = DOMAIN parent /\ rows \subseteq Nat \ {Null}
<1>1. rows \subseteq Links /\ parent \in [rows -> rows \cup {Null}]
  BY DEF TypeOK
<1>2. rows = DOMAIN parent
  BY DEF rows
<1>3. IsFiniteSet(rows)
  BY <1>1, LinksAssumption, FS_Subset
<1> QED
  BY <1>1, <1>2, <1>3, LinksAssumption DEF IsForest

(* Moving rows under a target none of them is above leaves an acyclic       *)
(* forest acyclic, whether the target stays or is promoted to a root.       *)
LEMMA GroupingKeepsAcyclic ==
    ASSUME NEW par, NEW sel, NEW t \in DOMAIN par,
           Null \notin DOMAIN par,
           par \in [DOMAIN par -> DOMAIN par \cup {Null}],
           Acyclic(par),
           (sel \ {t}) \cap Ancestors(par, t) = {}
    PROVE  Acyclic(GroupedParent(par, sel, t))
<1> DEFINE new == GroupedParent(par, sel, t)
<1>0. DOMAIN new = DOMAIN par
  BY DEF GroupedParent
<1> SUFFICES ASSUME NEW S \in SUBSET DOMAIN par, S # {},
                    \A x \in S : new[x] \in S
             PROVE  FALSE
  BY <1>0 DEF Acyclic
<1>1. \A x \in S : IF x \in sel THEN x # t /\ t \in S ELSE par[x] \in S
  BY DEF GroupedParent
<1>2. t \in S
  <2>1. CASE S \cap sel = {}
    BY <2>1, <1>1 DEF Acyclic
  <2>2. CASE S \cap sel # {}
    BY <2>2, <1>1
  <2> QED
    BY <2>1, <2>2
<1>3. t \notin sel
  BY <1>1, <1>2
<1> DEFINE A == S \cap Ancestors(par, t)
<1>4. A # {}
  BY <1>2, AncestorsReflexive
<1>5. ASSUME NEW x \in A PROVE par[x] \in A
  <2>1. x \notin sel
    BY <1>3, <1>2
  <2>2. par[x] \in S /\ par[x] # Null
    BY <1>1, <2>1
  <2> QED
    BY <2>2, AncestorsClosed DEF IsClosedUpwards
<1> QED
  BY <1>4, <1>5 DEF Acyclic
---------------------------------------------------------------------------
(* The elected root is a selected link, the earliest of the selection.      *)
LEMMA ElectedRootIsEarliest ==
    ASSUME TypeOK, NEW sel \in Selections
    PROVE  /\ ElectedRoot(sel) \in sel
           /\ \A y \in sel \ {ElectedRoot(sel)} : Earlier(ElectedRoot(sel), y)
<1>1. sel \subseteq rows /\ sel # {} /\ sel \subseteq Nat
  BY LinksAssumption DEF Selections, TypeOK
<1>2. \A x \in sel : occurred_at[x] \in Nat
  BY <1>1, NumbersAssumption DEF TypeOK
<1> DEFINE T == {occurred_at[x] : x \in sel}
<1>3. PICK first \in T : \A n \in T : first <= n
  BY <1>1, <1>2, NatMinimum
<1> DEFINE ties == {x \in sel : occurred_at[x] = first}
<1>4. PICK r \in ties : \A n \in ties : r <= n
  BY <1>1, <1>3, NatMinimum
<1>5. \A y \in sel \ {r} : Earlier(r, y)
  <2> SUFFICES ASSUME NEW y \in sel \ {r} PROVE Earlier(r, y)
    OBVIOUS
  <2>1. first <= occurred_at[y]
    BY <1>3
  <2>2. CASE y \in ties
    BY <1>1, <1>4, <2>2 DEF Earlier
  <2>3. CASE y \notin ties
    BY <1>2, <1>4, <2>1, <2>3 DEF Earlier
  <2> QED
    BY <2>2, <2>3
<1> QED
  BY <1>4, <1>5 DEF ElectedRoot

(* Renumbering a sibling set writes a natural number into every row.        *)
LEMMA ReindexedIsNatural ==
    ASSUME TypeOK, NEW rank, NEW D \in SUBSET rows, rank \in [D -> Nat],
           NEW stayers \in SUBSET rows, NEW x
    PROVE  Reindexed(position, rank, stayers, x) \in Nat
<1>1. IsFiniteSet(rows)
  BY LinksAssumption, FS_Subset DEF TypeOK
<1> DEFINE ahead == {y \in stayers : y = x \/ SiblingBefore(position, y, x)}
<1>2. Cardinality(D) \in Nat /\ Cardinality(ahead) \in Nat
  BY <1>1, FS_Subset, FS_CardinalityType
<1>3. DOMAIN rank = D
  OBVIOUS
<1>4. CASE x \in D
  BY <1>3, <1>4 DEF Reindexed, PositionStep
<1>5. CASE x \notin D
  <2>1. Reindexed(position, rank, stayers, x)
          = 10 * (Cardinality(D) + Cardinality(ahead))
    BY <1>3, <1>5 DEF Reindexed, PositionStep
  <2> HIDE DEF ahead
  <2> QED
    BY <1>2, <2>1
<1> QED
  BY <1>4, <1>5

(* The arrivals are numbered by naturals.                                   *)
LEMMA ArrivalRankIsNatural ==
    ASSUME TypeOK, NEW movers \in SUBSET rows
    PROVE  ArrivalRank(movers) \in [movers -> Nat]
<1>1. IsFiniteSet(rows)
  BY LinksAssumption, FS_Subset DEF TypeOK
<1>2. \A x \in movers :
        Cardinality({y \in movers : y = x \/ Earlier(y, x)}) \in Nat
  <2> SUFFICES ASSUME NEW x \in movers
               PROVE  Cardinality({y \in movers : y = x \/ Earlier(y, x)}) \in Nat
    OBVIOUS
  <2>1. {y \in movers : y = x \/ Earlier(y, x)} \subseteq rows
    OBVIOUS
  <2> QED
    BY <1>1, <2>1, FS_Subset, FS_CardinalityType
<1> QED
  BY <1>2 DEF ArrivalRank

(* A grouping call writes a parent and a number of the right kind.          *)
LEMMA GroupedTyped ==
    ASSUME TypeOK, NEW sel \in SUBSET rows, NEW t \in rows
    PROVE  /\ GroupedParent(parent, sel, t) \in [rows -> rows \cup {Null}]
           /\ GroupedPosition(parent, position, sel, t) \in [rows -> Nat]
<1>1. GroupedParent(parent, sel, t) \in [rows -> rows \cup {Null}]
  BY DEF GroupedParent, TypeOK
<1> DEFINE movers == sel \ {t}
           stayers(p) == Children(parent, p) \ sel
<1>2. \A p : stayers(p) \subseteq rows
  BY DEF Children, rows
<1>3. \A x : Reindexed(position, ArrivalRank(movers), stayers(t), x) \in Nat
  <2>1. movers \in SUBSET rows
    OBVIOUS
  <2>2. ArrivalRank(movers) \in [movers -> Nat]
    BY <2>1, ArrivalRankIsNatural
  <2> HIDE DEF movers, stayers
  <2> QED
    BY <1>2, <2>1, <2>2, ReindexedIsNatural
<1>4. \A x, p : Reindexed(position, <<>>, stayers(p), x) \in Nat
  <2>1. <<>> \in [{} -> Nat]
    OBVIOUS
  <2> HIDE DEF stayers
  <2> QED
    BY <1>2, <2>1, ReindexedIsNatural
<1>5. \A x \in rows : position[x] \in Nat
  BY DEF TypeOK
<1> HIDE DEF movers, stayers
<1>6. GroupedPosition(parent, position, sel, t) =
        [x \in rows |->
            IF x \in movers \/ x \in stayers(t)
            THEN Reindexed(position, ArrivalRank(movers), stayers(t), x)
            ELSE IF x \notin sel /\ parent[x] \in LeftParents(parent, sel, t)
                 THEN Reindexed(position, <<>>, stayers(parent[x]), x)
                 ELSE position[x]]
  BY DEF GroupedPosition, movers, stayers, rows
<1> QED
  BY <1>1, <1>3, <1>4, <1>5, <1>6

---------------------------------------------------------------------------
(* Every call leaves a well-typed table.                                    *)
LEMMA TypeInductive == TypeOK /\ [Next]_vars => TypeOK'
<1> SUFFICES ASSUME TypeOK, [Next]_vars PROVE TypeOK'
  OBVIOUS
<1>1. ASSUME NEW u \in Users, NEW x \in Links, NEW at \in Instants,
             Submit(u, x, at)
      PROVE  TypeOK'
  <2>1. PICK last \in {position[y] : y \in Children(parent, Null)} \cup {0} :
           position' = [y \in rows \cup {x} |->
                          IF y = x THEN last + PositionStep ELSE position[y]]
    BY <1>1 DEF Submit
  <2>2. last + PositionStep \in Nat
    BY DEF TypeOK, Children, rows, PositionStep
  <2>3. rows' = rows \cup {x}
    BY <1>1 DEF Submit, rows
  <2> QED
    BY <1>1, <2>1, <2>2, <2>3 DEF Submit, TypeOK
<1>2. ASSUME NEW u \in Users, NEW x \in rows, NEW at \in Instants,
             EditOccurredAt(u, x, at)
      PROVE  TypeOK'
  BY <1>2 DEF EditOccurredAt, TypeOK, rows
<1>3. ASSUME NEW u \in Users, NEW sel \in Selections, GroupNewThread(u, sel)
      PROVE  TypeOK'
  <2>1. ElectedRoot(sel) \in rows /\ sel \in SUBSET rows
    BY ElectedRootIsEarliest DEF Selections
  <2>2. /\ parent' \in [rows -> rows \cup {Null}]
        /\ position' \in [rows -> Nat]
    BY <1>3, <2>1, GroupedTyped DEF GroupNewThread
  <2>3. rows' = rows
    BY <2>2 DEF rows
  <2> QED
    BY <1>3, <2>2, <2>3 DEF GroupNewThread, TypeOK
<1>4. ASSUME NEW u \in Users, NEW sel \in Selections, NEW t \in rows,
             GroupUnder(u, sel, t)
      PROVE  TypeOK'
  <2>1. /\ parent' \in [rows -> rows \cup {Null}]
        /\ position' \in [rows -> Nat]
    BY <1>4, GroupedTyped DEF GroupUnder, Selections
  <2>2. rows' = rows
    BY <2>1 DEF rows
  <2> QED
    BY <1>4, <2>1, <2>2 DEF GroupUnder, TypeOK
<1>5. ASSUME NEW u \in Users, NEW sel \in Selections, Ungroup(u, sel)
      PROVE  TypeOK'
  <2>1. rows' = rows
    BY <1>5 DEF Ungroup, rows
  <2> QED
    BY <1>5, <2>1 DEF Ungroup, TypeOK
<1>6. ASSUME NEW u \in Users, NEW sel \in Selections, NEW p \in rows \cup {Null},
             NEW named \in Orders(sel), Reorder(u, p, named)
      PROVE  TypeOK'
  <2> DEFINE stayers == Children(parent, p) \ sel
  <2>1. /\ DOMAIN named \subseteq Nat
        /\ {named[i] : i \in DOMAIN named} = sel
    BY DEF Orders
  <2>2. NamedRank(named) \in [sel -> Nat]
    BY <2>1 DEF NamedRank
  <2>3. stayers \in SUBSET rows /\ sel \in SUBSET rows
    BY DEF Children, rows, Selections
  <2>4. position' = [x \in rows |->
                       IF x \in sel \cup stayers
                       THEN Reindexed(position, NamedRank(named), stayers, x)
                       ELSE position[x]]
    BY <1>6, <2>1 DEF Reorder
  <2> HIDE DEF stayers
  <2>5. \A x : Reindexed(position, NamedRank(named), stayers, x) \in Nat
    BY <2>2, <2>3, ReindexedIsNatural
  <2>6. position' \in [rows -> Nat]
    BY <2>4, <2>5 DEF TypeOK
  <2>7. parent' = parent /\ occurred_at' = occurred_at /\ caller' = u
    BY <1>6 DEF Reorder
  <2> QED
    BY <2>6, <2>7 DEF TypeOK, rows
<1>7. ASSUME NEW u \in Users, NEW x \in rows, Delete(u, x)
      PROVE  TypeOK'
  <2>1. rows' = rows \ {x}
    BY <1>7 DEF Delete, rows
  <2> QED
    BY <1>7, <2>1 DEF Delete, TypeOK
<1>8. ASSUME UNCHANGED vars
      PROVE  TypeOK'
  BY <1>8 DEF vars, TypeOK, rows
<1> QED
  BY <1>1, <1>2, <1>3, <1>4, <1>5, <1>6, <1>7, <1>8 DEF Next

(* Every call that changes the parent column leaves it acyclic.             *)
LEMMA AcyclicInductive == TypeOK /\ NoCycles /\ [Next]_vars => NoCycles'
<1> SUFFICES ASSUME TypeOK, NoCycles, [Next]_vars PROVE NoCycles'
  OBVIOUS
<1>0. /\ rows = DOMAIN parent
      /\ Null \notin rows
      /\ parent \in [rows -> rows \cup {Null}]
  BY LinksAssumption DEF rows, TypeOK
<1>1. ASSUME NEW u \in Users, NEW x \in Links, NEW at \in Instants,
             Submit(u, x, at)
      PROVE  NoCycles'
  <2>1. parent' = [y \in rows \cup {x} |-> IF y = x THEN Null ELSE parent[y]]
    BY <1>1 DEF Submit
  <2> SUFFICES ASSUME NEW S \in SUBSET (rows \cup {x}), S # {},
                      \A y \in S : parent'[y] \in S
               PROVE  FALSE
    BY <2>1 DEF NoCycles, Acyclic
  <2>2. x \notin S
    <3>1. Null \notin S
      BY <1>0, LinksAssumption
    <3> QED
      BY <2>1, <3>1
  <2> QED
    BY <1>0, <2>1, <2>2 DEF NoCycles, Acyclic
<1>2. ASSUME NEW u \in Users, NEW sel \in Selections, GroupNewThread(u, sel)
      PROVE  NoCycles'
  <2>1. ElectedRoot(sel) \in rows
    BY ElectedRootIsEarliest DEF Selections
  <2> QED
    BY <1>0, <1>2, <2>1, GroupingKeepsAcyclic
       DEF GroupNewThread, GroupAllowed, NoCycles
<1>3. ASSUME NEW u \in Users, NEW sel \in Selections, NEW t \in rows,
             GroupUnder(u, sel, t)
      PROVE  NoCycles'
  BY <1>0, <1>3, GroupingKeepsAcyclic DEF GroupUnder, GroupAllowed, NoCycles
<1>4. ASSUME NEW u \in Users, NEW sel \in Selections, Ungroup(u, sel)
      PROVE  NoCycles'
  <2> SUFFICES ASSUME NEW S \in SUBSET rows, S # {},
                      \A y \in S : parent'[y] \in S
               PROVE  FALSE
    BY <1>4 DEF Ungroup, NoCycles, Acyclic
  <2> QED
    BY <1>0, <1>4 DEF Ungroup, NoCycles, Acyclic
<1>5. ASSUME NEW u \in Users, NEW x \in rows, Delete(u, x)
      PROVE  NoCycles'
  <2> SUFFICES ASSUME NEW S \in SUBSET (rows \ {x}), S # {},
                      \A y \in S : parent'[y] \in S
               PROVE  FALSE
    BY <1>5 DEF Delete, NoCycles, Acyclic
  <2> QED
    BY <1>0, <1>5 DEF Delete, NoCycles, Acyclic
<1>6. ASSUME UNCHANGED parent
      PROVE  NoCycles'
  BY <1>6 DEF NoCycles
<1> QED
  BY <1>1, <1>2, <1>3, <1>4, <1>5, <1>6
     DEF Next, EditOccurredAt, Reorder, vars

(* The table is well typed after any sequence of calls.                     *)
THEOREM TypeCorrect == Spec => []TypeOK
<1>1. Init => TypeOK
  BY DEF Init, TypeOK, rows
<1> QED
  BY <1>1, TypeInductive, PTL DEF Spec

(* No sequence of thread calls, by any users on any table, makes a link its *)
(* own descendant.                                                          *)
THEOREM TreeStaysAcyclic == Spec => []NoCycles
<1>1. Init => NoCycles
  BY DEF Init, NoCycles, Acyclic
<1> QED
  BY <1>1, AcyclicInductive, TypeCorrect, PTL DEF Spec

(* Only an admin or the owner moves a surviving row, and only under a row   *)
(* of the same caller.                                                      *)
THEOREM OnlyEntitledMove == Spec => MovedByEntitled
<1> DEFINE Entitled ==
      \A x \in rows \cap rows' :
          parent'[x] # parent[x] /\ (parent[x] \in rows' \cup {Null})
              => OwnsAll(caller', {x} \cup ({parent'[x]} \ {Null}))
<1>1. TypeOK /\ [Next]_vars => [Entitled]_vars
  <2> SUFFICES ASSUME TypeOK, Next,
                      NEW x \in rows \cap rows', parent'[x] # parent[x],
                      parent[x] \in rows' \cup {Null}
               PROVE  OwnsAll(caller', {x} \cup ({parent'[x]} \ {Null}))
    BY DEF Entitled
  <2>1. ASSUME NEW u \in Users, NEW y \in Links, NEW at \in Instants,
               Submit(u, y, at)
        PROVE  FALSE
    BY <2>1 DEF Submit, rows
  <2>2. ASSUME NEW u \in Users, NEW sel \in Selections, GroupNewThread(u, sel)
        PROVE  OwnsAll(caller', {x} \cup ({parent'[x]} \ {Null}))
    <3>1. ElectedRoot(sel) \in sel
      BY ElectedRootIsEarliest
    <3>2. x \in sel /\ parent'[x] \in {Null, ElectedRoot(sel)}
      BY <2>2 DEF GroupNewThread, GroupedParent, rows
    <3> QED
      BY <2>2, <3>1, <3>2 DEF GroupNewThread, OwnsAll
  <2>3. ASSUME NEW u \in Users, NEW sel \in Selections, NEW t \in rows,
               GroupUnder(u, sel, t)
        PROVE  OwnsAll(caller', {x} \cup ({parent'[x]} \ {Null}))
    <3>1. x \in sel /\ parent'[x] \in {Null, t}
      BY <2>3 DEF GroupUnder, GroupedParent, rows
    <3> QED
      BY <2>3, <3>1 DEF GroupUnder, OwnsAll
  <2>4. ASSUME NEW u \in Users, NEW sel \in Selections, Ungroup(u, sel)
        PROVE  OwnsAll(caller', {x} \cup ({parent'[x]} \ {Null}))
    <3>1. x \in sel /\ parent'[x] = Null
      BY <2>4 DEF Ungroup
    <3> QED
      BY <2>4, <3>1 DEF Ungroup, OwnsAll
  <2>5. ASSUME NEW u \in Users, NEW y \in rows, Delete(u, y)
        PROVE  FALSE
    <3>1. rows' = rows \ {y} /\ parent[x] = y
      BY <2>5 DEF Delete, rows
    <3>2. y # Null
      BY LinksAssumption DEF TypeOK
    <3> QED
      BY <3>1, <3>2
  <2> QED
    BY <2>1, <2>2, <2>3, <2>4, <2>5 DEF Next, EditOccurredAt, Reorder
<1> QED
  BY <1>1, TypeCorrect, PTL DEF Spec, MovedByEntitled

---------------------------------------------------------------------------
(* Nothing ends below the cap.                                              *)

(* What an accepted grouping call writes is a forest within the cap: the    *)
(* rows that hang below a mover end where _assert_depth measured them, the  *)
(* others are no deeper than they were.                                     *)
LEMMA GroupingKeepsDepth ==
    ASSUME TypeOK, NoCycles, DepthWithinCap, NEW sel \in SUBSET rows, NEW t \in rows,
           GroupAllowed(parent, sel, t, IF t \in sel THEN 0 ELSE Depth(parent, t))
    PROVE  LET new == GroupedParent(parent, sel, t) IN
           /\ IsForest(new) /\ Acyclic(new) /\ DOMAIN new = rows
           /\ \A x \in rows : Depth(new, x) <= MAX_THREAD_DEPTH
<1> DEFINE new == GroupedParent(parent, sel, t)
           movers == sel \ {t}
           base == IF t \in sel THEN 0 ELSE Depth(parent, t)
<1>1. /\ IsForest(parent) /\ Acyclic(parent) /\ rows = DOMAIN parent
      /\ IsFiniteSet(DOMAIN parent) /\ Null \notin rows
  BY TableIsForest DEF NoCycles
<1>2. /\ IsForest(new) /\ DOMAIN new = rows
      /\ \A x \in rows : new[x] = IF x \in movers THEN t
                                  ELSE IF x = t THEN new[t] ELSE parent[x]
      /\ new[t] = IF t \in sel THEN Null ELSE parent[t]
  BY <1>1 DEF GroupedParent, IsForest
<1>3. movers \cap Ancestors(parent, t) = {}
  BY DEF GroupAllowed
<1>4. Acyclic(new)
  <2>1. parent \in [DOMAIN parent -> DOMAIN parent \cup {Null}]
    BY <1>1 DEF TypeOK
  <2> QED
    BY <1>1, <1>3, <2>1, GroupingKeepsAcyclic
<1>5. Depth(new, t) = base /\ base \in Nat
  <2>1. CASE t \in sel
    BY <1>2, <2>1, RootDepth
  <2>2. CASE t \notin sel
    <3>1. \A x \in Ancestors(parent, t) : new[x] = parent[x]
      BY <1>1, <1>2, <1>3, <2>2, AncestorsAreRows
    <3>2. Ancestors(new, t) = Ancestors(parent, t)
      <4> HIDE DEF new
      <4> QED
        BY <1>1, <1>2, <3>1, AncestorsAgree, AncestorsAreRows
    <3> QED
      BY <1>1, <2>2, <3>2, DepthIsNatural DEF Depth
  <2> QED
    BY <2>1, <2>2
<1>6. ASSUME NEW d \in rows
      PROVE  Depth(new, d) <= MAX_THREAD_DEPTH
  <2>1. Depth(new, d) \in Nat /\ Depth(parent, d) \in Nat /\ Depth(parent, d) <= MAX_THREAD_DEPTH
    BY <1>1, <1>2, DepthIsNatural DEF DepthWithinCap
  <2>2. CASE movers \cap Ancestors(parent, d) = {}
    <3>1. \A x \in Ancestors(parent, d) : new[x] \in {parent[x], Null}
      BY <1>1, <1>2, <2>2, AncestorsAreRows
    <3>2. Ancestors(new, d) \subseteq Ancestors(parent, d)
      <4> HIDE DEF new
      <4> QED
        BY <1>1, <1>2, <3>1, AncestorsShrink
    <3>3. Depth(new, d) <= Depth(parent, d)
      BY <1>1, <1>2, <3>2, DepthMonotone
    <3> QED
      BY <2>1, <3>3, NumbersAssumption
  <2>3. CASE movers \cap Ancestors(parent, d) # {}
    <3>1. PICK m \in movers \cap Ancestors(parent, d) : TRUE
      BY <2>3
    <3>2. Depth(new, d) <= Depth(new, t) + 1 + Depth(parent, d) - Depth(parent, m)
      <4> HIDE DEF new, movers
      <4> QED
        BY <1>1, <1>2, <3>1, MovedDepth
    <3>3. base + 1 + Depth(parent, d) - Depth(parent, m) <= MAX_THREAD_DEPTH
      <4>1. d \in Subtree(parent, m)
        BY <1>1, <3>1 DEF Subtree
      <4> QED
        BY <3>1, <4>1 DEF GroupAllowed, DepthAllows
    <3>4. Depth(parent, m) \in Nat
      BY <1>1, <3>1, DepthIsNatural
    <3> HIDE DEF new, base
    <3> QED
      BY <1>5, <2>1, <3>2, <3>3, <3>4, NumbersAssumption
  <2> QED
    BY <2>2, <2>3
<1> QED
  BY <1>2, <1>4, <1>6

(* Every call that changes the parent column keeps the cap.                 *)
LEMMA DepthInductive ==
    TypeOK /\ NoCycles /\ DepthWithinCap /\ [Next]_vars => DepthWithinCap'
<1> SUFFICES ASSUME TypeOK, NoCycles, DepthWithinCap, [Next]_vars
             PROVE  DepthWithinCap'
  OBVIOUS
<1>0. /\ IsForest(parent) /\ Acyclic(parent) /\ rows = DOMAIN parent
      /\ IsFiniteSet(DOMAIN parent) /\ Null \notin rows
  BY TableIsForest DEF NoCycles
<1>1. TypeOK'
  BY TypeInductive
<1>2. IsForest(parent') /\ rows' = DOMAIN parent' /\ IsFiniteSet(DOMAIN parent')
  <2>1. TypeOK' => (/\ IsForest(parent) /\ IsFiniteSet(DOMAIN parent) /\ rows = DOMAIN parent)'
    BY TableIsForest, PTL
  <2> QED
    BY <1>1, <2>1
<1>3. ASSUME NEW u \in Users, NEW x \in Links, NEW at \in Instants,
             Submit(u, x, at)
      PROVE  DepthWithinCap'
  <2>1. /\ rows' = rows \cup {x} /\ parent'[x] = Null /\ x \notin rows
        /\ \A y \in rows : parent'[y] = parent[y]
    BY <1>3 DEF Submit, rows
  <2>2. Depth(parent', x) <= MAX_THREAD_DEPTH
    <3>1. x \in DOMAIN parent' /\ parent'[x] = Null
      BY <1>2, <2>1
    <3>2. Depth(parent', x) = 0
      BY <1>2, <3>1, RootDepth
    <3> QED
      BY <3>2, NumbersAssumption
  <2>3. ASSUME NEW y \in rows PROVE Depth(parent', y) = Depth(parent, y)
    <3>1. /\ y \in DOMAIN parent /\ Ancestors(parent, y) \subseteq DOMAIN parent'
          /\ \A z \in Ancestors(parent, y) : parent'[z] = parent[z]
      BY <1>0, <1>2, <2>1, AncestorsAreRows
    <3>2. Ancestors(parent', y) = Ancestors(parent, y)
      BY <1>0, <1>2, <3>1, AncestorsAgree
    <3> QED
      BY <3>2 DEF Depth
  <2> QED
    BY <2>1, <2>2, <2>3 DEF DepthWithinCap
<1>4. ASSUME NEW u \in Users, NEW sel \in Selections, GroupNewThread(u, sel)
      PROVE  DepthWithinCap'
  <2>1. ElectedRoot(sel) \in sel /\ sel \in SUBSET rows
    BY ElectedRootIsEarliest DEF Selections
  <2> QED
    BY <1>2, <1>4, <2>1, GroupingKeepsDepth DEF GroupNewThread, DepthWithinCap
<1>5. ASSUME NEW u \in Users, NEW sel \in Selections, NEW t \in rows,
             GroupUnder(u, sel, t)
      PROVE  DepthWithinCap'
  <2>1. t \notin sel /\ sel \in SUBSET rows
    BY <1>5 DEF GroupUnder, Selections
  <2> QED
    BY <1>2, <1>5, <2>1, GroupingKeepsDepth DEF GroupUnder, DepthWithinCap
<1>6. ASSUME rows' \subseteq rows, \A y \in rows' : parent'[y] \in {parent[y], Null}
      PROVE  DepthWithinCap'
  <2> SUFFICES ASSUME NEW y \in rows'
               PROVE  Depth(parent', y) <= MAX_THREAD_DEPTH
    BY DEF DepthWithinCap
  <2>1. Ancestors(parent', y) \subseteq Ancestors(parent, y)
    BY <1>0, <1>2, <1>6, AncestorsShrink
  <2>2. Depth(parent', y) <= Depth(parent, y)
    BY <1>0, <1>2, <1>6, <2>1, DepthMonotone
  <2>3. Depth(parent', y) \in Nat /\ Depth(parent, y) \in Nat /\ Depth(parent, y) <= MAX_THREAD_DEPTH
    BY <1>0, <1>2, <1>6, DepthIsNatural DEF DepthWithinCap
  <2> QED
    BY <2>2, <2>3, NumbersAssumption
<1>7. ASSUME NEW u \in Users, NEW sel \in Selections, Ungroup(u, sel)
      PROVE  DepthWithinCap'
  BY <1>6, <1>7 DEF Ungroup, rows
<1>8. ASSUME NEW u \in Users, NEW x \in rows, Delete(u, x)
      PROVE  DepthWithinCap'
  BY <1>6, <1>8 DEF Delete, rows
<1>9. ASSUME UNCHANGED parent
      PROVE  DepthWithinCap'
  BY <1>9 DEF DepthWithinCap, rows
<1> QED
  BY <1>3, <1>4, <1>5, <1>7, <1>8, <1>9
     DEF Next, EditOccurredAt, Reorder, vars

(* Whatever subtrees the movers carry and however deep the target is, no    *)
(* sequence of calls leaves a link below MAX_THREAD_DEPTH.                  *)
THEOREM TreeStaysShallow == Spec => []DepthWithinCap
<1>1. Init => DepthWithinCap
  BY DEF Init, DepthWithinCap, rows
<1> QED
  BY <1>1, DepthInductive, TypeCorrect, TreeStaysAcyclic, PTL DEF Spec

---------------------------------------------------------------------------
(* The stored order of siblings.                                            *)

(* How many rows of S come before x in the stored order, with x itself.     *)
Upto(pos, S, x) == {y \in S : y = x \/ SiblingBefore(pos, y, x)}
Place(pos, S, x) == Cardinality(Upto(pos, S, x))

(* A row that precedes another has a smaller place.                         *)
LEMMA PlacesKeepOrder ==
    ASSUME NEW S, IsFiniteSet(S), S \subseteq Nat, NEW pos, \A z \in S : pos[z] \in Nat,
           NEW x \in S, NEW y \in S
    PROVE  /\ Place(pos, S, x) \in Nat /\ Place(pos, S, x) > 0
           /\ SiblingBefore(pos, y, x) => Place(pos, S, y) < Place(pos, S, x)
           /\ x # y => SiblingBefore(pos, x, y) \/ SiblingBefore(pos, y, x)
           /\ ~ (SiblingBefore(pos, x, y) /\ SiblingBefore(pos, y, x))
<1>1. /\ x # y => SiblingBefore(pos, x, y) \/ SiblingBefore(pos, y, x)
      /\ ~ (SiblingBefore(pos, x, y) /\ SiblingBefore(pos, y, x))
  <2>1. x \in Nat /\ y \in Nat /\ pos[x] \in Nat /\ pos[y] \in Nat
    OBVIOUS
  <2> QED
    BY <2>1 DEF SiblingBefore
<1>2. ASSUME NEW z \in S
      PROVE  /\ IsFiniteSet(Upto(pos, S, z)) /\ Place(pos, S, z) \in Nat
             /\ Place(pos, S, z) # 0
  <2>1. Upto(pos, S, z) \in SUBSET S /\ z \in Upto(pos, S, z)
    BY DEF Upto
  <2>2. IsFiniteSet(Upto(pos, S, z))
    BY <2>1, FS_Subset
  <2> QED
    BY <2>1, <2>2, FS_CardinalityType, FS_EmptySet DEF Place
<1>3. ASSUME SiblingBefore(pos, y, x)
      PROVE  Place(pos, S, y) < Place(pos, S, x)
  <2>1. Upto(pos, S, y) \in SUBSET Upto(pos, S, x)
    <3> SUFFICES ASSUME NEW z \in S, z = y \/ SiblingBefore(pos, z, y)
                 PROVE  SiblingBefore(pos, z, x)
      BY DEF Upto
    <3>1. /\ x \in Nat /\ y \in Nat /\ z \in Nat
          /\ pos[x] \in Nat /\ pos[y] \in Nat /\ pos[z] \in Nat
      OBVIOUS
    <3> QED
      BY <1>3, <3>1 DEF SiblingBefore
  <2>2. x \in Upto(pos, S, x) /\ x \notin Upto(pos, S, y)
    <3>1. x # y /\ ~ SiblingBefore(pos, x, y)
      <4>1. x \in Nat /\ y \in Nat /\ pos[x] \in Nat /\ pos[y] \in Nat
        OBVIOUS
      <4> QED
        BY <1>3, <4>1 DEF SiblingBefore
    <3> QED
      BY <3>1 DEF Upto
  <2>3. /\ Place(pos, S, y) <= Place(pos, S, x)
        /\ Place(pos, S, y) # Place(pos, S, x)
    BY <1>2, <2>1, <2>2, FS_Subset DEF Place
  <2> QED
    BY <1>2, <2>3
<1> QED
  BY <1>1, <1>2, <1>3

(* What reindexing writes: the ranked rows get their rank, the others their *)
(* place after all of them.                                                 *)
LEMMA ReindexedValue ==
    ASSUME NEW pos, NEW D, NEW rank, DOMAIN rank = D, NEW S, NEW x
    PROVE  /\ x \in D => Reindexed(pos, rank, S, x) = 10 * rank[x]
           /\ x \notin D => Reindexed(pos, rank, S, x)
                                = 10 * (Cardinality(D) + Place(pos, S, x))
<1>1. CASE x \in D
  BY <1>1 DEF Reindexed, PositionStep
<1>2. CASE x \notin D
  BY <1>2 DEF Reindexed, PositionStep, Place, Upto
<1> QED
  BY <1>1, <1>2

(* A reindexed sibling set has no ties, whatever was stored before.         *)
LEMMA ReindexedNeverTies ==
    ASSUME NEW D, IsFiniteSet(D), NEW S, IsFiniteSet(S), S \subseteq Nat,
           D \cap S = {},
           NEW rank \in [D -> 1 .. Cardinality(D)],
           \A v, w \in D : v # w => rank[v] # rank[w],
           NEW pos, \A z \in S : pos[z] \in Nat,
           NEW x \in D \cup S, NEW y \in D \cup S, x # y
    PROVE  Reindexed(pos, rank, S, x) # Reindexed(pos, rank, S, y)
<1>1. Cardinality(D) \in Nat
  BY FS_CardinalityType
<1>2. \A z \in D : rank[z] \in 1 .. Cardinality(D) /\ Reindexed(pos, rank, S, z) = 10 * rank[z]
  BY ReindexedValue
<1>3. \A z \in S : /\ Place(pos, S, z) \in Nat /\ Place(pos, S, z) > 0
                    /\ Reindexed(pos, rank, S, z) = 10 * (Cardinality(D) + Place(pos, S, z))
  <2> SUFFICES ASSUME NEW z \in S
               PROVE  /\ Place(pos, S, z) \in Nat /\ Place(pos, S, z) > 0
                      /\ Reindexed(pos, rank, S, z) = 10 * (Cardinality(D) + Place(pos, S, z))
    OBVIOUS
  <2>1. Place(pos, S, z) \in Nat /\ Place(pos, S, z) > 0
    BY PlacesKeepOrder
  <2>2. z \notin D /\ DOMAIN rank = D
    OBVIOUS
  <2> QED
    BY <2>1, <2>2, ReindexedValue
<1>4. CASE x \in D /\ y \in D
  <2>1. rank[x] # rank[y]
    BY <1>4
  <2> QED
    BY <1>1, <1>2, <1>4, <2>1
<1>5. CASE x \in S /\ y \in S
  <2>1. Place(pos, S, x) < Place(pos, S, y) \/ Place(pos, S, y) < Place(pos, S, x)
    BY <1>5, PlacesKeepOrder
  <2> QED
    BY <1>1, <1>3, <1>5, <2>1
<1>6. ASSUME NEW v \in D, NEW w \in S
      PROVE  Reindexed(pos, rank, S, v) # Reindexed(pos, rank, S, w)
  BY <1>1, <1>2, <1>3
<1> QED
  BY <1>4, <1>5, <1>6

(* The same when nobody arrives and the ranks only close up.                *)
LEMMA ClosedRanksNeverTie ==
    ASSUME NEW S, IsFiniteSet(S), S \subseteq Nat, NEW pos, \A z \in S : pos[z] \in Nat,
           NEW x \in S, NEW y \in S, x # y
    PROVE  Reindexed(pos, <<>>, S, x) # Reindexed(pos, <<>>, S, y)
<1>1. IsFiniteSet({}) /\ Cardinality({}) = 0
  BY FS_EmptySet
<1>2. DOMAIN <<>> = {}
  OBVIOUS
<1>3. /\ Reindexed(pos, <<>>, S, x) = 10 * (0 + Place(pos, S, x))
      /\ Reindexed(pos, <<>>, S, y) = 10 * (0 + Place(pos, S, y))
  BY <1>1, <1>2, ReindexedValue
<1>4. /\ Place(pos, S, x) \in Nat /\ Place(pos, S, y) \in Nat
      /\ Place(pos, S, x) < Place(pos, S, y) \/ Place(pos, S, y) < Place(pos, S, x)
  BY PlacesKeepOrder
<1> QED
  BY <1>3, <1>4

(* The rows that arrive are ranked 1, 2, 3, ... without ties.               *)
LEMMA ArrivalsNeverTie ==
    ASSUME TypeOK, NEW movers \in SUBSET rows
    PROVE  /\ IsFiniteSet(movers)
           /\ ArrivalRank(movers) \in [movers -> 1 .. Cardinality(movers)]
           /\ \A x, y \in movers :
                 x # y => ArrivalRank(movers)[x] # ArrivalRank(movers)[y]
<1>1. IsFiniteSet(movers) /\ movers \subseteq Nat /\ \A x \in movers : occurred_at[x] \in Nat
  BY TableIsForest, FS_Subset, NumbersAssumption DEF TypeOK
<1> DEFINE upto(x) == {y \in movers : y = x \/ Earlier(y, x)}
<1>2. ASSUME NEW x \in movers
      PROVE  /\ IsFiniteSet(upto(x)) /\ Cardinality(upto(x)) \in 1 .. Cardinality(movers)
             /\ ArrivalRank(movers)[x] = Cardinality(upto(x))
  <2>1. upto(x) \in SUBSET movers /\ x \in upto(x)
    OBVIOUS
  <2>2. ArrivalRank(movers)[x] = Cardinality(upto(x))
    BY DEF ArrivalRank
  <2> HIDE DEF upto
  <2>3. IsFiniteSet(upto(x)) /\ Cardinality(upto(x)) <= Cardinality(movers)
    BY <1>1, <2>1, FS_Subset
  <2>4. /\ Cardinality(upto(x)) \in Nat /\ Cardinality(upto(x)) # 0
        /\ Cardinality(movers) \in Nat
    BY <1>1, <2>1, <2>3, FS_CardinalityType, FS_EmptySet
  <2> QED
    BY <2>2, <2>3, <2>4
<1>3. ASSUME NEW x \in movers, NEW y \in movers, x # y
      PROVE  upto(x) # upto(y)
  <2>1. x \in Nat /\ y \in Nat /\ occurred_at[x] \in Nat /\ occurred_at[y] \in Nat
    BY <1>1
  <2>2. ~ (Earlier(x, y) /\ Earlier(y, x))
    BY <2>1 DEF Earlier
  <2> QED
    BY <1>3, <2>2
<1>4. ASSUME NEW x \in movers, NEW y \in movers
      PROVE  upto(x) \subseteq upto(y) \/ upto(y) \subseteq upto(x)
  <2>1. ASSUME NEW v \in movers, NEW w \in movers, Earlier(v, w)
        PROVE  upto(v) \subseteq upto(w)
    <3> SUFFICES ASSUME NEW z \in movers, z = v \/ Earlier(z, v)
                 PROVE  Earlier(z, w)
      OBVIOUS
    <3>1. /\ z \in Nat /\ v \in Nat /\ w \in Nat
          /\ occurred_at[z] \in Nat /\ occurred_at[v] \in Nat /\ occurred_at[w] \in Nat
      BY <1>1
    <3> QED
      BY <2>1, <3>1 DEF Earlier
  <2>2. x = y \/ Earlier(x, y) \/ Earlier(y, x)
    <3>1. x \in Nat /\ y \in Nat /\ occurred_at[x] \in Nat /\ occurred_at[y] \in Nat
      BY <1>1
    <3> QED
      BY <3>1 DEF Earlier
  <2> HIDE DEF upto
  <2> QED
    BY <2>1, <2>2
<1> HIDE DEF upto
<1>5. ASSUME NEW x \in movers, NEW y \in movers, x # y
      PROVE  Cardinality(upto(x)) # Cardinality(upto(y))
  <2>1. CASE upto(x) \subseteq upto(y)
    BY <1>2, <1>3, <1>5, <2>1, FS_Subset
  <2>2. CASE upto(y) \subseteq upto(x)
    BY <1>2, <1>3, <1>5, <2>2, FS_Subset
  <2> QED
    BY <1>4, <2>1, <2>2
<1>6. ArrivalRank(movers) \in [movers -> 1 .. Cardinality(movers)]
  <2>1. ArrivalRank(movers) = [x \in movers |-> ArrivalRank(movers)[x]]
    BY DEF ArrivalRank
  <2> QED
    BY <1>2, <2>1
<1> QED
  BY <1>1, <1>2, <1>5, <1>6

(* So are the rows that a reorder names.                                    *)
LEMMA NamedNeverTie ==
    ASSUME NEW sel, IsFiniteSet(sel), NEW named \in Orders(sel)
    PROVE  /\ NamedRank(named) \in [sel -> 1 .. Cardinality(sel)]
           /\ \A x, y \in sel : x # y => NamedRank(named)[x] # NamedRank(named)[y]
<1>1. /\ DOMAIN named = 1 .. Cardinality(sel)
      /\ {named[i] : i \in DOMAIN named} = sel
  BY DEF Orders
<1>2. DOMAIN NamedRank(named) = sel /\ NamedRank(named) = [x \in sel |-> NamedRank(named)[x]]
  BY <1>1 DEF NamedRank
<1>3. \A x \in sel : /\ NamedRank(named)[x] \in DOMAIN named
                      /\ named[NamedRank(named)[x]] = x
  BY <1>1 DEF NamedRank
<1> QED
  BY <1>1, <1>2, <1>3

---------------------------------------------------------------------------
(* Sublinks never tie.                                                      *)

(* The children of p that a call on sel leaves where they are.              *)
Stayers(p, sel) == Children(parent, p) \ sel

(* The sublinks that stay are finitely many rows with natural positions.    *)
LEMMA StayersAreRows ==
    ASSUME TypeOK, NEW p, NEW sel
    PROVE  /\ Stayers(p, sel) \subseteq rows /\ Stayers(p, sel) \subseteq Nat
           /\ IsFiniteSet(Stayers(p, sel))
           /\ \A z \in Stayers(p, sel) : position[z] \in Nat
<1>1. Stayers(p, sel) \in SUBSET rows
  BY DEF Stayers, Children, rows
<1> QED
  BY <1>1, TableIsForest, FS_Subset DEF TypeOK

(* What a grouping call writes for a row, by the place it ends at.          *)
Lands(x, new, pos, sel, t) ==
    /\ x \in sel \ {t} => new[x] = t
    /\ x \in sel \cap {t} => new[x] = Null
    /\ x \in sel \cap {t} => pos[x] = position[x]
    /\ x \notin sel => new[x] = parent[x]
    /\ x \notin sel => x \in Stayers(parent[x], sel)
    /\ x \in sel \ {t} \/ x \in Stayers(t, sel) =>
          pos[x] = Reindexed(position, ArrivalRank(sel \ {t}), Stayers(t, sel), x)
    /\ x \notin sel /\ parent[x] # t =>
          pos[x] = IF parent[x] \in LeftParents(parent, sel, t)
                   THEN Reindexed(position, <<>>, Stayers(parent[x], sel), x)
                   ELSE position[x]

(* Where a grouping puts a row: among the arrivals, among the stayers of    *)
(* the target, in the closed ranks of a parent left behind, or where it     *)
(* was.                                                                     *)
LEMMA GroupedPlaces ==
    ASSUME TypeOK, NEW sel \in SUBSET rows, NEW t \in rows, NEW x \in rows,
           NEW new, new = GroupedParent(parent, sel, t),
           NEW pos, pos = GroupedPosition(parent, position, sel, t)
    PROVE  Lands(x, new, pos, sel, t)
<1> DEFINE left == LeftParents(parent, sel, t)
           arrived(y) == Reindexed(position, ArrivalRank(sel \ {t}), Stayers(t, sel), y)
           closed(y) == Reindexed(position, <<>>, Stayers(parent[y], sel), y)
<1>1. rows = DOMAIN parent
  BY DEF rows
<1>2. new = [y \in rows |-> IF y \in sel THEN (IF y = t THEN Null ELSE t) ELSE parent[y]]
  BY <1>1 DEF GroupedParent
<1>3. pos = [y \in rows |-> IF y \in sel \ {t} \/ y \in Stayers(t, sel) THEN arrived(y)
                           ELSE IF y \notin sel /\ parent[y] \in left THEN closed(y)
                           ELSE position[y]]
  BY <1>1 DEF GroupedPosition, Stayers
<1>4. \A p : x \in Stayers(p, sel) <=> x \notin sel /\ parent[x] = p
  BY <1>1 DEF Children, Stayers
<1> HIDE DEF arrived, closed, left
<1>5. /\ DOMAIN new = rows /\ DOMAIN pos = rows
      /\ new[x] = IF x \in sel THEN (IF x = t THEN Null ELSE t) ELSE parent[x]
      /\ pos[x] = IF x \in sel \ {t} \/ x \in Stayers(t, sel) THEN arrived(x)
                  ELSE IF x \notin sel /\ parent[x] \in left THEN closed(x)
                  ELSE position[x]
  BY <1>2, <1>3
<1> QED
  BY <1>4, <1>5 DEF Lands, arrived, closed, left

(* A grouping gives no two sublinks of a link one position.                 *)
LEMMA GroupingNeverTies ==
    ASSUME TypeOK, SublinksNeverTie, NEW sel \in SUBSET rows, NEW t \in rows,
           parent' = GroupedParent(parent, sel, t),
           position' = GroupedPosition(parent, position, sel, t)
    PROVE  SublinksNeverTie'
<1> DEFINE movers == sel \ {t}
<1>1. rows' = rows
  BY DEF GroupedParent, rows
<1> SUFFICES ASSUME NEW x \in rows, NEW y \in rows, x # y,
                    parent'[x] = parent'[y], parent'[x] # Null
             PROVE  position'[x] # position'[y]
  BY <1>1 DEF SublinksNeverTie
<1>2. ASSUME NEW z \in rows, parent'[z] # Null
      PROVE  /\ parent'[z] = t => /\ z \in movers \cup Stayers(t, sel)
                                 /\ position'[z] = Reindexed(position, ArrivalRank(movers),
                                                             Stayers(t, sel), z)
             /\ parent'[z] # t =>
                  /\ z \in Stayers(parent[z], sel) /\ parent'[z] = parent[z]
                  /\ position'[z] = IF parent[z] \in LeftParents(parent, sel, t)
                                    THEN Reindexed(position, <<>>, Stayers(parent[z], sel), z)
                                    ELSE position[z]
  <2>1. Lands(z, parent', position', sel, t)
    BY GroupedPlaces
  <2> QED
    BY <1>2, <2>1 DEF Lands
<1>3. CASE parent'[x] = t
  <2>1. /\ x \in movers \cup Stayers(t, sel) /\ y \in movers \cup Stayers(t, sel)
        /\ position'[x] = Reindexed(position, ArrivalRank(movers), Stayers(t, sel), x)
        /\ position'[y] = Reindexed(position, ArrivalRank(movers), Stayers(t, sel), y)
    BY <1>2, <1>3
  <2>2. movers \cap Stayers(t, sel) = {} /\ movers \in SUBSET rows
    BY DEF Stayers
  <2> HIDE DEF movers
  <2>3. /\ IsFiniteSet(movers)
        /\ ArrivalRank(movers) \in [movers -> 1 .. Cardinality(movers)]
        /\ \A v, w \in movers : v # w => ArrivalRank(movers)[v] # ArrivalRank(movers)[w]
    BY <2>2, ArrivalsNeverTie
  <2>4. /\ Stayers(t, sel) \subseteq Nat /\ IsFiniteSet(Stayers(t, sel))
        /\ \A z \in Stayers(t, sel) : position[z] \in Nat
    BY StayersAreRows
  <2> QED
    BY <2>1, <2>2, <2>3, <2>4, ReindexedNeverTies
<1>4. CASE parent'[x] # t
  <2>1. /\ parent[x] = parent'[x] /\ parent[y] = parent[x]
        /\ x \in Stayers(parent[x], sel) /\ y \in Stayers(parent[x], sel)
    BY <1>2, <1>4
  <2>2. CASE parent[x] \in LeftParents(parent, sel, t)
    <3>1. /\ position'[x] = Reindexed(position, <<>>, Stayers(parent[x], sel), x)
          /\ position'[y] = Reindexed(position, <<>>, Stayers(parent[x], sel), y)
      BY <1>2, <1>4, <2>1, <2>2
    <3> QED
      BY <2>1, <3>1, StayersAreRows, ClosedRanksNeverTie
  <2>3. CASE parent[x] \notin LeftParents(parent, sel, t)
    <3>1. position'[x] = position[x] /\ position'[y] = position[y]
      BY <1>2, <1>4, <2>1, <2>3
    <3> QED
      BY <1>4, <2>1, <3>1 DEF SublinksNeverTie
  <2> QED
    BY <2>2, <2>3
<1> QED
  BY <1>3, <1>4

(* Every call leaves the sublinks of every row in an order without ties.    *)
LEMMA NeverTieInductive == TypeOK /\ SublinksNeverTie /\ [Next]_vars => SublinksNeverTie'
<1> SUFFICES ASSUME TypeOK, SublinksNeverTie, [Next]_vars
             PROVE  SublinksNeverTie'
  OBVIOUS
<1>1. ASSUME NEW u \in Users, NEW x \in Links, NEW at \in Instants,
             Submit(u, x, at)
      PROVE  SublinksNeverTie'
  <2>1. /\ rows' = rows \cup {x} /\ parent'[x] = Null
        /\ \A y \in rows : parent'[y] = parent[y] \/ y = x
    BY <1>1 DEF Submit, rows
  <2>2. \A y \in rows : position'[y] = position[y]
    BY <1>1 DEF Submit
  <2> QED
    BY <1>1, <2>1, <2>2 DEF Submit, SublinksNeverTie
<1>2. ASSUME NEW u \in Users, NEW sel \in Selections, GroupNewThread(u, sel)
      PROVE  SublinksNeverTie'
  <2>1. ElectedRoot(sel) \in rows /\ sel \in SUBSET rows
    BY ElectedRootIsEarliest DEF Selections
  <2> QED
    BY <1>2, <2>1, GroupingNeverTies DEF GroupNewThread
<1>3. ASSUME NEW u \in Users, NEW sel \in Selections, NEW t \in rows,
             GroupUnder(u, sel, t)
      PROVE  SublinksNeverTie'
  BY <1>3, GroupingNeverTies DEF GroupUnder, Selections
<1>4. ASSUME NEW u \in Users, NEW sel \in Selections, Ungroup(u, sel)
      PROVE  SublinksNeverTie'
  BY <1>4 DEF Ungroup, rows, SublinksNeverTie
<1>5. ASSUME NEW u \in Users, NEW x \in rows, Delete(u, x)
      PROVE  SublinksNeverTie'
  <2>1. rows' = rows \ {x} /\ \A y \in rows' : position'[y] = position[y]
                                             /\ parent'[y] \in {parent[y], Null}
    BY <1>5 DEF Delete, rows
  <2> QED
    BY <2>1 DEF SublinksNeverTie
<1>6. ASSUME NEW u \in Users, NEW sel \in Selections, NEW p \in rows \cup {Null},
             NEW named \in Orders(sel), Reorder(u, p, named)
      PROVE  SublinksNeverTie'
  <2> DEFINE stayers == Children(parent, p) \ sel
  <2>1. /\ parent' = parent /\ rows' = rows /\ sel \subseteq Children(parent, p)
        /\ position' = [x \in rows |->
                          IF x \in sel \cup stayers
                          THEN Reindexed(position, NamedRank(named), stayers, x)
                          ELSE position[x]]
    <3>1. {named[i] : i \in DOMAIN named} = sel
      BY DEF Orders
    <3> QED
      BY <1>6, <3>1 DEF Reorder, rows
  <2>2. /\ IsFiniteSet(sel) /\ stayers \subseteq Nat /\ IsFiniteSet(stayers)
        /\ \A z \in stayers : position[z] \in Nat
        /\ sel \cup stayers = {z \in rows : parent[z] = p} /\ sel \cap stayers = {}
    <3>1. Children(parent, p) = {z \in rows : parent[z] = p}
      BY DEF Children, rows
    <3>2. stayers \in SUBSET rows /\ sel \in SUBSET rows
      BY <3>1 DEF Selections
    <3>3. sel \cup stayers = {z \in rows : parent[z] = p} /\ sel \cap stayers = {}
      BY <2>1, <3>1
    <3> HIDE DEF stayers
    <3> QED
      BY <3>2, <3>3, TableIsForest, FS_Subset DEF TypeOK
  <2> HIDE DEF stayers
  <2> SUFFICES ASSUME NEW x \in rows, NEW y \in rows, x # y,
                      parent[x] = parent[y], parent[x] # Null
               PROVE  position'[x] # position'[y]
    BY <2>1 DEF SublinksNeverTie
  <2>3. CASE parent[x] = p
    <3>1. x \in sel \cup stayers /\ y \in sel \cup stayers
      BY <2>2, <2>3
    <3>2. /\ position'[x] = Reindexed(position, NamedRank(named), stayers, x)
          /\ position'[y] = Reindexed(position, NamedRank(named), stayers, y)
      BY <2>1, <3>1
    <3>3. /\ NamedRank(named) \in [sel -> 1 .. Cardinality(sel)]
          /\ \A v, w \in sel : v # w => NamedRank(named)[v] # NamedRank(named)[w]
      BY <2>2, NamedNeverTie
    <3> QED
      <4>1. /\ IsFiniteSet(sel) /\ stayers \subseteq Nat /\ IsFiniteSet(stayers)
            /\ \A z \in stayers : position[z] \in Nat
            /\ sel \cap stayers = {}
        BY <2>2
      <4>2. Reindexed(position, NamedRank(named), stayers, x)
              # Reindexed(position, NamedRank(named), stayers, y)
        BY <3>1, <3>3, <4>1, ReindexedNeverTies
      <4> QED
        BY <3>2, <4>2
  <2>4. CASE parent[x] # p
    BY <2>1, <2>2, <2>4 DEF SublinksNeverTie
  <2> QED
    BY <2>3, <2>4
<1>7. ASSUME UNCHANGED <<parent, position>>
      PROVE  SublinksNeverTie'
  BY <1>7 DEF SublinksNeverTie, rows
<1> QED
  BY <1>1, <1>2, <1>3, <1>4, <1>5, <1>6, <1>7 DEF Next, EditOccurredAt, vars

(* Moves in, moves out, promotions, reorders and deletions: the sublinks of *)
(* a row never share a number, so their stored order is one order.          *)
THEOREM StoredOrderIsStrict == Spec => []SublinksNeverTie
<1>1. Init => SublinksNeverTie
  BY DEF Init, SublinksNeverTie, rows
<1> QED
  BY <1>1, NeverTieInductive, TypeCorrect, PTL DEF Spec

---------------------------------------------------------------------------
(* Grouping again.                                                          *)

(* Rows that are numbered by their places, after n others, keep their order.*)
IsSiblingSet(S, pos) ==
    IsFiniteSet(S) /\ S \subseteq Nat /\ \A z \in S : pos[z] \in Nat
NumberedAfter(n, new, pos, S) == \A z \in S : new[z] = 10 * (n + Place(pos, S, z))

(* Renumbering a set of siblings in their order leaves every place as it    *)
(* was.                                                                     *)
LEMMA NumberingKeepsOrder ==
    ASSUME NEW S, NEW pos, IsSiblingSet(S, pos), NEW n \in Nat, NEW new, NumberedAfter(n, new, pos, S),
           NEW x \in S
    PROVE  Place(new, S, x) = Place(pos, S, x)
<1>1. ASSUME NEW y \in S, y # x
      PROVE  SiblingBefore(new, y, x) <=> SiblingBefore(pos, y, x)
  <2>1. /\ Place(pos, S, x) \in Nat /\ Place(pos, S, y) \in Nat
        /\ SiblingBefore(pos, y, x) => Place(pos, S, y) < Place(pos, S, x)
        /\ SiblingBefore(pos, x, y) => Place(pos, S, x) < Place(pos, S, y)
        /\ SiblingBefore(pos, x, y) \/ SiblingBefore(pos, y, x)
    BY <1>1, PlacesKeepOrder DEF IsSiblingSet
  <2>2. /\ new[x] = 10 * (n + Place(pos, S, x)) /\ new[y] = 10 * (n + Place(pos, S, y))
    BY DEF NumberedAfter
  <2>3. new[y] < new[x] <=> Place(pos, S, y) < Place(pos, S, x)
    BY <2>1, <2>2
  <2>4. new[y] # new[x]
    BY <2>1, <2>2
  <2> QED
    BY <2>1, <2>3, <2>4 DEF SiblingBefore
<1>2. Upto(new, S, x) = Upto(pos, S, x)
  BY <1>1 DEF Upto
<1> QED
  BY <1>2 DEF Place

(* A selection that was grouped is grouped again without a refusal, and     *)
(* nothing is written that is not there.                                    *)
LEMMA GroupingTwice ==
    ASSUME TypeOK, NoCycles, DepthWithinCap, NEW sel \in SUBSET rows, NEW r \in sel,
           NEW par, par = GroupedParent(parent, sel, r),
           NEW pos, pos = GroupedPosition(parent, position, sel, r),
           GroupAllowed(parent, sel, r, 0)
    PROVE  /\ GroupAllowed(par, sel, r, 0)
           /\ GroupedParent(par, sel, r) = par
           /\ GroupedPosition(par, pos, sel, r) = pos
<1> DEFINE movers == sel \ {r}
           S == Stayers(r, sel)
           rank == ArrivalRank(movers)
<1>1. /\ IsForest(par) /\ Acyclic(par) /\ DOMAIN par = rows
      /\ \A x \in rows : Depth(par, x) <= MAX_THREAD_DEPTH
      /\ IsFiniteSet(rows) /\ Null \notin rows /\ rows = DOMAIN parent
  BY TableIsForest, GroupingKeepsDepth
<1>2. /\ par = [x \in rows |-> IF x \in sel THEN (IF x = r THEN Null ELSE r) ELSE parent[x]]
      /\ \A x \in movers : par[x] = r /\ par[r] = Null /\ r \in rows
      /\ par[r] = Null
  BY <1>1 DEF GroupedParent
<1>3. Ancestors(par, r) = {r} /\ Depth(par, r) = 0
  BY <1>1, <1>2, RootDepth
<1>4. GroupAllowed(par, sel, r, 0)
  <2>1. movers \cap Ancestors(par, r) = {}
    BY <1>3
  <2>2. ASSUME NEW x \in movers, NEW d \in Subtree(par, x)
        PROVE  0 + 1 + Depth(par, d) - Depth(par, x) <= MAX_THREAD_DEPTH
    <3>1. Depth(par, x) = 1
      <4>1. x \in DOMAIN par /\ par[x] # Null /\ par[x] = r
        BY <1>1, <1>2
      <4>2. Depth(par, x) = Depth(par, r) + 1
        BY <1>1, <4>1, ChildDepth
      <4> QED
        BY <1>3, <4>2
    <3>2. d \in rows
      BY <1>1 DEF Subtree
    <3>3. Depth(par, d) \in Nat /\ Depth(par, d) <= MAX_THREAD_DEPTH
      BY <1>1, <3>2, DepthIsNatural
    <3> QED
      BY <3>1, <3>3
  <2> QED
    BY <2>1, <2>2 DEF GroupAllowed, DepthAllows
<1>5. GroupedParent(par, sel, r) = par
  BY <1>1, <1>2 DEF GroupedParent
<1>6. /\ S \subseteq rows /\ S \subseteq Nat /\ IsFiniteSet(S)
      /\ (\A z \in S : position[z] \in Nat) /\ S \cap movers = {}
  BY StayersAreRows DEF Stayers
<1>7. /\ Children(par, r) \ sel = S
      /\ LeftParents(par, sel, r) = {}
  BY <1>1, <1>2 DEF Children, Stayers, LeftParents
<1>8. \A x \in movers \cup S : pos[x] = Reindexed(position, rank, S, x)
  <2>1. ASSUME NEW x \in movers \cup S
        PROVE  pos[x] = Reindexed(position, rank, S, x)
    <3>1. x \in rows
      BY <1>6
    <3>2. Lands(x, par, pos, sel, r)
      BY <3>1, GroupedPlaces
    <3> QED
      BY <3>2 DEF Lands
  <2> QED
    BY <2>1
<1>9. /\ pos = [x \in rows |-> pos[x]]
  BY <1>1 DEF GroupedPosition
<1>10. GroupedPosition(par, pos, sel, r) =
         [x \in rows |-> IF x \in movers \/ x \in S THEN Reindexed(pos, rank, S, x) ELSE pos[x]]
  BY <1>1, <1>7 DEF GroupedPosition
<1>11. /\ IsFiniteSet(movers) /\ Cardinality(movers) \in Nat
       /\ DOMAIN rank = movers
  <2>1. movers \in SUBSET rows
    OBVIOUS
  <2> QED
    BY <2>1, <1>1, ArrivalsNeverTie, FS_CardinalityType DEF ArrivalRank
<1> HIDE DEF movers, S, rank
<1>12. \A x \in S : pos[x] = 10 * (Cardinality(movers) + Place(position, S, x))
  BY <1>6, <1>8, <1>11, ReindexedValue
<1>13. \A x \in S : Place(pos, S, x) = Place(position, S, x)
  <2>1. NumberedAfter(Cardinality(movers), pos, position, S)
    BY <1>12 DEF NumberedAfter
  <2>2. IsSiblingSet(S, position)
    BY <1>6 DEF IsSiblingSet
  <2> QED
    BY <1>6, <1>11, <2>1, <2>2, NumberingKeepsOrder
<1>14. \A x \in movers \cup S : Reindexed(pos, rank, S, x) = pos[x]
  <2>1. ASSUME NEW x \in movers
        PROVE  Reindexed(pos, rank, S, x) = pos[x]
    BY <1>8, <1>11, <2>1, ReindexedValue
  <2>2. ASSUME NEW x \in S
        PROVE  Reindexed(pos, rank, S, x) = pos[x]
    BY <1>6, <1>11, <1>12, <1>13, <2>2, ReindexedValue
  <2> QED
    BY <2>1, <2>2
<1>15. GroupedPosition(par, pos, sel, r) = pos
  BY <1>9, <1>10, <1>14
<1> QED
  BY <1>4, <1>5, <1>15

(* "Re-grouping a live thread ... must be idempotent": in every state that  *)
(* the calls can reach, whatever selection was grouped is grouped again     *)
(* without a refusal and without a change.                                  *)
THEOREM RegroupingIsIdempotent == Spec => []RegroupIsNoOp
<1>1. TypeOK /\ NoCycles /\ DepthWithinCap => RegroupIsNoOp
  <2> SUFFICES ASSUME TypeOK, NoCycles, DepthWithinCap, NEW sel \in Selections,
                      GroupAllowed(parent, sel, ElectedRoot(sel), 0)
               PROVE  LET r == ElectedRoot(sel)
                          par == GroupedParent(parent, sel, r)
                          pos == GroupedPosition(parent, position, sel, r)
                      IN  /\ GroupAllowed(par, sel, r, 0)
                          /\ GroupedParent(par, sel, r) = par
                          /\ GroupedPosition(par, pos, sel, r) = pos
    BY DEF RegroupIsNoOp
  <2>1. ElectedRoot(sel) \in sel /\ sel \in SUBSET rows
    BY ElectedRootIsEarliest DEF Selections
  <2> QED
    BY <2>1, GroupingTwice
<1> QED
  BY <1>1, TypeCorrect, TreeStaysAcyclic, TreeStaysShallow, PTL

---------------------------------------------------------------------------
(* The table implements ordered sublinks.                                   *)

(* Ranks that put the rows of D in one order. *)
IsRanking(rank, D) ==
    /\ IsFiniteSet(D) /\ rank \in [D -> 1 .. Cardinality(D)]
    /\ \A x, y \in D : x # y => rank[x] # rank[y]

(* Two sets of pairs of rows are equal when they relate the same rows.      *)
RelateAlike(R, A, B) == \A x, y \in R : <<x, y>> \in A <=> <<x, y>> \in B

(* Two relations on the rows that relate the same rows are equal.           *)
LEMMA SamePairs ==
    ASSUME NEW R, NEW A \in SUBSET (R \X R), NEW B \in SUBSET (R \X R),
           RelateAlike(R, A, B)
    PROVE  A = B
<1>1. \A p \in R \X R : p \in A <=> p \in B
  <2> SUFFICES ASSUME NEW p \in R \X R PROVE p \in A <=> p \in B
    OBVIOUS
  <2>1. PICK x \in R, y \in R : p = <<x, y>>
    OBVIOUS
  <2> QED
    BY <2>1 DEF RelateAlike
<1> QED
  BY <1>1

(* What two rows are to each other after their set was reindexed.           *)
LEMMA ReindexedOrder ==
    ASSUME NEW D \in SUBSET Nat, NEW rank, IsRanking(rank, D),
           NEW S, NEW pos, IsSiblingSet(S, pos), D \cap S = {}, NEW new,
           NEW x, new[x] = Reindexed(pos, rank, S, x),
           NEW y, new[y] = Reindexed(pos, rank, S, y)
    PROVE  /\ x \in D /\ y \in D => (SiblingBefore(new, x, y) <=> rank[x] < rank[y])
           /\ x \in D /\ y \in S => SiblingBefore(new, x, y)
           /\ x \in S /\ y \in D => ~ SiblingBefore(new, x, y)
           /\ x \in S /\ y \in S => (SiblingBefore(new, x, y) <=> SiblingBefore(pos, x, y))
<1>1. /\ Cardinality(D) \in Nat /\ DOMAIN rank = D
      /\ \A z \in D : rank[z] \in Nat /\ rank[z] <= Cardinality(D)
  BY FS_CardinalityType DEF IsRanking
<1>2. ASSUME NEW z, new[z] = Reindexed(pos, rank, S, z)
      PROVE  /\ z \in D => new[z] = 10 * rank[z]
             /\ z \in S => /\ new[z] = 10 * (Cardinality(D) + Place(pos, S, z))
                           /\ Place(pos, S, z) \in Nat /\ Place(pos, S, z) > 0
  <2>1. z \in D => new[z] = 10 * rank[z]
    BY <1>1, <1>2, ReindexedValue
  <2>2. ASSUME z \in S
        PROVE  /\ new[z] = 10 * (Cardinality(D) + Place(pos, S, z))
               /\ Place(pos, S, z) \in Nat /\ Place(pos, S, z) > 0
    <3>1. Place(pos, S, z) \in Nat /\ Place(pos, S, z) > 0
      BY <2>2, PlacesKeepOrder DEF IsSiblingSet
    <3>2. z \notin D
      BY <2>2
    <3> QED
      BY <1>1, <1>2, <3>1, <3>2, ReindexedValue
  <2> QED
    BY <2>1, <2>2
<1>3. CASE x \in D /\ y \in D
  <2>1. new[x] = 10 * rank[x] /\ new[y] = 10 * rank[y]
    BY <1>2, <1>3
  <2>2. rank[x] \in Nat /\ rank[y] \in Nat /\ x \in Nat /\ y \in Nat
    BY <1>1, <1>3
  <2>3. x # y => rank[x] # rank[y]
    BY <1>3 DEF IsRanking
  <2>4. SiblingBefore(new, x, y) <=> rank[x] < rank[y]
    BY <2>1, <2>2, <2>3 DEF SiblingBefore
  <2> QED
    BY <1>3, <2>4
<1>4. ASSUME NEW v \in D, NEW w \in S, new[v] = Reindexed(pos, rank, S, v),
             new[w] = Reindexed(pos, rank, S, w)
      PROVE  SiblingBefore(new, v, w) /\ ~ SiblingBefore(new, w, v)
  <2>1. new[v] = 10 * rank[v] /\ rank[v] \in Nat /\ rank[v] <= Cardinality(D)
    BY <1>1, <1>2, <1>4
  <2>2. /\ new[w] = 10 * (Cardinality(D) + Place(pos, S, w))
        /\ Place(pos, S, w) \in Nat /\ Place(pos, S, w) > 0
    BY <1>2, <1>4
  <2>3. new[v] < new[w] /\ new[v] \in Nat /\ new[w] \in Nat
    BY <1>1, <2>1, <2>2
  <2> QED
    BY <2>3 DEF SiblingBefore
<1>5. CASE x \in S /\ y \in S
  <2>1. /\ new[x] = 10 * (Cardinality(D) + Place(pos, S, x))
        /\ new[y] = 10 * (Cardinality(D) + Place(pos, S, y))
        /\ Place(pos, S, x) \in Nat /\ Place(pos, S, y) \in Nat
    BY <1>2, <1>5
  <2>2. /\ SiblingBefore(pos, y, x) => Place(pos, S, y) < Place(pos, S, x)
        /\ SiblingBefore(pos, x, y) => Place(pos, S, x) < Place(pos, S, y)
        /\ x # y => SiblingBefore(pos, x, y) \/ SiblingBefore(pos, y, x)
        /\ ~ (SiblingBefore(pos, x, y) /\ SiblingBefore(pos, y, x))
    BY <1>5, PlacesKeepOrder DEF IsSiblingSet
  <2>3. CASE x = y
    <3>1. ~ SiblingBefore(new, x, y) /\ ~ SiblingBefore(pos, x, y)
      <4>1. x \in Nat /\ pos[x] \in Nat /\ new[x] \in Nat
        BY <1>1, <1>5, <2>1 DEF IsSiblingSet
      <4> QED
        BY <2>3, <4>1 DEF SiblingBefore
    <3> QED
      BY <1>5, <3>1
  <2>4. CASE x # y
    <3>1. new[x] < new[y] <=> Place(pos, S, x) < Place(pos, S, y)
      BY <1>1, <2>1
    <3>2. new[x] # new[y]
      BY <1>1, <2>1, <2>2, <2>4
    <3>3. SiblingBefore(new, x, y) <=> SiblingBefore(pos, x, y)
      BY <2>1, <2>2, <2>4, <3>1, <3>2 DEF SiblingBefore
    <3> QED
      BY <1>5, <3>3
  <2> QED
    BY <2>3, <2>4
<1>6. \/ x \in D \/ x \notin D
  OBVIOUS
<1>7. (x \in D => x \notin S) /\ (y \in D => y \notin S)
  OBVIOUS
<1> QED
  BY <1>3, <1>4, <1>5, <1>7
(* The ranks of a grouping follow the events of the rows that arrive.       *)
LEMMA ArrivalsByEvent ==
    ASSUME TypeOK, NEW movers \in SUBSET rows
    PROVE  /\ IsRanking(ArrivalRank(movers), movers)
           /\ \A x, y \in movers :
                 ArrivalRank(movers)[x] < ArrivalRank(movers)[y] <=> Earlier(x, y)
<1>1. IsRanking(ArrivalRank(movers), movers)
  BY ArrivalsNeverTie DEF IsRanking
<1>2. IsFiniteSet(movers) /\ movers \subseteq Nat /\ \A x \in movers : occurred_at[x] \in Nat
  BY TableIsForest, FS_Subset, NumbersAssumption DEF TypeOK
<1>3. \A x \in movers : ArrivalRank(movers)[x] \in Nat
  BY <1>1, <1>2, FS_CardinalityType DEF IsRanking
<1> DEFINE upto(x) == {y \in movers : y = x \/ Earlier(y, x)}
<1>4. ASSUME NEW x \in movers, NEW y \in movers, Earlier(x, y)
      PROVE  ArrivalRank(movers)[x] < ArrivalRank(movers)[y]
  <2>1. upto(x) \in SUBSET upto(y)
    <3> SUFFICES ASSUME NEW z \in movers, z = x \/ Earlier(z, x)
                 PROVE  Earlier(z, y)
      OBVIOUS
    <3>1. /\ x \in Nat /\ y \in Nat /\ z \in Nat
          /\ occurred_at[x] \in Nat /\ occurred_at[y] \in Nat /\ occurred_at[z] \in Nat
      BY <1>2
    <3> QED
      BY <1>4, <3>1 DEF Earlier
  <2>2. x # y
    BY <1>2, <1>4 DEF Earlier
  <2>3. /\ ArrivalRank(movers)[x] = Cardinality(upto(x))
        /\ ArrivalRank(movers)[y] = Cardinality(upto(y)) /\ upto(y) \in SUBSET movers
    BY DEF ArrivalRank
  <2> HIDE DEF upto
  <2>4. ArrivalRank(movers)[x] <= ArrivalRank(movers)[y]
    BY <1>2, <2>1, <2>3, FS_Subset
  <2>5. ArrivalRank(movers)[x] # ArrivalRank(movers)[y]
    BY <1>1, <2>2 DEF IsRanking
  <2> QED
    BY <1>3, <2>4, <2>5
<1>5. \A x, y \in movers : Earlier(x, y) \/ Earlier(y, x) \/ x = y
  <2> SUFFICES ASSUME NEW x \in movers, NEW y \in movers
               PROVE  Earlier(x, y) \/ Earlier(y, x) \/ x = y
    OBVIOUS
  <2>1. x \in Nat /\ y \in Nat /\ occurred_at[x] \in Nat /\ occurred_at[y] \in Nat
    BY <1>2
  <2> QED
    BY <2>1 DEF Earlier
<1>6. ASSUME NEW x \in movers, NEW y \in movers,
             ArrivalRank(movers)[x] < ArrivalRank(movers)[y]
      PROVE  Earlier(x, y)
  <2>1. ArrivalRank(movers)[x] \in Nat /\ ArrivalRank(movers)[y] \in Nat
    BY <1>3
  <2>2. ~ Earlier(y, x) /\ x # y
    <3>1. Earlier(y, x) => ArrivalRank(movers)[y] < ArrivalRank(movers)[x]
      BY <1>4
    <3>2. x = y => ArrivalRank(movers)[x] = ArrivalRank(movers)[y]
      OBVIOUS
    <3> QED
      BY <1>6, <2>1, <3>1, <3>2
  <2> QED
    BY <1>5, <2>2
<1> QED
  BY <1>1, <1>4, <1>6

(* The table as the abstract specification reads it.                        *)
LEMMA ThreadsReadTheTable ==
    /\ Threads!live = DOMAIN parent
    /\ \A S : Threads!Without(S)
                 = {pair \in StoredBefore : pair[1] \notin S /\ pair[2] \notin S}
    /\ \A x, y : Threads!EventBefore(x, y) <=> Earlier(x, y)
    /\ \A p : Threads!Children(parent, p) = Children(parent, p)
    /\ \A forest : Threads!IsLegal(forest) <=>
          /\ Acyclic(forest)
          /\ \A x \in DOMAIN forest : Depth(forest, x) <= MAX_THREAD_DEPTH
<1>1. \A forest : Threads!Acyclic(forest) <=> Acyclic(forest)
  BY DEF Threads!Acyclic, Acyclic
<1>2. \A forest, x : Threads!Depth(forest, x) = Depth(forest, x)
  <2>1. \A forest, S : Threads!IsClosedUpwards(forest, S) <=> IsClosedUpwards(forest, S)
    BY DEF Threads!IsClosedUpwards, IsClosedUpwards, Threads!Null, Null
  <2>2. ASSUME NEW forest, NEW x
        PROVE  Threads!Ancestors(forest, x) = Ancestors(forest, x)
    BY <2>1, Zenon DEF Threads!Ancestors, Ancestors
  <2> QED
    BY <2>2 DEF Threads!Depth, Depth, Threads!Cardinality, Cardinality
<1>3. \A forest : Threads!IsLegal(forest) <=>
          /\ Acyclic(forest)
          /\ \A x \in DOMAIN forest : Depth(forest, x) <= MAX_THREAD_DEPTH
  BY <1>1, <1>2 DEF Threads!IsLegal
<1>4. Threads!live = DOMAIN parent
  BY DEF Threads!live
<1>5. \A S : Threads!Without(S)
                 = {pair \in StoredBefore : pair[1] \notin S /\ pair[2] \notin S}
  BY DEF Threads!Without
<1>6. \A x, y : Threads!EventBefore(x, y) <=> Earlier(x, y)
  BY DEF Threads!EventBefore, Earlier
<1>7. \A p : Threads!Children(parent, p) = Children(parent, p)
  BY DEF Threads!Children, Children
<1> QED
  BY <1>3, <1>4, <1>5, <1>6, <1>7

(* One pair of rows in the stored order, before a step and after it.        *)
LEMMA StoredPairs ==
    /\ StoredBefore \in SUBSET (rows \X rows)
    /\ \A x, y \in rows :
          <<x, y>> \in StoredBefore <=>
             parent[x] = parent[y] /\ parent[x] # Null /\ SiblingBefore(position, x, y)
BY DEF StoredBefore

(* The stored order after a step, pair by pair.                             *)
LEMMA StoredPairsAfter ==
    /\ StoredBefore' \in SUBSET (rows' \X rows')
    /\ \A x, y \in rows' :
          <<x, y>> \in StoredBefore' <=>
             parent'[x] = parent'[y] /\ parent'[x] # Null /\ SiblingBefore(position', x, y)
<1>1. StoredBefore' = {pair \in rows' \X rows' :
        /\ parent'[pair[1]] = parent'[pair[2]] /\ parent'[pair[1]] # Null
        /\ SiblingBefore(position', pair[1], pair[2])}
  BY DEF StoredBefore, SiblingBefore
<1> QED
  BY <1>1

(* A grouping nests the selection: the movers lead the sublinks of t in     *)
(* event order, and whoever stays keeps its place among its siblings.       *)
LEMMA GroupingNests ==
    ASSUME TypeOK, NoCycles, DepthWithinCap, NEW sel \in SUBSET rows, NEW t \in rows,
           GroupAllowed(parent, sel, t, IF t \in sel THEN 0 ELSE Depth(parent, t)),
           parent' = GroupedParent(parent, sel, t),
           position' = GroupedPosition(parent, position, sel, t),
           occurred_at' = occurred_at
    PROVE  Threads!Nest(sel, t)
<1> DEFINE movers == sel \ {t}
           S == Stayers(t, sel)
           after == {pair \in StoredBefore : pair[1] \notin sel /\ pair[2] \notin sel}
                     \cup {pair \in movers \X movers : Earlier(pair[1], pair[2])}
                     \cup movers \X S
<1>1. rows = DOMAIN parent /\ rows' = rows /\ rows \subseteq Nat /\ Null \notin rows
  BY TableIsForest DEF GroupedParent, rows
<1>2. /\ parent' = [x \in rows |-> IF x \in movers THEN t
                                   ELSE IF x \in sel THEN Null ELSE parent[x]]
      /\ Acyclic(parent') /\ DOMAIN parent' = rows
      /\ \A x \in rows : Depth(parent', x) <= MAX_THREAD_DEPTH
  BY <1>1, GroupingKeepsDepth DEF GroupedParent
<1>3. /\ S = Children(parent, t) \ sel /\ S \in SUBSET rows /\ movers \in SUBSET rows
      /\ movers \cap S = {}
      /\ \A x \in rows : x \in S <=> x \notin sel /\ parent[x] = t
  BY <1>1 DEF Stayers, Children
<1>4. \A x \in rows : Lands(x, parent', position', sel, t)
  BY GroupedPlaces
<1>5. ASSUME NEW x \in rows, NEW y \in rows
      PROVE  <<x, y>> \in StoredBefore' <=> <<x, y>> \in after
  <2>1. <<x, y>> \in after <=>
          \/ /\ parent[x] = parent[y] /\ parent[x] # Null /\ SiblingBefore(position, x, y)
             /\ x \notin sel /\ y \notin sel
          \/ x \in movers /\ y \in movers /\ Earlier(x, y)
          \/ x \in movers /\ y \in S
    BY StoredPairs
  <2>2. <<x, y>> \in StoredBefore' <=>
          parent'[x] = parent'[y] /\ parent'[x] # Null /\ SiblingBefore(position', x, y)
    BY <1>1, StoredPairsAfter
  <2>3. \A z \in {x, y} :
          /\ parent'[z] = t <=> z \in movers \cup S
          /\ parent'[z] = Null <=> z \in sel \cap {t} \/ (z \notin sel /\ parent[z] = Null)
          /\ z \notin sel => parent'[z] = parent[z]
    BY <1>1, <1>2, <1>3
  <2>4. CASE x \in movers \cup S /\ y \in movers \cup S
    <3>1. /\ position'[x] = Reindexed(position, ArrivalRank(movers), S, x)
          /\ position'[y] = Reindexed(position, ArrivalRank(movers), S, y)
      BY <1>3, <1>4, <2>4 DEF Lands
    <3>2. IsRanking(ArrivalRank(movers), movers)
      BY <1>3, ArrivalsByEvent
    <3>3. IsSiblingSet(S, position)
      BY StayersAreRows DEF IsSiblingSet
    <3>4. movers \in SUBSET Nat /\ parent'[x] = t /\ parent'[y] = t /\ t # Null
      BY <1>1, <1>3, <2>3, <2>4
    <3>5. \A v, w \in movers : ArrivalRank(movers)[v] < ArrivalRank(movers)[w] <=> Earlier(v, w)
      BY <1>3, ArrivalsByEvent
    <3>6. \A z \in S : z \notin sel /\ parent[z] = t
      BY <1>3
    <3> HIDE DEF movers, S, after
    <3>7. /\ x \in movers /\ y \in movers =>
               (SiblingBefore(position', x, y) <=> ArrivalRank(movers)[x] < ArrivalRank(movers)[y])
          /\ x \in movers /\ y \in S => SiblingBefore(position', x, y)
          /\ x \in S /\ y \in movers => ~ SiblingBefore(position', x, y)
          /\ x \in S /\ y \in S =>
               (SiblingBefore(position', x, y) <=> SiblingBefore(position, x, y))
      BY <1>3, <3>1, <3>2, <3>3, <3>4, ReindexedOrder
    <3>8. CASE x \in movers /\ y \in movers
      BY <1>3, <2>1, <2>2, <3>4, <3>5, <3>7, <3>8 DEF movers
    <3>9. CASE x \in movers /\ y \in S
      BY <1>3, <2>1, <2>2, <3>4, <3>7, <3>9
    <3>10. CASE x \in S /\ y \in movers
      BY <1>3, <2>1, <2>2, <3>4, <3>6, <3>7, <3>10 DEF movers
    <3>11. CASE x \in S /\ y \in S
      BY <1>3, <2>1, <2>2, <3>4, <3>6, <3>7, <3>11
    <3> QED
      BY <2>4, <3>8, <3>9, <3>10, <3>11
  <2>5. CASE x \notin movers \cup S /\ y \notin movers \cup S
    <3>1. x \in sel \/ y \in sel => parent'[x] = Null \/ parent'[y] = Null
      BY <2>3, <2>5
    <3>2. <<x, y>> \in after =>
            /\ parent[x] = parent[y] /\ parent[x] # Null /\ x \notin sel /\ y \notin sel
      BY <2>1, <2>5
    <3>3. ASSUME x \notin sel, y \notin sel, parent[x] = parent[y], parent[x] # Null
          PROVE  SiblingBefore(position', x, y) <=> SiblingBefore(position, x, y)
      <4>1. parent[x] # t /\ parent[y] # t
        BY <1>3, <2>5, <3>3
      <4>2. CASE parent[x] \in LeftParents(parent, sel, t)
        <5> DEFINE T == Stayers(parent[x], sel)
        <5>1. /\ position'[x] = Reindexed(position, <<>>, T, x)
              /\ position'[y] = Reindexed(position, <<>>, T, y)
              /\ x \in T /\ y \in T
          BY <1>4, <3>3, <4>1, <4>2 DEF Lands
        <5>2. IsSiblingSet(T, position)
          BY StayersAreRows DEF IsSiblingSet
        <5>3. IsRanking(<<>>, {})
          BY FS_EmptySet DEF IsRanking
        <5> HIDE DEF T
        <5>4. {} \in SUBSET Nat /\ {} \cap T = {}
          OBVIOUS
        <5> QED
          BY <5>1, <5>2, <5>3, <5>4, ReindexedOrder
      <4>3. CASE parent[x] \notin LeftParents(parent, sel, t)
        <5>1. position'[x] = position[x] /\ position'[y] = position[y]
          BY <1>4, <3>3, <4>1, <4>3 DEF Lands
        <5> QED
          BY <5>1 DEF SiblingBefore
      <4> QED
        BY <4>2, <4>3
    <3> QED
      BY <2>1, <2>2, <2>3, <2>5, <3>1, <3>2, <3>3
  <2>6. CASE (x \in movers \cup S /\ y \notin movers \cup S)
              \/ (x \notin movers \cup S /\ y \in movers \cup S)
    <3>1. parent'[x] # parent'[y]
      BY <2>3, <2>6
    <3>2. <<x, y>> \notin after
      BY <1>3, <2>1, <2>6
    <3> QED
      BY <2>2, <3>1, <3>2
  <2> QED
    BY <2>4, <2>5, <2>6
<1>6. StoredBefore' = after
  <2>1. StoredBefore' \in SUBSET (rows \X rows)
    BY <1>1, StoredPairsAfter
  <2>2. after \in SUBSET (rows \X rows)
    BY <1>3, StoredPairs
  <2> HIDE DEF after
  <2>3. RelateAlike(rows, StoredBefore', after)
    BY <1>5 DEF RelateAlike
  <2> QED
    BY <2>1, <2>2, <2>3, SamePairs
<1>7. Threads!IsLegal(parent')
  BY <1>2, ThreadsReadTheTable
<1> QED
  BY <1>1, <1>2, <1>3, <1>6, <1>7, ThreadsReadTheTable DEF Threads!Nest, Threads!Null, Null

(* A reorder call permutes one set of sublinks: the named rows lead in the  *)
(* order that was asked for.                                                *)
LEMMA ReorderingPermutes ==
    ASSUME TypeOK, NEW u \in Users, NEW sel \in Selections, NEW p \in rows \cup {Null},
           NEW named \in Orders(sel), Reorder(u, p, named)
    PROVE  IF p = Null THEN StoredBefore' = StoredBefore
           ELSE Threads!Permute(p, sel, NamedRank(named))
<1> DEFINE S == Children(parent, p) \ sel
           rank == NamedRank(named)
           after == {pair \in StoredBefore : pair[2] \notin sel}
                     \cup {pair \in sel \X sel : rank[pair[1]] < rank[pair[2]]}
                     \cup sel \X S
<1>1. /\ parent' = parent /\ rows' = rows /\ sel \subseteq Children(parent, p)
      /\ position' = [x \in rows |-> IF x \in sel \cup S
                                     THEN Reindexed(position, rank, S, x)
                                     ELSE position[x]]
      /\ occurred_at' = occurred_at
  <2>1. {named[i] : i \in DOMAIN named} = sel
    BY DEF Orders
  <2> QED
    BY <2>1 DEF Reorder, rows
<1>2. /\ sel \in SUBSET rows /\ S \in SUBSET rows /\ sel \cap S = {}
      /\ \A x \in rows : parent[x] = p <=> x \in sel \cup S
      /\ rows \subseteq Nat
  <2>1. Children(parent, p) = {z \in rows : parent[z] = p}
    BY DEF Children, rows
  <2> QED
    BY <1>1, <2>1, TableIsForest
<1>3. IsSiblingSet(S, position) /\ sel \in SUBSET Nat
  <2>1. S = Stayers(p, sel)
    BY DEF Stayers
  <2> QED
    BY <1>2, <2>1, StayersAreRows DEF IsSiblingSet
<1>4. IsRanking(rank, sel)
  BY <1>2, TableIsForest, FS_Subset, NamedNeverTie DEF IsRanking
<1> HIDE DEF S, rank
<1>5. ASSUME NEW x \in rows, NEW y \in rows, parent[x] # p \/ parent[y] # p
      PROVE  <<x, y>> \in StoredBefore' <=> <<x, y>> \in StoredBefore
  <2>1. parent[x] = parent[y] => position'[x] = position[x] /\ position'[y] = position[y]
    BY <1>1, <1>2, <1>5
  <2> QED
    BY <1>1, <2>1, StoredPairs, StoredPairsAfter DEF SiblingBefore
<1>6. CASE p = Null
  <2>1. ASSUME NEW x \in rows, NEW y \in rows
        PROVE  <<x, y>> \in StoredBefore' <=> <<x, y>> \in StoredBefore
    BY <1>1, <1>5, <1>6, StoredPairs, StoredPairsAfter
  <2>2. RelateAlike(rows, StoredBefore', StoredBefore)
    BY <2>1 DEF RelateAlike
  <2> QED
    BY <1>1, <1>6, <2>2, StoredPairs, StoredPairsAfter, SamePairs
<1>7. CASE p # Null
  <2>1. ASSUME NEW x \in rows, NEW y \in rows
        PROVE  <<x, y>> \in StoredBefore' <=> <<x, y>> \in after
    <3>1. <<x, y>> \in after <=>
            \/ <<x, y>> \in StoredBefore /\ y \notin sel
            \/ x \in sel /\ y \in sel /\ rank[x] < rank[y]
            \/ x \in sel /\ y \in S
      OBVIOUS
    <3>2. CASE parent[x] # p \/ parent[y] # p
      BY <1>2, <1>5, <3>1, <3>2, StoredPairs
    <3>3. CASE parent[x] = p /\ parent[y] = p
      <4>1. x \in sel \cup S /\ y \in sel \cup S
        BY <1>2, <3>3
      <4>2. /\ position'[x] = Reindexed(position, rank, S, x)
            /\ position'[y] = Reindexed(position, rank, S, y)
        BY <1>1, <4>1
      <4>3. /\ x \in sel /\ y \in sel => (SiblingBefore(position', x, y) <=> rank[x] < rank[y])
            /\ x \in sel /\ y \in S => SiblingBefore(position', x, y)
            /\ x \in S /\ y \in sel => ~ SiblingBefore(position', x, y)
            /\ x \in S /\ y \in S =>
                 (SiblingBefore(position', x, y) <=> SiblingBefore(position, x, y))
        <5>1. sel \cap S = {}
          BY <1>2
        <5> QED
          BY <1>3, <1>4, <4>2, <5>1, ReindexedOrder
      <4>4. /\ <<x, y>> \in StoredBefore' <=> SiblingBefore(position', x, y)
            /\ <<x, y>> \in StoredBefore <=> SiblingBefore(position, x, y)
        BY <1>1, <1>7, <3>3, StoredPairs, StoredPairsAfter
      <4> HIDE DEF after
      <4> QED
        BY <1>2, <3>1, <4>1, <4>3, <4>4
    <3> QED
      BY <3>2, <3>3
  <2>2. after \in SUBSET (rows \X rows) /\ StoredBefore' \in SUBSET (rows \X rows)
    BY <1>1, <1>2, StoredPairs, StoredPairsAfter
  <2>3. StoredBefore' = after
    <3> HIDE DEF after
    <3>1. RelateAlike(rows, StoredBefore', after)
      BY <2>1 DEF RelateAlike
    <3> QED
      BY <2>2, <3>1, SamePairs
  <2> QED
    BY <1>1, <1>7, <2>3, ThreadsReadTheTable DEF Threads!Permute, S, rank
<1> QED
  BY <1>6, <1>7

(* Every call is one step of the ordered sublinks, or none that a reader    *)
(* can see.                                                                 *)
LEMMA CallsImplementThreads ==
    ASSUME TypeOK, NoCycles, DepthWithinCap, [Next]_vars
    PROVE  [Threads!Next]_(Threads!vars)
<1>0. rows = DOMAIN parent /\ Threads!live = rows
  BY ThreadsReadTheTable DEF rows
<1>1. ASSUME NEW u \in Users, NEW x \in Links, NEW at \in Instants,
             Submit(u, x, at)
      PROVE  Threads!Arrive(x, at)
  <2>1. /\ rows' = rows \cup {x} /\ x \notin rows /\ parent'[x] = Null
        /\ \A y \in rows : parent'[y] = parent[y] /\ position'[y] = position[y]
    BY <1>1 DEF Submit, rows
  <2>2. ASSUME NEW y \in rows', NEW z \in rows'
        PROVE  <<y, z>> \in StoredBefore' <=> <<y, z>> \in StoredBefore
    <3>1. CASE y = x \/ z = x
      BY <2>1, <2>2, <3>1, StoredPairs, StoredPairsAfter
    <3>2. CASE y \in rows /\ z \in rows
      BY <2>1, <2>2, <3>2, StoredPairs, StoredPairsAfter DEF SiblingBefore
    <3> QED
      BY <2>1, <2>2, <3>1, <3>2
  <2>3. RelateAlike(rows', StoredBefore', StoredBefore)
    BY <2>2 DEF RelateAlike
  <2>4. StoredBefore' = StoredBefore
    BY <2>1, <2>3, StoredPairs, StoredPairsAfter, SamePairs
  <2> QED
    BY <1>0, <1>1, <2>4 DEF Submit, Threads!Arrive, Threads!Null, Null
<1>2. ASSUME NEW u \in Users, NEW x \in rows, NEW at \in Instants,
             EditOccurredAt(u, x, at)
      PROVE  Threads!Redate(x, at)
  BY <1>2 DEF EditOccurredAt, Threads!Redate, StoredBefore, rows, SiblingBefore
<1>3. ASSUME NEW u \in Users, NEW sel \in Selections, GroupNewThread(u, sel)
      PROVE  Threads!NestUnderEarliest(sel)
  <2>1. /\ ElectedRoot(sel) \in sel /\ sel \in SUBSET rows
        /\ \A y \in sel \ {ElectedRoot(sel)} : Threads!EventBefore(ElectedRoot(sel), y)
    BY ElectedRootIsEarliest, ThreadsReadTheTable DEF Selections
  <2>2. Threads!Nest(sel, ElectedRoot(sel))
    BY <1>3, <2>1, GroupingNests DEF GroupNewThread
  <2> QED
    BY <2>1, <2>2 DEF Threads!NestUnderEarliest
<1>4. ASSUME NEW u \in Users, NEW sel \in Selections, NEW t \in rows,
             GroupUnder(u, sel, t)
      PROVE  t \notin sel /\ Threads!Nest(sel, t)
  BY <1>4, GroupingNests DEF GroupUnder, Selections
<1>5. ASSUME NEW u \in Users, NEW sel \in Selections, Ungroup(u, sel)
      PROVE  Threads!Detach(sel)
  <2>1. /\ rows' = rows /\ position' = position
        /\ \A y \in rows : parent'[y] = IF y \in sel THEN Null ELSE parent[y]
    BY <1>5 DEF Ungroup, rows
  <2>2. RelateAlike(rows, StoredBefore', Threads!Without(sel))
    <3> SUFFICES ASSUME NEW y \in rows, NEW z \in rows
                 PROVE  <<y, z>> \in StoredBefore' <=> <<y, z>> \in Threads!Without(sel)
      BY DEF RelateAlike
    <3>1. <<y, z>> \in Threads!Without(sel) <=>
            <<y, z>> \in StoredBefore /\ y \notin sel /\ z \notin sel
      BY ThreadsReadTheTable
    <3> QED
      BY <2>1, <3>1, StoredPairs, StoredPairsAfter DEF SiblingBefore
  <2>3. /\ Threads!Without(sel) \in SUBSET (rows \X rows)
        /\ StoredBefore' \in SUBSET (rows \X rows)
    BY <2>1, StoredPairs, StoredPairsAfter, ThreadsReadTheTable
  <2>4. StoredBefore' = Threads!Without(sel)
    BY <2>2, <2>3, SamePairs
  <2> QED
    BY <1>0, <1>5, <2>4 DEF Ungroup, Threads!Detach, Threads!Null, Null
<1>6. ASSUME NEW u \in Users, NEW sel \in Selections, NEW p \in rows \cup {Null},
             NEW named \in Orders(sel), Reorder(u, p, named)
      PROVE  \/ UNCHANGED <<parent, StoredBefore, occurred_at>>
             \/ /\ p \in rows /\ sel \in SUBSET Children(parent, p)
                /\ NamedRank(named) \in [sel -> 1 .. Cardinality(sel)]
                /\ Threads!Permute(p, sel, NamedRank(named))
  <2>1. /\ parent' = parent /\ occurred_at' = occurred_at
        /\ sel \in SUBSET Children(parent, p)
    <3>1. {named[i] : i \in DOMAIN named} = sel
      BY DEF Orders
    <3> QED
      BY <1>6, <3>1 DEF Reorder
  <2>2. CASE p = Null
    BY <1>6, <2>1, <2>2, ReorderingPermutes
  <2>3. CASE p # Null
    <3>1. Threads!Permute(p, sel, NamedRank(named))
      BY <1>6, <2>3, ReorderingPermutes
    <3>2. NamedRank(named) \in [sel -> 1 .. Cardinality(sel)]
      BY TableIsForest, FS_Subset, NamedNeverTie DEF Selections
    <3> QED
      BY <1>6, <2>1, <2>3, <3>1, <3>2
  <2> QED
    BY <2>2, <2>3
<1>7. ASSUME NEW u \in Users, NEW x \in rows, Delete(u, x)
      PROVE  Threads!Vanish(x)
  <2> DEFINE kept == Threads!Without({x} \cup Children(parent, x))
  <2>1. /\ rows' = rows \ {x} /\ x # Null
        /\ \A y \in rows' : /\ position'[y] = position[y]
                             /\ parent'[y] = IF parent[y] = x THEN Null ELSE parent[y]
    BY <1>7, TableIsForest DEF Delete, rows
  <2>2. kept = {pair \in StoredBefore : /\ pair[1] \notin {x} \cup Children(parent, x)
                                        /\ pair[2] \notin {x} \cup Children(parent, x)}
    BY ThreadsReadTheTable
  <2>3. kept \in SUBSET (rows' \X rows')
    BY <2>1, <2>2, StoredPairs
  <2>4. ASSUME NEW y \in rows', NEW z \in rows'
        PROVE  <<y, z>> \in StoredBefore' <=> <<y, z>> \in kept
    <3>1. y \in rows /\ z \in rows /\ y # x /\ z # x
      BY <2>1
    <3>2. <<y, z>> \in kept <=>
            <<y, z>> \in StoredBefore /\ parent[y] # x /\ parent[z] # x
      BY <1>0, <2>2, <3>1 DEF Children
    <3> HIDE DEF kept
    <3> QED
      BY <2>1, <3>1, <3>2, StoredPairs, StoredPairsAfter DEF SiblingBefore
  <2> HIDE DEF kept
  <2>5. RelateAlike(rows', StoredBefore', kept)
    BY <2>4 DEF RelateAlike
  <2>6. StoredBefore' = kept
    BY <2>3, <2>5, StoredPairsAfter, SamePairs
  <2> QED
    <3>1. Threads!Children(parent, x) = Children(parent, x)
      BY ThreadsReadTheTable
    <3>2. StoredBefore' = Threads!Without({x} \cup Threads!Children(parent, x))
      BY <2>6, <3>1 DEF kept
    <3>3. /\ parent' = [y \in rows \ {x} |-> IF parent[y] = x THEN Null ELSE parent[y]]
          /\ occurred_at' = [y \in rows \ {x} |-> occurred_at[y]]
      BY <1>7 DEF Delete
    <3> QED
      BY <1>0, <3>2, <3>3 DEF Threads!Vanish, Threads!Null, Null
<1>8. ASSUME UNCHANGED vars
      PROVE  UNCHANGED Threads!vars
  BY <1>8 DEF vars, Threads!vars, StoredBefore, rows, SiblingBefore
<1>9. /\ \A sel \in Selections : sel \in (SUBSET Threads!live) \ {{}}
      /\ \A p : Threads!Children(parent, p) = Children(parent, p)
      /\ \A S : Threads!Cardinality(S) = Cardinality(S)
  BY <1>0, ThreadsReadTheTable DEF Selections, Threads!Cardinality, Cardinality
<1>10. CASE UNCHANGED vars
  BY <1>8, <1>10
<1>11. CASE Next
  <2>1. PICK u \in Users :
          \/ \E x \in Links, at \in Instants : Submit(u, x, at)
          \/ \E x \in rows, at \in Instants : EditOccurredAt(u, x, at)
          \/ \E sel \in Selections : GroupNewThread(u, sel)
          \/ \E sel \in Selections, t \in rows : GroupUnder(u, sel, t)
          \/ \E sel \in Selections : Ungroup(u, sel)
          \/ \E sel \in Selections, p \in rows \cup {Null} :
                \E named \in Orders(sel) : Reorder(u, p, named)
          \/ \E x \in rows : Delete(u, x)
    BY <1>11 DEF Next
  <2>2. CASE \E x \in Links, at \in Instants : Submit(u, x, at)
    BY <1>1, <2>2 DEF Threads!Next
  <2>3. CASE \E x \in rows, at \in Instants : EditOccurredAt(u, x, at)
    BY <1>0, <1>2, <2>3 DEF Threads!Next
  <2>4. CASE \E sel \in Selections : GroupNewThread(u, sel)
    BY <1>3, <1>9, <2>4 DEF Threads!Next
  <2>5. CASE \E sel \in Selections, t \in rows : GroupUnder(u, sel, t)
    BY <1>0, <1>4, <1>9, <2>5 DEF Threads!Next
  <2>6. CASE \E sel \in Selections : Ungroup(u, sel)
    BY <1>5, <1>9, <2>6 DEF Threads!Next
  <2>7. CASE \E sel \in Selections, p \in rows \cup {Null} :
                \E named \in Orders(sel) : Reorder(u, p, named)
    BY <1>0, <1>6, <1>9, <2>7 DEF Threads!Next, Threads!vars
  <2>8. CASE \E x \in rows : Delete(u, x)
    BY <1>0, <1>7, <2>8 DEF Threads!Next
  <2> QED
    BY <2>1, <2>2, <2>3, <2>4, <2>5, <2>6, <2>7, <2>8
<1> QED
  BY <1>10, <1>11

(* Reindexing, the changed-rows diff and the walks of the parent column     *)
(* implement ordered sublinks, for every table and every sequence of calls. *)
THEOREM ThreadsImplemented == Spec => ImplementsThreads
<1>1. Init => Threads!Init
  <2>1. Init => StoredBefore = {}
    BY DEF Init, StoredBefore, rows
  <2> QED
    BY <2>1 DEF Init, Threads!Init, Threads!Null, Null
<1>2. TypeOK /\ NoCycles /\ DepthWithinCap /\ [Next]_vars => [Threads!Next]_(Threads!vars)
  BY CallsImplementThreads
<1> QED
  BY <1>1, <1>2, TypeCorrect, TreeStaysAcyclic, TreeStaysShallow, PTL
     DEF Spec, ImplementsThreads, Threads!Spec
===========================================================================
