-------------------------- MODULE LinkForestProofs -------------------------
(* What the operators of LinkForest say about any forest, for the proofs of *)
(* the modules whose tables are forests.                                    *)
EXTENDS LinkForest, FiniteSetTheorems, WellFoundedInduction, TLAPS

(* A parent_id column in which every reference is to a row of the table.    *)
IsForest(par) ==
    /\ par = [x \in DOMAIN par |-> par[x]]
    /\ Null \notin DOMAIN par
    /\ \A x \in DOMAIN par : par[x] \in DOMAIN par \cup {Null}

(* Every nonempty set of naturals has a least element.                      *)
LEMMA NatMinimum ==
    ASSUME NEW T \in SUBSET Nat, T # {}
    PROVE  \E m \in T : \A n \in T : m <= n
<1>1. PICK m \in T : \A n \in T : ~ (<<n, m>> \in OpToRel(<, Nat))
  BY NatLessThanWellFounded, WFMin
<1>2. \A n \in T : ~ (n < m)
  BY <1>1 DEF OpToRel
<1> QED
  BY <1>2

(* A row is one of its own ancestors, and every ancestor is a row.          *)
LEMMA AncestorsReflexive ==
    ASSUME NEW par, NEW t \in DOMAIN par
    PROVE  t \in Ancestors(par, t)
BY DEF Ancestors

(* The walk up stays in the table.                                          *)
LEMMA AncestorsAreRows ==
    ASSUME NEW par, NEW t
    PROVE  Ancestors(par, t) \subseteq DOMAIN par
BY DEF Ancestors

(* The ancestors of a row are the least closed set it is in: they are in    *)
(* every other, and closed themselves.                                      *)
LEMMA AncestorsLeast ==
    ASSUME NEW par, NEW t, NEW S \in SUBSET DOMAIN par, t \in S, IsClosedUpwards(par, S)
    PROVE  Ancestors(par, t) \subseteq S
BY DEF Ancestors

(* The walk up reaches the parent of whatever it reaches.                   *)
LEMMA AncestorsClosed ==
    ASSUME NEW par, NEW t, \A x \in DOMAIN par : par[x] \in DOMAIN par \cup {Null}
    PROVE  IsClosedUpwards(par, Ancestors(par, t))
<1> SUFFICES ASSUME NEW a \in Ancestors(par, t), par[a] # Null
             PROVE  par[a] \in Ancestors(par, t)
  BY DEF IsClosedUpwards
<1>1. a \in DOMAIN par /\ par[a] \in DOMAIN par
  BY DEF Ancestors
<1>2. ASSUME NEW S \in SUBSET DOMAIN par, t \in S, IsClosedUpwards(par, S)
      PROVE  par[a] \in S
  <2>1. a \in S
    BY <1>2 DEF Ancestors
  <2> QED
    BY <2>1, <1>2 DEF IsClosedUpwards
<1> QED
  BY <1>1, <1>2 DEF Ancestors

(* What is above a row of the chain is on the chain.                        *)
LEMMA AncestorsTransitive ==
    ASSUME NEW par, IsForest(par), NEW t, NEW a \in Ancestors(par, t)
    PROVE  Ancestors(par, a) \subseteq Ancestors(par, t)
BY AncestorsAreRows, AncestorsClosed, AncestorsLeast DEF IsForest

(* The chain of a row is the row and the chain of its parent.               *)
LEMMA AncestorsStep ==
    ASSUME NEW par, IsForest(par), NEW t \in DOMAIN par
    PROVE  Ancestors(par, t) =
              {t} \cup (IF par[t] = Null THEN {} ELSE Ancestors(par, par[t]))
<1> DEFINE S == {t} \cup (IF par[t] = Null THEN {} ELSE Ancestors(par, par[t]))
<1>1. S \subseteq DOMAIN par
  BY AncestorsAreRows
<1>2. IsClosedUpwards(par, S)
  <2>1. CASE par[t] = Null
    BY <2>1 DEF IsClosedUpwards
  <2>2. CASE par[t] # Null
    <3>1. par[t] \in Ancestors(par, par[t])
      BY <2>2, AncestorsReflexive DEF IsForest
    <3>2. IsClosedUpwards(par, Ancestors(par, par[t]))
      BY AncestorsClosed DEF IsForest
    <3> QED
      BY <2>2, <3>1, <3>2 DEF IsClosedUpwards
  <2> QED
    BY <2>1, <2>2
<1>3. Ancestors(par, t) \subseteq S
  BY <1>1, <1>2, AncestorsLeast
<1>4. t \in Ancestors(par, t)
  BY AncestorsReflexive
<1>5. ASSUME par[t] # Null
      PROVE  Ancestors(par, par[t]) \subseteq Ancestors(par, t)
  <2>1. par[t] \in Ancestors(par, t)
    BY <1>4, <1>5, AncestorsClosed DEF IsForest, IsClosedUpwards
  <2> QED
    BY <2>1, AncestorsTransitive
<1> QED
  BY <1>3, <1>4, <1>5

(* A row is in its own subtree, and its children's subtrees are.            *)
LEMMA SubtreeReflexive ==
    ASSUME NEW par, NEW x \in DOMAIN par
    PROVE  x \in Subtree(par, x)
BY AncestorsReflexive DEF Subtree

(* The walk down reaches the sublinks of whatever it reaches.               *)
LEMMA SubtreeDescends ==
    ASSUME NEW par, IsForest(par), NEW x, NEW d \in DOMAIN par,
           par[d] \in Subtree(par, x)
    PROVE  d \in Subtree(par, x)
<1>1. par[d] # Null /\ x \in Ancestors(par, par[d])
  BY DEF Subtree, IsForest
<1> QED
  BY <1>1, AncestorsStep DEF Subtree

(* Whoever is below a row, but for the row, has a parent below it.          *)
LEMMA SubtreeAscends ==
    ASSUME NEW par, IsForest(par), NEW x, NEW d \in Subtree(par, x), d # x
    PROVE  par[d] # Null /\ par[d] \in Subtree(par, x)
<1>1. d \in DOMAIN par /\ x \in Ancestors(par, d)
  BY DEF Subtree
<1>2. par[d] # Null /\ x \in Ancestors(par, par[d])
  BY <1>1, AncestorsStep
<1> QED
  BY <1>1, <1>2 DEF Subtree, IsForest

(* In a forest without cycles a parent is not below its child.              *)
LEMMA NoRowAboveItself ==
    ASSUME NEW par, IsForest(par), Acyclic(par), NEW t \in DOMAIN par, par[t] # Null
    PROVE  t \notin Ancestors(par, par[t])
<1> SUFFICES ASSUME t \in Ancestors(par, par[t])
             PROVE  FALSE
  OBVIOUS
<1> DEFINE L == Subtree(par, t) \cap Ancestors(par, par[t])
<1>1. L \subseteq DOMAIN par /\ t \in L
  BY SubtreeReflexive, AncestorsAreRows
<1>2. par[t] \in L
  <2>1. par[t] \in DOMAIN par
    BY DEF IsForest
  <2> QED
    BY <2>1, AncestorsReflexive DEF Subtree
<1>3. ASSUME NEW d \in L, d # t
      PROVE  par[d] \in L
  <2>1. par[d] # Null /\ par[d] \in Subtree(par, t)
    BY <1>3, SubtreeAscends
  <2> QED
    BY <2>1, AncestorsClosed DEF IsForest, IsClosedUpwards
<1> QED
  BY <1>1, <1>2, <1>3 DEF Acyclic

(* Two rows of one chain are one above the other, and not both ways.        *)
LEMMA AncestorsLinear ==
    ASSUME NEW par, IsForest(par), NEW t \in DOMAIN par,
           NEW a \in Ancestors(par, t), NEW b \in Ancestors(par, t)
    PROVE  a \in Ancestors(par, b) \/ b \in Ancestors(par, a)
<1> DEFINE L == {x \in Ancestors(par, t) :
                   a \in Ancestors(par, x) \/ x \in Ancestors(par, a)}
<1>1. L \subseteq DOMAIN par /\ t \in L
  BY AncestorsAreRows, AncestorsReflexive
<1>2. ASSUME NEW x \in L, par[x] # Null
      PROVE  par[x] \in L
  <2>1. par[x] \in Ancestors(par, t) /\ x \in DOMAIN par
    BY <1>1, <1>2, AncestorsClosed DEF IsForest, IsClosedUpwards
  <2>2. CASE x \in Ancestors(par, a)
    BY <1>2, <2>1, <2>2, AncestorsClosed DEF IsForest, IsClosedUpwards
  <2>3. CASE a \in Ancestors(par, x) /\ a # x
    <3>1. a \in Ancestors(par, par[x])
      BY <1>2, <2>1, <2>3, AncestorsStep
    <3> QED
      BY <2>1, <3>1
  <2>4. CASE a = x
    <3>1. a \in Ancestors(par, a)
      BY <2>1, <2>4, AncestorsReflexive
    <3> QED
      BY <2>2, <2>4, <3>1
  <2> QED
    BY <2>2, <2>3, <2>4
<1>3. Ancestors(par, t) \subseteq L
  <2>1. IsClosedUpwards(par, L)
    BY <1>2 DEF IsClosedUpwards
  <2> HIDE DEF L
  <2> QED
    BY <1>1, <2>1, AncestorsLeast
<1> QED
  BY <1>3

(* Without cycles two rows are not above each other.                        *)
LEMMA AncestorsAntisymmetric ==
    ASSUME NEW par, IsForest(par), Acyclic(par), NEW a, NEW b,
           a \in Ancestors(par, b), b \in Ancestors(par, a)
    PROVE  a = b
<1> SUFFICES ASSUME a # b PROVE FALSE
  OBVIOUS
<1>1. a \in DOMAIN par /\ b \in DOMAIN par
  BY AncestorsAreRows
<1>2. par[a] # Null /\ b \in Ancestors(par, par[a])
  BY <1>1, AncestorsStep
<1>3. a \in Ancestors(par, par[a])
  BY <1>2, AncestorsTransitive
<1> QED
  BY <1>1, <1>2, <1>3, NoRowAboveItself

---------------------------------------------------------------------------
(* What a change of the parent column does to the chains.                   *)

(* A chain on which no parent changes stays what it was.                    *)
LEMMA AncestorsAgree ==
    ASSUME NEW par, NEW new, IsForest(par), IsForest(new),
           NEW t \in DOMAIN par, Ancestors(par, t) \subseteq DOMAIN new,
           \A x \in Ancestors(par, t) : new[x] = par[x]
    PROVE  Ancestors(new, t) = Ancestors(par, t)
<1> DEFINE A == Ancestors(par, t)
           B == Ancestors(new, t)
<1>1. t \in A /\ IsClosedUpwards(par, A)
  BY AncestorsReflexive, AncestorsClosed DEF IsForest
<1>2. B \subseteq A
  <2>1. IsClosedUpwards(new, A) /\ A \in SUBSET DOMAIN new
    BY <1>1 DEF IsClosedUpwards
  <2> HIDE DEF A
  <2> QED
    BY <1>1, <2>1, AncestorsLeast
<1>3. A \subseteq B
  <2>1. t \in B /\ IsClosedUpwards(new, B)
    BY <1>1, AncestorsReflexive, AncestorsClosed DEF IsForest
  <2>2. IsClosedUpwards(par, B) /\ B \in SUBSET DOMAIN par
    BY <1>2, <2>1, AncestorsAreRows DEF IsClosedUpwards
  <2> HIDE DEF B
  <2> QED
    BY <2>1, <2>2, AncestorsLeast
<1> QED
  BY <1>2, <1>3

(* Rows that are removed, or become roots, only shorten chains.             *)
LEMMA AncestorsShrink ==
    ASSUME NEW par, NEW new, IsForest(par), IsForest(new),
           DOMAIN new \subseteq DOMAIN par, NEW t \in DOMAIN new,
           \A x \in Ancestors(par, t) \cap DOMAIN new : new[x] \in {par[x], Null}
    PROVE  Ancestors(new, t) \subseteq Ancestors(par, t)
<1> DEFINE A == Ancestors(par, t) \cap DOMAIN new
<1>1. t \in A /\ IsClosedUpwards(par, Ancestors(par, t))
  BY AncestorsReflexive, AncestorsClosed DEF IsForest
<1>2. IsClosedUpwards(new, A)
  BY <1>1 DEF IsClosedUpwards, IsForest
<1> HIDE DEF A
<1>3. Ancestors(new, t) \subseteq A
  BY <1>1, <1>2, AncestorsLeast DEF A
<1> QED
  BY <1>3 DEF A

---------------------------------------------------------------------------
(* Depths in a finite forest.                                               *)

(* In a finite table the depth of a row is a natural number, one less than  *)
(* the length of its walk up.                                               *)
LEMMA DepthIsNatural ==
    ASSUME NEW par, IsFiniteSet(DOMAIN par), NEW t \in DOMAIN par
    PROVE  /\ IsFiniteSet(Ancestors(par, t))
           /\ Cardinality(Ancestors(par, t)) = Depth(par, t) + 1
           /\ Depth(par, t) \in Nat
<1>1. Ancestors(par, t) \in SUBSET DOMAIN par
  BY AncestorsAreRows
<1>2. IsFiniteSet(Ancestors(par, t)) /\ Cardinality(Ancestors(par, t)) \in Nat
  BY <1>1, FS_Subset, FS_CardinalityType
<1>3. Cardinality(Ancestors(par, t)) # 0
  BY <1>2, AncestorsReflexive, FS_EmptySet
<1> QED
  BY <1>2, <1>3 DEF Depth

(* A chain within another is no deeper.                                     *)
LEMMA DepthMonotone ==
    ASSUME NEW par, NEW new, IsFiniteSet(DOMAIN par), NEW d \in DOMAIN par,
           NEW t \in DOMAIN new, Ancestors(new, t) \subseteq Ancestors(par, d)
    PROVE  Depth(new, t) <= Depth(par, d)
<1>1. IsFiniteSet(Ancestors(par, d)) /\ Cardinality(Ancestors(par, d)) \in Nat
  BY DepthIsNatural
<1>2. /\ Cardinality(Ancestors(new, t)) <= Cardinality(Ancestors(par, d))
      /\ Cardinality(Ancestors(new, t)) \in Nat
  BY <1>1, FS_Subset, FS_CardinalityType
<1> QED
  BY <1>1, <1>2 DEF Depth

(* A root is its only ancestor and lies at depth zero.                      *)
LEMMA RootDepth ==
    ASSUME NEW par, IsForest(par), NEW t \in DOMAIN par, par[t] = Null
    PROVE  Ancestors(par, t) = {t} /\ Depth(par, t) = 0
<1>1. Ancestors(par, t) = {t}
  BY AncestorsStep
<1>2. Cardinality({t}) = 1
  BY FS_Singleton
<1> QED
  BY <1>1, <1>2 DEF Depth

(* A child is one level below its parent.                                   *)
LEMMA ChildDepth ==
    ASSUME NEW par, IsForest(par), Acyclic(par), IsFiniteSet(DOMAIN par),
           NEW t \in DOMAIN par, par[t] # Null
    PROVE  Depth(par, t) = Depth(par, par[t]) + 1
<1>1. par[t] \in DOMAIN par
  BY DEF IsForest
<1>2. Ancestors(par, t) = Ancestors(par, par[t]) \cup {t}
  BY AncestorsStep
<1>3. t \notin Ancestors(par, par[t])
  BY NoRowAboveItself
<1>4. IsFiniteSet(Ancestors(par, par[t])) /\ Cardinality(Ancestors(par, par[t])) \in Nat
  BY <1>1, DepthIsNatural
<1>5. Cardinality(Ancestors(par, t)) = Cardinality(Ancestors(par, par[t])) + 1
  BY <1>2, <1>3, <1>4, FS_AddElement
<1> QED
  BY <1>4, <1>5 DEF Depth

(* Wherever rows are moved to t, a row that hangs below one of them, m,     *)
(* ends at most as deep as t and the way from m down to the row make it.    *)
LEMMA MovedDepth ==
    ASSUME NEW par, NEW new, NEW movers, NEW t \in DOMAIN par, NEW d \in DOMAIN par,
           NEW m \in movers \cap Ancestors(par, d),
           IsForest(par), Acyclic(par), IsForest(new), DOMAIN new = DOMAIN par,
           IsFiniteSet(DOMAIN par),
           \A x \in DOMAIN par : new[x] = IF x \in movers THEN t
                                          ELSE IF x = t THEN new[t] ELSE par[x]
    PROVE  Depth(new, d) <= Depth(new, t) + 1 + Depth(par, d) - Depth(par, m)
<1> DEFINE below == Ancestors(par, d) \ (Ancestors(par, m) \ {m})
           A == Ancestors(new, t) \cup below
<1>1. m \in DOMAIN par /\ Ancestors(par, m) \subseteq Ancestors(par, d)
  BY AncestorsAreRows, AncestorsTransitive
<1>2. t \in Ancestors(new, t) /\ IsClosedUpwards(new, Ancestors(new, t))
  BY AncestorsReflexive, AncestorsClosed DEF IsForest
<1>3. d \in A
  <2>1. d \in Ancestors(par, d)
    BY AncestorsReflexive
  <2>2. d \in Ancestors(par, m) => d = m
    BY AncestorsAntisymmetric
  <2> QED
    BY <2>1, <2>2
<1>4. ASSUME NEW x \in below
      PROVE  new[x] \in A \cup {Null}
  <2>0. x \in DOMAIN par /\ x \in Ancestors(par, d)
    BY AncestorsAreRows
  <2>1. CASE x \in movers
    BY <1>2, <2>0, <2>1
  <2>2. CASE x = t
    BY <1>2, <2>2 DEF IsClosedUpwards
  <2>3. CASE x \notin movers /\ x # t
    <3>1. new[x] = par[x] /\ x # m
      BY <2>0, <2>3
    <3>2. m \in Ancestors(par, x)
      <4>1. x \notin Ancestors(par, m)
        BY <3>1
      <4> QED
        BY <2>0, <4>1, AncestorsLinear
    <3>3. par[x] # Null /\ m \in Ancestors(par, par[x])
      BY <2>0, <3>1, <3>2, AncestorsStep
    <3>4. par[x] \in Ancestors(par, d)
      BY <2>0, <3>3, AncestorsClosed DEF IsForest, IsClosedUpwards
    <3>5. par[x] \in Ancestors(par, m) => par[x] = m
      BY <3>3, AncestorsAntisymmetric
    <3> QED
      BY <3>1, <3>4, <3>5
  <2> QED
    BY <2>1, <2>2, <2>3
<1>5. Ancestors(new, d) \subseteq A
  <2>1. A \in SUBSET DOMAIN new
    BY AncestorsAreRows
  <2>2. IsClosedUpwards(new, A)
    BY <1>2, <1>4 DEF IsClosedUpwards
  <2> HIDE DEF A
  <2> QED
    BY <1>3, <2>1, <2>2, AncestorsLeast
<1>6. /\ IsFiniteSet(Ancestors(new, t)) /\ IsFiniteSet(Ancestors(par, d))
      /\ IsFiniteSet(Ancestors(par, m))
      /\ Cardinality(Ancestors(new, t)) = Depth(new, t) + 1 /\ Depth(new, t) \in Nat
      /\ Cardinality(Ancestors(par, d)) = Depth(par, d) + 1 /\ Depth(par, d) \in Nat
      /\ Cardinality(Ancestors(par, m)) = Depth(par, m) + 1 /\ Depth(par, m) \in Nat
  BY <1>1, DepthIsNatural
<1>7. /\ IsFiniteSet(below)
      /\ Cardinality(below) = Depth(par, d) + 1 - Depth(par, m)
  <2> DEFINE above == Ancestors(par, m) \ {m}
  <2>1. m \in Ancestors(par, m)
    BY <1>1, AncestorsReflexive
  <2>2. IsFiniteSet(above) /\ Cardinality(above) = Depth(par, m)
    <3>1. Cardinality(above) = Cardinality(Ancestors(par, m)) - 1
      BY <1>6, <2>1, FS_RemoveElement
    <3>2. IsFiniteSet(above)
      BY <1>6, FS_RemoveElement
    <3> HIDE DEF above
    <3> QED
      BY <1>6, <3>1, <3>2
  <2>3. above \in SUBSET Ancestors(par, d)
    BY <1>1
  <2>4. IsFiniteSet(below) /\ Cardinality(below) \in Nat
    BY <1>6, FS_Subset, FS_CardinalityType
  <2>5. below \cup above = Ancestors(par, d) /\ below \cap above = {}
    BY <2>3
  <2>6. Cardinality(Ancestors(par, d)) = Cardinality(below) + Cardinality(above) - 0
    BY <2>2, <2>4, <2>5, FS_Union, FS_EmptySet
  <2> HIDE DEF below, above
  <2> QED
    BY <1>6, <2>2, <2>4, <2>6
<1>8. /\ IsFiniteSet(A)
      /\ Cardinality(A) <= Depth(new, t) + 1 + Depth(par, d) + 1 - Depth(par, m)
  <2> HIDE DEF below
  <2>1. /\ IsFiniteSet(A)
        /\ Cardinality(A) = Cardinality(Ancestors(new, t)) + Cardinality(below)
                               - Cardinality(Ancestors(new, t) \cap below)
    BY <1>6, <1>7, FS_Union
  <2>2. Cardinality(Ancestors(new, t) \cap below) \in Nat
    BY <1>6, FS_Intersection, FS_CardinalityType
  <2> HIDE DEF A
  <2> QED
    BY <1>6, <1>7, <2>1, <2>2
<1>9. Cardinality(Ancestors(new, d)) <= Cardinality(A) /\ Cardinality(A) \in Nat
      /\ Cardinality(Ancestors(new, d)) = Depth(new, d) + 1 /\ Depth(new, d) \in Nat
  <2> HIDE DEF A
  <2> QED
    BY <1>5, <1>8, FS_Subset, FS_CardinalityType, DepthIsNatural
<1> HIDE DEF A
<1> QED
  BY <1>6, <1>8, <1>9
============================================================================
