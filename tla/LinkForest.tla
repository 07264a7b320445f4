---------------------------- MODULE LinkForest ----------------------------
(* A column of references to the same table (SocialMediaLink.parent,        *)
(* CalendarIncident.parent_incident) read as a forest, and the questions    *)
(* social_link_threads.py asks of it.  A forest is a function `par' whose   *)
(* domain is the set of rows: par[x] is the parent_id of row x, Null for a  *)
(* root.  Every operator takes the forest as an argument, because a         *)
(* transaction asks these questions of a table other transactions change.   *)
EXTENDS Naturals, FiniteSets

Null == 0

Children(par, p) == {x \in DOMAIN par : par[x] = p}

(* A set of rows that contains the parents of its members. *)
IsClosedUpwards(par, S) == \A x \in S : par[x] \in S \cup {Null}

(* The rows from t's root down to t itself: the least set that contains t   *)
(* and is closed under taking parents.                                      *)
Ancestors(par, t) ==
    {a \in DOMAIN par :
        \A S \in SUBSET DOMAIN par :
            t \in S /\ IsClosedUpwards(par, S) => a \in S}

Subtree(par, x) == {d \in DOMAIN par : x \in Ancestors(par, d)}

(* tree_depth: a root is at depth 0. *)
Depth(par, t) == Cardinality(Ancestors(par, t)) - 1

(* No row of `movers' brings a subtree that would end below `cap' when the  *)
(* mover lands one level under `base'.                                      *)
DepthAllows(par, movers, landing, cap) ==
    \A x \in movers : \A d \in Subtree(par, x) :
        landing + Depth(par, d) - Depth(par, x) <= cap

(* Every set of rows has a member whose parent is outside it: nobody is its *)
(* own ancestor.                                                            *)
Acyclic(par) ==
    \A S \in SUBSET DOMAIN par : S # {} => \E x \in S : par[x] \notin S
===========================================================================
