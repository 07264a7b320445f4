---------------------------- MODULE LinkThreads ---------------------------
(* What social_link_threads.py promises its readers, without positions and  *)
(* without guards that walk the tree: the sublinks of a link are in one     *)
(* order, a grouped selection leads the sublinks of its new parent in event *)
(* order, nobody else's order changes, and whatever call succeeds leaves a  *)
(* forest no deeper than the cap.  Roots have no order.                     *)
EXTENDS Integers, LinkForest

CONSTANTS Links, Instants, MAX_THREAD_DEPTH

VARIABLES
    under,   \* for every link that exists, the link it is a sublink of
    before,  \* the pairs of sublinks of one link, the earlier one first
    when     \* when the event of the link happened

vars == <<under, before, when>>

live == DOMAIN under

IsLegal(forest) ==
    /\ Acyclic(forest)
    /\ \A x \in DOMAIN forest : Depth(forest, x) <= MAX_THREAD_DEPTH

EventBefore(x, y) == when[x] < when[y] \/ (when[x] = when[y] /\ x < y)

(* The pairs of links outside S stay as they are.                           *)
Without(S) == {pair \in before : pair[1] \notin S /\ pair[2] \notin S}

Init == under = [x \in {} |-> Null] /\ before = {} /\ when = [x \in {} |-> 0]

Arrive(x, at) ==
    /\ x \in Links \ live
    /\ under' = [y \in live \cup {x} |-> IF y = x THEN Null ELSE under[y]]
    /\ when' = [y \in live \cup {x} |-> IF y = x THEN at ELSE when[y]]
    /\ UNCHANGED before

Redate(x, at) ==
    /\ when' = [when EXCEPT ![x] = at]
    /\ UNCHANGED <<under, before>>

(* The selection goes under t; a selected t becomes a root first.           *)
Nest(sel, t) ==
    LET movers == sel \ {t}
    IN  /\ under' = [x \in live |-> IF x \in movers THEN t
                                    ELSE IF x \in sel THEN Null ELSE under[x]]
        /\ before' = Without(sel)
                     \cup {pair \in movers \X movers : EventBefore(pair[1], pair[2])}
                     \cup movers \X (Children(under, t) \ sel)
        /\ IsLegal(under')
        /\ UNCHANGED when

NestUnderEarliest(sel) ==
    \E r \in sel : (\A y \in sel \ {r} : EventBefore(r, y)) /\ Nest(sel, r)

Detach(sel) ==
    /\ under' = [x \in live |-> IF x \in sel THEN Null ELSE under[x]]
    /\ before' = Without(sel)
    /\ UNCHANGED when

Permute(p, S, named) ==
    /\ S \subseteq Children(under, p)
    /\ before' = {pair \in before : pair[2] \notin S}
                 \cup {pair \in S \X S : named[pair[1]] < named[pair[2]]}
                 \cup S \X (Children(under, p) \ S)
    /\ UNCHANGED <<under, when>>

(* A deleted link leaves its sublinks behind as roots.                      *)
Vanish(x) ==
    /\ under' = [y \in live \ {x} |-> IF under[y] = x THEN Null ELSE under[y]]
    /\ before' = Without({x} \cup Children(under, x))
    /\ when' = [y \in live \ {x} |-> when[y]]

Next ==
    \/ \E x \in Links, at \in Instants : Arrive(x, at)
    \/ \E x \in live, at \in Instants : Redate(x, at)
    \/ \E sel \in (SUBSET live) \ {{}} :
          \/ NestUnderEarliest(sel)
          \/ \E t \in live \ sel : Nest(sel, t)
          \/ Detach(sel)
    \/ \E p \in live : \E S \in SUBSET Children(under, p) :
          \E named \in [S -> 1 .. Cardinality(S)] : Permute(p, S, named)
    \/ \E x \in live : Vanish(x)

Spec == Init /\ [][Next]_vars
===========================================================================
