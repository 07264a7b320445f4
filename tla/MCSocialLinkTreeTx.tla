------------------------ MODULE MCSocialLinkTreeTx ------------------------
(* TLC instance of SocialLinkTreeTx: two threads of two links, and a thread *)
(* of three sublinks.                                                       *)
EXTENDS SocialLinkTreeTx, SequencesExt

CONSTANT admin

MCOwner == [x \in Links |-> CHOOSE u \in Users : TRUE]

TwoThreads == [x \in Links |-> IF x % 2 = 0 THEN x - 1 ELSE Null]
OneThread == [x \in Links |-> IF x = 1 THEN Null ELSE 1]
MCForests == {TwoThreads, OneThread}

(* The younger link has the later key, so the lock orders disagree.         *)
MCHappened == [x \in Links |-> 5 - x]

MCSelections == {{x} : x \in Links} \cup {{1, 2}, {2, 3}, {3, 4}}

Groups ==
    [kind : {"group"}, sel : MCSelections, target : Links \cup {Null}, named : {<<>>}]
Ungroups ==
    [kind : {"ungroup"}, sel : MCSelections, target : {Null}, named : {<<>>}]
Reorders ==
    {[kind |-> "reorder", sel |-> ToSet(n), target |-> p, named |-> n] :
        p \in {Null, 1}, n \in {<<3, 1>>, <<4, 2>>, <<3, 2>>}}
MCCalls == Groups \cup Ungroups \cup Reorders
===========================================================================
