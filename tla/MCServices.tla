----------------------------- MODULE MCServices ----------------------------
(* One model-checking instance for the services around incidents.  Apart    *)
(* from the definitions they share (LinkForest, ServiceDay) they do not     *)
(* touch each other's state, so a behaviour exercises the one in `focus'    *)
(* and leaves the others where they began: the instance is the sum of the   *)
(* services, not their product.                                             *)
EXTENDS TLC, OfficialPosts, PublicFeed, PushAlerts, TelegramEgress, CreditLedger,
        BotAccounts, LineStatus, SpottingDigest, RangeImport

VARIABLE focus

Services == {"posts", "feed", "push", "egress", "credits", "accounts", "status", "spotting", "import"}

---------------------------------------------------------------------------
(* Groupings of three links: a chain, and two sublinks of one root.         *)
MCForests == {<<0, 3, 1>>, <<3, 3, 0>>}
MCWalks == {Request(FALSE, FALSE, FALSE, "all"), Request(FALSE, FALSE, TRUE, "all"),
            Request(FALSE, TRUE, TRUE, "lastWeek"), Request(TRUE, TRUE, TRUE, "serviceDay")}

(* Two browsers of one user and one of another, a line with three           *)
(* followers and one with one; the browsers that no longer work fail in     *)
(* different ways.                                                          *)
MCLinesOf == [i \in Incidents |-> IF i = "i1" THEN {"A", "B"} ELSE {"A"}]
MCSubs == {[t \in Tokens |->
                IF t = "t1" THEN [user |-> "u1", lines |-> {"A", "B"}, modified |-> -1]
                ELSE IF t = "t2" THEN [user |-> "u1", lines |-> {"A"}, modified |-> 0]
                ELSE [user |-> "u2", lines |-> {"A"}, modified |-> -2]]}
MCBrowsers == {[t \in Tokens |-> CASE t = "t1" -> "delivered"
                                 [] t = "t2" -> "invalid"
                                 [] t = "t3" -> "unregistered"]}

(* FCM accepts every message, or refuses the one for both lines.            *)
MCPayloads == {[i \in Incidents |-> TRUE], [i \in Incidents |-> i # "i1"]}

(* Requests of one, two and three charges.                                  *)
MCPrices == {<<1>>, <<2, 1>>, <<1, 1, 2>>}
MCSeverity == <<"normal", "delay">>

(* Every trace of one bus over four instants, alone, with a row that ties,  *)
(* or next to a second bus whose key is written like one of the first's.    *)
MCTraces ==
    {{[left |-> 1, right |-> f[t], dt |-> t] : t \in {u \in DOMAIN f : f[u] # "absent"}} \cup other :
        f \in [{1, 2, 4, 6} -> {"0", "1", "null", "absent"}],
        other \in {{}, {[left |-> 1, right |-> "1", dt |-> 2]}, {[left |-> 2, right |-> "0", dt |-> 1]}}}
MCJoined == [key \in {1, 2} \X {"0", "1"} |->
                IF key \in {<<1, "1">>, <<2, "0">>} THEN "1, 1" ELSE ToString(key)]

---------------------------------------------------------------------------
(* A service out of focus begins, and stays, in one of its initial states.  *)
FeedAtRest == table = <<>>
PushAtRest ==
    /\ subs = (CHOOSE s \in InitialSubs : TRUE) /\ browser = (CHOOSE b \in Browsers : TRUE)
    /\ \A i \in Incidents : incidents[i].valid

ServicesInit ==
    /\ focus \in Services
    /\ PostsInit /\ FeedInit /\ PushInit /\ EgressInit /\ CreditInit
    /\ AccountInit /\ StatusInit /\ SpottingInit /\ ImportInit
    /\ focus # "feed" => FeedAtRest
    /\ focus # "push" => PushAtRest

servicesVars == <<focus, postsVars, feedVars, pushVars, egressVars, creditVars, accountVars,
                  statusVars, spottingVars, importVars>>

OnlyPosts == UNCHANGED <<focus, feedVars, pushVars, egressVars, creditVars, accountVars, statusVars, spottingVars, importVars>>
OnlyFeed == UNCHANGED <<focus, postsVars, pushVars, egressVars, creditVars, accountVars, statusVars, spottingVars, importVars>>
OnlyPush == UNCHANGED <<focus, postsVars, feedVars, egressVars, creditVars, accountVars, statusVars, spottingVars, importVars>>
OnlyEgress == UNCHANGED <<focus, postsVars, feedVars, pushVars, creditVars, accountVars, statusVars, spottingVars, importVars>>
OnlyCredits == UNCHANGED <<focus, postsVars, feedVars, pushVars, egressVars, accountVars, statusVars, spottingVars, importVars>>
OnlyAccounts == UNCHANGED <<focus, postsVars, feedVars, pushVars, egressVars, creditVars, statusVars, spottingVars, importVars>>
OnlyStatus == UNCHANGED <<focus, postsVars, feedVars, pushVars, egressVars, creditVars, accountVars, spottingVars, importVars>>
OnlySpotting == UNCHANGED <<focus, postsVars, feedVars, pushVars, egressVars, creditVars, accountVars, statusVars, importVars>>
OnlyImport == UNCHANGED <<focus, postsVars, feedVars, pushVars, egressVars, creditVars, accountVars, statusVars, spottingVars>>

ServicesNext ==
    \/ focus = "posts" /\ PostsNext /\ OnlyPosts
    \/ focus = "feed" /\ FeedNext /\ OnlyFeed
    \/ focus = "push" /\ PushNext /\ OnlyPush
    \/ focus = "egress" /\ EgressNext /\ OnlyEgress
    \/ focus = "credits" /\ CreditNext /\ OnlyCredits
    \/ focus = "accounts" /\ AccountNext /\ OnlyAccounts
    \/ focus = "status" /\ StatusNext /\ OnlyStatus
    \/ focus = "spotting" /\ SpottingNext /\ OnlySpotting
    \/ focus = "import" /\ ImportNext /\ OnlyImport

ServicesSpec == ServicesInit /\ [][ServicesNext]_servicesVars /\ PostsFairness

(* The state of every service stays in its type; where rows refer to rows,  *)
(* as the links of the feed do, they refer to rows that exist.              *)
ServicesTypeOK ==
    /\ PostsTypeOK /\ FeedTypeOK /\ PushTypeOK /\ EgressTypeOK /\ CreditTypeOK
    /\ AccountTypeOK /\ StatusTypeOK /\ SpottingTypeOK /\ ImportTypeOK
===========================================================================
