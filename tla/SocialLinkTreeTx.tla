------------------------- MODULE SocialLinkTreeTx -------------------------
(* group, ungroup and reorder as overlapping READ COMMITTED transactions.   *)
(* A select_for_update statement finds its rows when it starts, locks them  *)
(* one by one in its ORDER BY, and reads each again once it is locked; the  *)
(* walks of the parent column lock nothing; all writes happen at the end    *)
(* and become visible when the locks are released.  A cycle of waiting      *)
(* transactions is broken by aborting one of them.  The callers are admins  *)
(* and the rows of the table are fixed.                                     *)
EXTENDS SocialLinkTree

CONSTANTS
    Txs,
    Happened,         \* occurred_at of every row
    InitialForests,   \* parent columns the transactions start from
    Calls,            \* [kind, sel, target, named]: the mutations they run
    MaxCalls          \* bound: calls that are started

(* No call creates or deletes a row here; a call with an id that does not   *)
(* exist is refused after it has locked the others, and is left out.        *)
(* _normalize_ids refuses an empty selection and one that repeats an id.    *)
ASSUME CallsAssumption ==
    \A par \in InitialForests :
        /\ DOMAIN par \subseteq Links
        /\ par \in [DOMAIN par -> DOMAIN par \cup {Null}] /\ Acyclic(par)
        /\ Happened \in [DOMAIN par -> Instants]
        /\ \A c \in Calls :
              /\ c.kind \in {"group", "ungroup", "reorder"}
              /\ c.sel \in (SUBSET DOMAIN par) \ {{}}
              /\ c.target \in DOMAIN par \cup {Null}
              /\ c.kind = "reorder" => c.named \in Orders(c.sel)

VARIABLES
    pc,        \* what the transaction does next
    call,      \* the call it runs
    want,      \* rows its current statement has found and not yet locked
    held,      \* rows it has locked
    seen,      \* the rows it has in memory: their parent and position
    base,      \* the depth the movers land under
    unread,    \* parents whose children it has still to lock
    reading,   \* the parent whose children it is locking
    started

txVars == <<parent, position, occurred_at, caller,
            pc, call, want, held, seen, base, unread, reading, started>>

table == <<parent, position, occurred_at, caller>>

NoCall == [kind |-> "none", sel |-> {}, target |-> Null, named |-> <<>>]

Movers(t) ==
    IF call[t].kind = "group" /\ call[t].target = Null
    THEN call[t].sel \ {ElectedRoot(call[t].sel)}
    ELSE call[t].sel

Target(t) ==
    IF call[t].kind = "group" /\ call[t].target = Null
    THEN ElectedRoot(call[t].sel)
    ELSE call[t].target

TxInit ==
    /\ parent \in InitialForests
    /\ position = [x \in rows |->
                     PositionStep * Cardinality(
                         {y \in rows : parent[y] = parent[x] /\ y <= x})]
    /\ occurred_at = Happened
    /\ caller \in Admins
    /\ pc = [t \in Txs |-> "idle"]
    /\ call = [t \in Txs |-> NoCall]
    /\ want = [t \in Txs |-> {}]
    /\ held = [t \in Txs |-> {}]
    /\ seen = [t \in Txs |-> <<>>]
    /\ base = [t \in Txs |-> 0]
    /\ unread = [t \in Txs |-> {}]
    /\ reading = [t \in Txs |-> Null]
    /\ started = 0

---------------------------------------------------------------------------
(* Locking.                                                                 *)

(* The selection of a grouping call is locked in (occurred_at, id) order,   *)
(* every other set in primary key order.                                    *)
LocksBefore(t, x, y) ==
    IF pc[t] = "selection" /\ call[t].kind = "group" THEN Earlier(x, y) ELSE x < y

NextLock(t) == {x \in want[t] : \A y \in want[t] \ {x} : LocksBefore(t, x, y)}

Blocks(u, t) == u # t /\ NextLock(t) \cap held[u] # {}

Reading(x) == [par |-> parent[x], pos |-> position[x]]

Remember(t, x) ==
    seen' = [seen EXCEPT ![t] =
                [y \in DOMAIN @ \cup {x} |-> IF y = x THEN Reading(x) ELSE @[y]]]

(* Slip: the siblings are read without FOR UPDATE.                          *)
LockRowNotSiblings(t, x) ==
    /\ x \in NextLock(t)
    /\ want' = [want EXCEPT ![t] = @ \ {x}]
    /\ held' = [held EXCEPT ![t] = IF pc[t] = "siblings" THEN @ ELSE @ \cup {x}]
    /\ Remember(t, x)
    /\ UNCHANGED <<table, pc, call, base, unread, reading, started>>

(* A sibling that left while the statement waited is locked, not returned.  *)
LockRow(t, x) ==
    /\ x \in NextLock(t)
    /\ ~ \E u \in Txs : Blocks(u, t)
    /\ want' = [want EXCEPT ![t] = @ \ {x}]
    /\ held' = [held EXCEPT ![t] = @ \cup {x}]
    /\ IF pc[t] = "siblings" /\ parent[x] # reading[t]
       THEN UNCHANGED seen
       ELSE Remember(t, x)
    /\ UNCHANGED <<table, pc, call, base, unread, reading, started>>

Finished(t) ==
    /\ pc' = [pc EXCEPT ![t] = "idle"]
    /\ call' = [call EXCEPT ![t] = NoCall]
    /\ held' = [held EXCEPT ![t] = {}]
    /\ want' = [want EXCEPT ![t] = {}]
    /\ seen' = [seen EXCEPT ![t] = <<>>]
    /\ unread' = [unread EXCEPT ![t] = {}]
    /\ base' = [base EXCEPT ![t] = 0]
    /\ reading' = [reading EXCEPT ![t] = Null]

(* Slip: a refused call ends without rolling its transaction back.          *)
AbortKeepingLocks(t) ==
    /\ pc' = [pc EXCEPT ![t] = "idle"]
    /\ want' = [want EXCEPT ![t] = {}]
    /\ UNCHANGED <<table, call, held, seen, base, unread, reading, started>>

Abort(t) == Finished(t) /\ UNCHANGED <<table, started>>

(* Postgres aborts a member of a set of transactions that wait in a circle. *)
DeadlockVictim(t) ==
    /\ \E S \in SUBSET Txs :
          /\ t \in S
          /\ \A u \in S : \E v \in S : Blocks(v, u)
    /\ Abort(t)

---------------------------------------------------------------------------
(* The statements of a call, in their order.                                *)

Begin(t, c) ==
    /\ pc[t] = "idle"
    /\ started < MaxCalls
    /\ started' = started + 1
    /\ call' = [call EXCEPT ![t] = c]
    /\ pc' = [pc EXCEPT ![t] = "selection"]
    /\ want' = [want EXCEPT ![t] = c.sel]
    /\ UNCHANGED <<table, held, seen, base, unread, reading>>

At(t, stage) == pc[t] = stage /\ want[t] = {}

Goto(t, stage) == pc' = [pc EXCEPT ![t] = stage]

(* Slip: the target is looked up without a lock.                            *)
AfterSelectionTargetUnlocked(t) ==
    /\ At(t, "selection")
    /\ call[t].kind = "reorder" =>
          \A x \in call[t].sel : seen[t][x].par = call[t].target
    /\ Goto(t, CASE call[t].kind = "ungroup" -> "write"
                 [] call[t].kind = "group" -> "target"
                 [] OTHER -> "heights")
    /\ UNCHANGED <<table, call, want, held, seen, base, unread, reading, started>>

(* The selection is locked: a reorder refuses rows of another parent, and a *)
(* named target is looked up.                                               *)
AfterSelection(t) ==
    /\ At(t, "selection")
    /\ call[t].kind = "reorder" =>
          \A x \in call[t].sel : seen[t][x].par = call[t].target
    /\ IF call[t].kind = "ungroup"
       THEN Goto(t, "write") /\ UNCHANGED want
       ELSE IF call[t].target # Null
            THEN Goto(t, "target") /\ want' = [want EXCEPT ![t] = {call[t].target}]
            ELSE Goto(t, IF call[t].kind = "group" THEN "target" ELSE "heights")
                 /\ UNCHANGED want
    /\ UNCHANGED <<table, call, held, seen, base, unread, reading, started>>

RefuseSelection(t) ==
    /\ At(t, "selection")
    /\ call[t].kind = "reorder"
    /\ \E x \in call[t].sel : seen[t][x].par # call[t].target
    /\ Abort(t)

(* The recursive query anchors on roots, so a row of a cycle has no chain.  *)
HasChain(x) == \E a \in Ancestors(parent, x) : parent[a] = Null

ChainAllows(t) ==
    /\ HasChain(Target(t))
    /\ Movers(t) \cap Ancestors(parent, Target(t)) = {}

ReadChain(t) ==
    /\ At(t, "target")
    /\ ChainAllows(t)
    /\ base' = [base EXCEPT ![t] =
                  IF call[t].target = Null THEN 0 ELSE Depth(parent, Target(t))]
    /\ Goto(t, "heights")
    /\ UNCHANGED <<table, call, want, held, seen, unread, reading, started>>

RefuseChain(t) == At(t, "target") /\ ~ ChainAllows(t) /\ Abort(t)

Landing(t) == IF Target(t) = Null THEN 0 ELSE base[t] + 1

HeightsAllow(t) ==
    /\ \A x \in Movers(t) : HasChain(x)
    /\ DepthAllows(parent, Movers(t), Landing(t), MAX_THREAD_DEPTH)

(* The subtree heights are read; the sibling sets of the target and of the  *)
(* parents the selection leaves are renumbered next.                        *)
ReadHeights(t) ==
    /\ At(t, "heights")
    /\ HeightsAllow(t)
    /\ unread' = [unread EXCEPT ![t] =
                    {Target(t)} \cup
                    IF call[t].kind = "reorder" THEN {}
                    ELSE {seen[t][x].par : x \in call[t].sel} \ {Null}]
    /\ Goto(t, "siblings")
    /\ UNCHANGED <<table, call, want, held, seen, base, reading, started>>

RefuseHeights(t) == At(t, "heights") /\ ~ HeightsAllow(t) /\ Abort(t)

(* One statement per sibling set, the target's first.                       *)
FindSiblings(t, p) ==
    /\ At(t, "siblings")
    /\ p \in unread[t]
    /\ Target(t) \in unread[t] => p = Target(t)
    /\ want' = [want EXCEPT ![t] = Children(parent, p) \ call[t].sel]
    /\ reading' = [reading EXCEPT ![t] = p]
    /\ unread' = [unread EXCEPT ![t] = @ \ {p}]
    /\ UNCHANGED <<table, pc, call, held, seen, base, started>>

---------------------------------------------------------------------------
(* The writes, computed from the rows in memory, and the commit.            *)

Column(t, name) == [x \in DOMAIN seen[t] |-> seen[t][x][name]]

Commit(t, par, pos) ==
    /\ parent' = [x \in rows |-> IF x \in DOMAIN par THEN par[x] ELSE parent[x]]
    /\ position' = [x \in rows |-> IF x \in DOMAIN pos THEN pos[x] ELSE position[x]]
    /\ Finished(t)
    /\ UNCHANGED <<occurred_at, caller, started>>

WriteGroup(t) ==
    LET par == Column(t, "par")
        pos == Column(t, "pos")
        sel == Movers(t) \cup (call[t].sel \cap {Target(t)})
    IN  /\ At(t, "siblings")
        /\ unread[t] = {}
        /\ call[t].kind = "group"
        /\ Commit(t, GroupedParent(par, sel, Target(t)),
                     GroupedPosition(par, pos, sel, Target(t)))

WriteReorder(t) ==
    LET pos == Column(t, "pos")
        stayers == DOMAIN seen[t] \ (call[t].sel \cup {Target(t)})
    IN  /\ At(t, "siblings")
        /\ unread[t] = {}
        /\ call[t].kind = "reorder"
        /\ Commit(t, <<>>,
                  [x \in call[t].sel \cup stayers |->
                      Reindexed(pos, NamedRank(call[t].named), stayers, x)])

WriteUngroup(t) ==
    /\ At(t, "write")
    /\ Commit(t, [x \in call[t].sel |-> Null], <<>>)

TxStep(t) ==
    \/ \E x \in rows : LockRow(t, x)
    \/ AfterSelection(t)
    \/ RefuseSelection(t)
    \/ ReadChain(t)
    \/ RefuseChain(t)
    \/ ReadHeights(t)
    \/ RefuseHeights(t)
    \/ \E p \in rows \cup {Null} : FindSiblings(t, p)
    \/ WriteGroup(t)
    \/ WriteReorder(t)
    \/ WriteUngroup(t)
    \/ DeadlockVictim(t)

TxNext ==
    \E t \in Txs : TxStep(t) \/ \E c \in Calls : Begin(t, c)

TxSpec == TxInit /\ [][TxNext]_txVars /\ \A t \in Txs : WF_txVars(TxStep(t))

---------------------------------------------------------------------------
(* Properties.                                                              *)

(* What a transaction has in memory is what the table says: no other call   *)
(* changes a row between the statement that locks it and the write, so      *)
(* _changed_rows compares with the truth and no move is overwritten.        *)
MemoryIsCurrent ==
    \A t \in Txs : \A x \in DOMAIN seen[t] : seen[t][x] = Reading(x)

(* Locks are taken in different orders on different paths, yet every call   *)
(* ends: it commits, is refused, or is aborted as a deadlock victim.        *)
EveryCallEnds == \A t \in Txs : pc[t] # "idle" ~> pc[t] = "idle"
===========================================================================
