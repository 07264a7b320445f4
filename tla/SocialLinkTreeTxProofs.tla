---------------------- MODULE SocialLinkTreeTxProofs ----------------------
(* What the row locks of group, ungroup and reorder are for: nobody writes  *)
(* a row that another transaction has in memory, siblings never tie, and    *)
(* overlapping calls write what they would write alone.                     *)
EXTENDS SocialLinkTreeTx, SocialLinkTreeProofs

(* The calls of CallsAssumption, about the rows the table has now.          *)
CallsNameRows ==
    \A c \in Calls :
        /\ c.kind \in {"group", "ungroup", "reorder"}
        /\ c.sel \subseteq rows /\ c.sel # {}
        /\ c.target \in rows \cup {Null}
        /\ c.kind = "reorder" => c.named \in Orders(c.sel)

TxTypes ==
    /\ pc \in [Txs -> {"idle", "selection", "target", "heights", "siblings", "write"}]
    /\ call \in [Txs -> Calls \cup {NoCall}]
    /\ want \in [Txs -> SUBSET rows]
    /\ held \in [Txs -> SUBSET rows]
    /\ DOMAIN seen = Txs

LocksExclude == \A t, u \in Txs : t # u => held[t] \cap held[u] = {}

(* A transaction remembers only rows it has locked.                         *)
MemoryIsLocked == \A t \in Txs : DOMAIN seen[t] \subseteq held[t]

(* The selection is being locked, and is locked from the next statement on. *)
SelectionIsLocked ==
    \A t \in Txs :
        /\ pc[t] # "idle" => call[t] \in Calls /\ call[t].sel \subseteq held[t] \cup want[t]
        /\ pc[t] \in {"target", "heights", "siblings", "write"} =>
              call[t].sel \subseteq held[t]

LockInv ==
    /\ CallsNameRows
    /\ TxTypes
    /\ LocksExclude
    /\ MemoryIsLocked
    /\ SelectionIsLocked
    /\ MemoryIsCurrent

---------------------------------------------------------------------------
(* The steps that leave the table alone.                                    *)

(* The next row is locked: no other transaction holds it, and what is       *)
(* remembered of it is what the table says now.                             *)
LEMMA LockRowKeepsLocks ==
    ASSUME LockInv, NEW t \in Txs, NEW x \in rows, LockRow(t, x)
    PROVE  LockInv'
<1>1. x \in want[t] /\ \A u \in Txs : u # t => x \notin held[u]
  BY DEF LockRow, NextLock, Blocks
<1>2. /\ want' = [want EXCEPT ![t] = @ \ {x}]
      /\ held' = [held EXCEPT ![t] = @ \cup {x}]
      /\ pc' = pc /\ call' = call /\ parent' = parent /\ position' = position
      /\ rows' = rows
  BY DEF LockRow, table, rows
<1>3. /\ DOMAIN seen' = Txs
      /\ \A u \in Txs : u # t => seen'[u] = seen[u]
      /\ DOMAIN seen'[t] \subseteq DOMAIN seen[t] \cup {x}
      /\ \A y \in DOMAIN seen'[t] :
            seen'[t][y] = Reading(y) \/ (y \in DOMAIN seen[t] /\ seen'[t][y] = seen[t][y])
  <2>1. CASE UNCHANGED seen
    BY <2>1 DEF LockInv, TxTypes
  <2>2. CASE Remember(t, x)
    <3> DEFINE m == [y \in DOMAIN seen[t] \cup {x} |->
                       IF y = x THEN Reading(x) ELSE seen[t][y]]
    <3>1. seen' = [seen EXCEPT ![t] = m] /\ DOMAIN seen = Txs
      BY <2>2 DEF LockInv, TxTypes, Remember
    <3>2. /\ DOMAIN m = DOMAIN seen[t] \cup {x}
          /\ m[x] = Reading(x)
          /\ \A y \in DOMAIN seen[t] : y # x => m[y] = seen[t][y]
      OBVIOUS
    <3> HIDE DEF m
    <3>3. seen'[t] = m /\ DOMAIN seen' = Txs /\ \A u \in Txs : u # t => seen'[u] = seen[u]
      BY <3>1
    <3>4. \A y \in DOMAIN m : m[y] = Reading(y) \/ (y \in DOMAIN seen[t] /\ m[y] = seen[t][y])
      BY <3>2
    <3> QED
      BY <3>2, <3>3, <3>4
  <2> QED
    BY <2>1, <2>2 DEF LockRow
<1>4. CallsNameRows'
  BY <1>2 DEF LockInv, CallsNameRows
<1>5. TxTypes'
  BY <1>2, <1>3 DEF LockInv, TxTypes
<1>6. LocksExclude'
  BY <1>1, <1>2 DEF LockInv, LocksExclude, TxTypes
<1>7. MemoryIsLocked'
  BY <1>2, <1>3 DEF LockInv, MemoryIsLocked, TxTypes
<1>8. SelectionIsLocked'
  BY <1>1, <1>2 DEF LockInv, SelectionIsLocked, TxTypes
<1>9. MemoryIsCurrent'
  BY <1>2, <1>3 DEF LockInv, MemoryIsCurrent, Reading, TxTypes
<1> QED
  BY <1>4, <1>5, <1>6, <1>7, <1>8, <1>9 DEF LockInv

(* A transaction that ends keeps no lock and no memory.                     *)
LEMMA AbortKeepsLocks ==
    ASSUME LockInv, NEW t \in Txs, Abort(t)
    PROVE  LockInv'
<1>1. /\ pc' = [pc EXCEPT ![t] = "idle"]
      /\ call' = [call EXCEPT ![t] = NoCall]
      /\ held' = [held EXCEPT ![t] = {}]
      /\ want' = [want EXCEPT ![t] = {}]
      /\ seen' = [seen EXCEPT ![t] = <<>>]
      /\ parent' = parent /\ position' = position /\ rows' = rows
  BY DEF Abort, Finished, table, rows
<1>2. CallsNameRows' /\ TxTypes'
  BY <1>1 DEF LockInv, CallsNameRows, TxTypes
<1>3. LocksExclude' /\ MemoryIsLocked'
  BY <1>1 DEF LockInv, LocksExclude, MemoryIsLocked, TxTypes
<1>4. SelectionIsLocked'
  BY <1>1 DEF LockInv, SelectionIsLocked, TxTypes
<1>5. MemoryIsCurrent'
  BY <1>1 DEF LockInv, MemoryIsCurrent, Reading, TxTypes
<1> QED
  BY <1>2, <1>3, <1>4, <1>5 DEF LockInv

(* A call that begins holds nothing.                                        *)
LEMMA BeginKeepsLocks ==
    ASSUME LockInv, NEW t \in Txs, NEW c \in Calls, Begin(t, c)
    PROVE  LockInv'
<1>1. /\ call' = [call EXCEPT ![t] = c]
      /\ pc' = [pc EXCEPT ![t] = "selection"]
      /\ want' = [want EXCEPT ![t] = c.sel]
      /\ held' = held /\ seen' = seen
      /\ parent' = parent /\ position' = position /\ rows' = rows
  BY DEF Begin, table, rows
<1>2. c.sel \subseteq rows
  BY DEF LockInv, CallsNameRows
<1>3. CallsNameRows' /\ TxTypes'
  BY <1>1, <1>2 DEF LockInv, CallsNameRows, TxTypes
<1>4. LocksExclude' /\ MemoryIsLocked' /\ MemoryIsCurrent'
  BY <1>1 DEF LockInv, LocksExclude, MemoryIsLocked, MemoryIsCurrent, Reading
<1>5. SelectionIsLocked'
  BY <1>1 DEF LockInv, SelectionIsLocked, TxTypes
<1> QED
  BY <1>3, <1>4, <1>5 DEF LockInv

(* Going on to the next statement: the selection has been locked.           *)
LEMMA StatementKeepsLocks ==
    ASSUME LockInv, NEW t \in Txs,
           AfterSelection(t) \/ ReadChain(t) \/ ReadHeights(t)
             \/ \E p \in rows \cup {Null} : FindSiblings(t, p)
    PROVE  LockInv'
<1>1. /\ held' = held /\ seen' = seen /\ call' = call
      /\ parent' = parent /\ position' = position /\ rows' = rows
  BY DEF AfterSelection, ReadChain, ReadHeights, FindSiblings, table, rows
<1>2. pc[t] \in {"selection", "target", "heights", "siblings"}
  BY DEF AfterSelection, ReadChain, ReadHeights, FindSiblings, At
<1>3. call[t] \in Calls /\ call[t].sel \subseteq held[t]
  <2>1. call[t] \in Calls /\ call[t].sel \subseteq held[t] \cup want[t]
    BY <1>2 DEF LockInv, SelectionIsLocked
  <2>2. pc[t] = "selection" => want[t] = {}
    BY DEF AfterSelection, ReadChain, ReadHeights, FindSiblings, At
  <2> QED
    BY <1>2, <2>1, <2>2 DEF LockInv, SelectionIsLocked
<1>4. /\ pc' \in [Txs -> {"idle", "selection", "target", "heights", "siblings", "write"}]
      /\ want' \in [Txs -> SUBSET rows]
      /\ \A u \in Txs : u # t => pc'[u] = pc[u] /\ want'[u] = want[u]
  <2>1. call[t].target # Null => {call[t].target} \subseteq rows
    BY <1>3 DEF LockInv, CallsNameRows
  <2>2. CASE AfterSelection(t)
    BY <2>1, <2>2 DEF AfterSelection, Goto, LockInv, TxTypes
  <2>3. CASE ReadChain(t)
    BY <2>3 DEF ReadChain, Goto, LockInv, TxTypes
  <2>4. CASE ReadHeights(t)
    BY <2>4 DEF ReadHeights, Goto, LockInv, TxTypes
  <2>5. ASSUME NEW p, FindSiblings(t, p)
        PROVE  <1>4!1 /\ <1>4!2 /\ <1>4!3
    BY <2>5 DEF FindSiblings, Children, LockInv, TxTypes, rows
  <2> QED
    BY <2>2, <2>3, <2>4, <2>5
<1>5. CallsNameRows' /\ TxTypes'
  BY <1>1, <1>4 DEF LockInv, CallsNameRows, TxTypes
<1>6. LocksExclude' /\ MemoryIsLocked' /\ MemoryIsCurrent'
  BY <1>1 DEF LockInv, LocksExclude, MemoryIsLocked, MemoryIsCurrent, Reading
<1>7. SelectionIsLocked'
  BY <1>1, <1>3, <1>4 DEF LockInv, SelectionIsLocked
<1> QED
  BY <1>5, <1>6, <1>7 DEF LockInv

---------------------------------------------------------------------------
(* The writes.                                                              *)

(* A commit that writes only rows it has locked changes nothing that        *)
(* another transaction remembers, and its own memory ends with it.          *)
LEMMA CommitKeepsLocks ==
    ASSUME LockInv, NEW t \in Txs, NEW par, NEW pos,
           DOMAIN par \subseteq held[t], DOMAIN pos \subseteq held[t],
           Commit(t, par, pos)
    PROVE  LockInv'
<1>1. /\ pc' = [pc EXCEPT ![t] = "idle"]
      /\ call' = [call EXCEPT ![t] = NoCall]
      /\ held' = [held EXCEPT ![t] = {}]
      /\ want' = [want EXCEPT ![t] = {}]
      /\ seen' = [seen EXCEPT ![t] = <<>>]
  BY DEF Commit, Finished
<1>2. rows' = rows
  BY DEF Commit, rows
<1>3. \A x \in rows \ held[t] : parent'[x] = parent[x] /\ position'[x] = position[x]
  BY DEF Commit
<1>4. CallsNameRows' /\ TxTypes'
  BY <1>1, <1>2 DEF LockInv, CallsNameRows, TxTypes
<1>5. LocksExclude' /\ MemoryIsLocked'
  BY <1>1 DEF LockInv, LocksExclude, MemoryIsLocked, TxTypes
<1>6. SelectionIsLocked'
  BY <1>1 DEF LockInv, SelectionIsLocked, TxTypes
<1>7. MemoryIsCurrent'
  <2> SUFFICES ASSUME NEW u \in Txs, NEW x \in DOMAIN seen'[u]
               PROVE  seen'[u][x] = Reading(x)'
    BY DEF MemoryIsCurrent
  <2>1. u # t
    BY <1>1 DEF LockInv, TxTypes
  <2>2. x \in DOMAIN seen[u] /\ seen'[u] = seen[u]
    BY <1>1, <2>1 DEF LockInv, TxTypes
  <2>3. x \in rows \ held[t]
    BY <2>1, <2>2 DEF LockInv, TxTypes, MemoryIsLocked, LocksExclude
  <2> QED
    BY <1>3, <2>2, <2>3 DEF LockInv, MemoryIsCurrent, Reading
<1> QED
  BY <1>4, <1>5, <1>6, <1>7 DEF LockInv

(* A commit writes what its transaction had locked and releases it.         *)
LEMMA WriteKeepsLocks ==
    ASSUME LockInv, NEW t \in Txs,
           WriteGroup(t) \/ WriteReorder(t) \/ WriteUngroup(t)
    PROVE  LockInv'
<1>1. DOMAIN seen[t] \subseteq held[t] /\ call[t].sel \subseteq held[t]
  BY DEF LockInv, MemoryIsLocked, SelectionIsLocked, WriteGroup, WriteReorder,
         WriteUngroup, At
<1>2. CASE WriteGroup(t)
  <2> DEFINE par == Column(t, "par")
             pos == Column(t, "pos")
             sel == Movers(t) \cup (call[t].sel \cap {Target(t)})
             newpar == GroupedParent(par, sel, Target(t))
             newpos == GroupedPosition(par, pos, sel, Target(t))
  <2>1. DOMAIN newpar = DOMAIN seen[t] /\ DOMAIN newpos = DOMAIN seen[t]
    BY DEF GroupedParent, GroupedPosition, Column
  <2>2. Commit(t, newpar, newpos)
    BY <1>2 DEF WriteGroup
  <2> HIDE DEF newpar, newpos
  <2> QED
    BY <1>1, <2>1, <2>2, CommitKeepsLocks
<1>3. CASE WriteReorder(t)
  <2> DEFINE pos == Column(t, "pos")
             stayers == DOMAIN seen[t] \ (call[t].sel \cup {Target(t)})
             newpos == [x \in call[t].sel \cup stayers |->
                          Reindexed(pos, NamedRank(call[t].named), stayers, x)]
  <2>1. DOMAIN newpos \subseteq held[t] /\ DOMAIN <<>> \subseteq held[t]
    BY <1>1
  <2>2. Commit(t, <<>>, newpos)
    BY <1>3 DEF WriteReorder
  <2> HIDE DEF newpos
  <2> QED
    BY <2>1, <2>2, CommitKeepsLocks
<1>4. CASE WriteUngroup(t)
  <2> DEFINE newpar == [x \in call[t].sel |-> Null]
  <2>1. DOMAIN newpar \subseteq held[t] /\ DOMAIN <<>> \subseteq held[t]
    BY <1>1
  <2>2. Commit(t, newpar, <<>>)
    BY <1>4 DEF WriteUngroup
  <2> HIDE DEF newpar
  <2> QED
    BY <2>1, <2>2, CommitKeepsLocks
<1> QED
  BY <1>2, <1>3, <1>4

---------------------------------------------------------------------------
(* The theorem.                                                             *)

(* At the start no transaction holds a row.                                 *)
LEMMA LocksInitially == TxInit => LockInv
<1> SUFFICES ASSUME TxInit
             PROVE  LockInv
  OBVIOUS
<1>1. CallsNameRows
  BY CallsAssumption DEF TxInit, CallsNameRows, rows
<1>2. TxTypes
  BY DEF TxInit, TxTypes
<1>3. LocksExclude /\ MemoryIsLocked /\ SelectionIsLocked /\ MemoryIsCurrent
  BY DEF TxInit, LocksExclude, MemoryIsLocked, SelectionIsLocked, MemoryIsCurrent
<1> QED
  BY <1>1, <1>2, <1>3 DEF LockInv

(* Every statement of every transaction keeps the locks exclusive and the   *)
(* memory under them.                                                       *)
LEMMA LocksStep == LockInv /\ [TxNext]_txVars => LockInv'
<1> SUFFICES ASSUME LockInv, [TxNext]_txVars
             PROVE  LockInv'
  OBVIOUS
<1>1. CASE UNCHANGED txVars
  BY <1>1 DEF txVars, LockInv, CallsNameRows, TxTypes, LocksExclude, MemoryIsLocked,
              SelectionIsLocked, MemoryIsCurrent, Reading, rows
<1>2. ASSUME NEW t \in Txs, NEW c \in Calls, Begin(t, c)
      PROVE  LockInv'
  BY <1>2, BeginKeepsLocks
<1>3. ASSUME NEW t \in Txs, TxStep(t)
      PROVE  LockInv'
  <2>1. ASSUME NEW x \in rows, LockRow(t, x)
        PROVE  LockInv'
    BY <2>1, LockRowKeepsLocks
  <2>2. CASE AfterSelection(t) \/ ReadChain(t) \/ ReadHeights(t)
               \/ \E p \in rows \cup {Null} : FindSiblings(t, p)
    BY <2>2, StatementKeepsLocks
  <2>3. CASE RefuseSelection(t) \/ RefuseChain(t) \/ RefuseHeights(t) \/ DeadlockVictim(t)
    BY <2>3, AbortKeepsLocks DEF RefuseSelection, RefuseChain, RefuseHeights, DeadlockVictim
  <2>4. CASE WriteGroup(t) \/ WriteReorder(t) \/ WriteUngroup(t)
    BY <2>4, WriteKeepsLocks
  <2> QED
    BY <1>3, <2>1, <2>2, <2>3, <2>4 DEF TxStep
<1> QED
  BY <1>1, <1>2, <1>3 DEF TxNext

(* However many group, ungroup and reorder calls overlap, with whatever     *)
(* selections, what each has in memory is what the table says until it      *)
(* commits: _changed_rows compares with the truth and no move is lost.      *)
THEOREM MemoryStaysCurrent == TxSpec => []MemoryIsCurrent
<1>1. LockInv => MemoryIsCurrent
  BY DEF LockInv
<1> QED
  BY <1>1, LocksInitially, LocksStep, PTL DEF TxSpec

---------------------------------------------------------------------------
(* What the statements of a call have read by the time it writes: its       *)
(* selection, its target, and every sublink of every parent it renumbers.   *)

(* The parents whose sublinks a call renumbers.                             *)
Due(t) ==
    ({Target(t)} \cup IF call[t].kind = "group"
                      THEN {seen[t][x].par : x \in call[t].sel} ELSE {}) \ {Null}

(* The sublinks of p are still to be asked for, or each has been read or is *)
(* about to be locked.                                                      *)
Covered(t, p) ==
    \/ p \in unread[t]
    \/ \A y \in Children(parent, p) :
          y \in DOMAIN seen[t] \/ (reading[t] = p /\ y \in want[t])

SiblingsCovered(t) == pc[t] = "siblings" => \A p \in Due(t) : Covered(t, p)

TargetIsLocked(t) ==
    /\ pc[t] = "target" => Target(t) = Null \/ Target(t) \in held[t] \cup want[t]
    /\ pc[t] \in {"heights", "siblings"} => Target(t) = Null \/ Target(t) \in held[t]

SelectionIsRead(t) ==
    /\ pc[t] = "idle" => DOMAIN seen[t] = {} /\ want[t] = {}
    /\ pc[t] = "selection" => call[t].sel \subseteq DOMAIN seen[t] \cup want[t]
    /\ pc[t] \in {"target", "heights", "siblings", "write"} =>
          call[t].sel \subseteq DOMAIN seen[t]
    /\ pc[t] \in {"target", "heights", "siblings"} => call[t].kind \in {"group", "reorder"}
    /\ pc[t] = "write" => call[t].kind = "ungroup"

(* A reorder reads its selection, its target and sublinks of its target.    *)
ReorderReads(t) ==
    call[t].kind = "reorder" =>
        /\ pc[t] = "selection" => want[t] \subseteq call[t].sel
        /\ pc[t] = "target" => want[t] \subseteq {Target(t)}
        /\ pc[t] = "heights" => want[t] = {}
        /\ pc[t] = "siblings" => /\ unread[t] \subseteq {Target(t)}
                                 /\ want[t] # {} => reading[t] = Target(t)
        /\ \A x \in DOMAIN seen[t] :
              \/ x \in call[t].sel \cup {Target(t)}
              \/ pc[t] = "siblings" /\ seen[t][x].par = Target(t)
        /\ pc[t] \in {"target", "heights", "siblings"} =>
              \A x \in call[t].sel : seen[t][x].par = Target(t)

Reads(t) ==
    SiblingsCovered(t) /\ TargetIsLocked(t) /\ SelectionIsRead(t) /\ ReorderReads(t)

TxInv ==
    /\ LockInv /\ TypeOK
    /\ DOMAIN unread = Txs /\ DOMAIN reading = Txs
    /\ \A x \in rows : parent[x] # x
    /\ \A t \in Txs : Reads(t)

(* What every step leaves alone.                                            *)
LEMMA StepsKeepTable ==
    ASSUME [TxNext]_txVars
    PROVE  /\ rows' = rows /\ occurred_at' = occurred_at /\ caller' = caller
           /\ DOMAIN unread' = DOMAIN unread /\ DOMAIN reading' = DOMAIN reading
<1> DEFINE Kept == /\ rows' = rows /\ occurred_at' = occurred_at /\ caller' = caller
                   /\ DOMAIN unread' = DOMAIN unread /\ DOMAIN reading' = DOMAIN reading
<1>1. ASSUME NEW t, NEW par, NEW pos, Commit(t, par, pos)
      PROVE  Kept
  BY <1>1 DEF Commit, Finished, rows
<1>2. ASSUME NEW t, Abort(t)
      PROVE  Kept
  BY <1>2 DEF Abort, Finished, table, rows
<1>3. ASSUME NEW t, TxStep(t)
      PROVE  Kept
  <2>1. CASE RefuseSelection(t) \/ RefuseChain(t) \/ RefuseHeights(t) \/ DeadlockVictim(t)
    BY <1>2, <2>1 DEF RefuseSelection, RefuseChain, RefuseHeights, DeadlockVictim
  <2>2. CASE WriteGroup(t) \/ WriteReorder(t) \/ WriteUngroup(t)
    BY <1>1, <2>2 DEF WriteGroup, WriteReorder, WriteUngroup
  <2>3. CASE \/ \E x \in rows : LockRow(t, x)
             \/ AfterSelection(t) \/ ReadChain(t) \/ ReadHeights(t)
             \/ \E p \in rows \cup {Null} : FindSiblings(t, p)
    BY <2>3 DEF LockRow, AfterSelection, ReadChain, ReadHeights, FindSiblings, table, rows
  <2> HIDE DEF Kept
  <2> QED
    BY <1>3, <2>1, <2>2, <2>3 DEF TxStep
<1>4. ASSUME NEW t, NEW c, Begin(t, c)
      PROVE  Kept
  BY <1>4 DEF Begin, table, rows
<1>5. CASE UNCHANGED txVars
  BY <1>5 DEF txVars, rows
<1>6. CASE TxNext
  <2>1. PICK t \in Txs : TxStep(t) \/ \E c \in Calls : Begin(t, c)
    BY <1>6 DEF TxNext
  <2> QED
    BY <2>1, <1>3, <1>4
<1> QED
  BY <1>5, <1>6

(* A running call has a selection of rows; who is its target, and that it   *)
(* is a row, does not change while it runs.                                 *)
LEMMA RunningCalls ==
    ASSUME TxInv, NEW t \in Txs, pc[t] # "idle"
    PROVE  /\ call[t] \in Calls /\ call[t].sel \in Selections
           /\ call[t].kind \in {"group", "ungroup", "reorder"}
           /\ Target(t) \in rows \cup {Null}
           /\ call[t].kind = "group" => Target(t) \in rows
           /\ call[t].kind = "reorder" => call[t].named \in Orders(call[t].sel)
           /\ call[t].kind = "reorder" => Target(t) = call[t].target
           /\ call[t].kind = "group" /\ call[t].target = Null =>
                 Target(t) \in call[t].sel
<1>1. call[t] \in Calls
  BY DEF TxInv, LockInv, SelectionIsLocked
<1>2. /\ call[t].kind \in {"group", "ungroup", "reorder"}
      /\ call[t].sel \subseteq rows /\ call[t].sel # {}
      /\ call[t].target \in rows \cup {Null}
      /\ call[t].kind = "reorder" => call[t].named \in Orders(call[t].sel)
  BY <1>1 DEF TxInv, LockInv, CallsNameRows
<1>3. call[t].sel \in Selections
  BY <1>2 DEF Selections
<1>4. ElectedRoot(call[t].sel) \in call[t].sel
  BY <1>3, ElectedRootIsEarliest DEF TxInv
<1> QED
  BY <1>1, <1>2, <1>3, <1>4 DEF Target

LEMMA TargetsStay ==
    ASSUME NEW t \in Txs, call'[t] = call[t], occurred_at' = occurred_at
    PROVE  Target(t)' = Target(t) /\ Movers(t)' = Movers(t)
<1>1. \A r, y : Earlier(r, y)' = Earlier(r, y)
  BY DEF Earlier
<1>2. ElectedRoot(call[t].sel)' = ElectedRoot(call[t].sel)
  BY <1>1 DEF ElectedRoot
<1> QED
  BY <1>2 DEF Target, Movers

(* A transaction that takes no part in a step, and none of whose parents    *)
(* gets a sublink by it, has read what it had read.                         *)
LEMMA OthersKeepReads ==
    ASSUME TxInv, NEW u \in Txs, Reads(u), occurred_at' = occurred_at,
           pc'[u] = pc[u], call'[u] = call[u], want'[u] = want[u], held'[u] = held[u],
           seen'[u] = seen[u], unread'[u] = unread[u], reading'[u] = reading[u],
           \A p \in Due(u) :
              pc[u] = "siblings" /\ p \notin unread[u] =>
                  Children(parent, p)' \subseteq Children(parent, p)
    PROVE  Reads(u)'
<1>1. Target(u)' = Target(u)
  BY TargetsStay
<1>2. Due(u)' = Due(u)
  BY <1>1 DEF Due
<1>3. SiblingsCovered(u)'
  <2> SUFFICES ASSUME pc[u] = "siblings", NEW p \in Due(u)
               PROVE  Covered(u, p)'
    BY <1>2 DEF SiblingsCovered
  <2>1. Covered(u, p)
    BY DEF Reads, SiblingsCovered
  <2> QED
    BY <2>1 DEF Covered
<1>4. TargetIsLocked(u)' /\ SelectionIsRead(u)' /\ ReorderReads(u)'
  BY <1>1 DEF Reads, TargetIsLocked, SelectionIsRead, ReorderReads
<1> QED
  BY <1>3, <1>4 DEF Reads

(* A call that is over has nothing to read.                                 *)
LEMMA NothingToRead ==
    ASSUME NEW t \in Txs, pc'[t] = "idle", call'[t] = NoCall, seen'[t] = <<>>,
           want'[t] = {}
    PROVE  Reads(t)'
BY DEF Reads, SiblingsCovered, TargetIsLocked, SelectionIsRead, ReorderReads, NoCall

(* A statement that writes nothing leaves the others what they have read.   *)
LEMMA ReadersKeepReads ==
    ASSUME TxInv, NEW t \in Txs, NEW u \in Txs, u # t, UNCHANGED table,
           \/ \E x \in rows : LockRow(t, x)
           \/ \E c \in Calls : Begin(t, c)
           \/ AfterSelection(t) \/ ReadChain(t) \/ ReadHeights(t)
           \/ \E p : FindSiblings(t, p)
           \/ Abort(t)
    PROVE  Reads(u)'
<1>1. /\ pc'[u] = pc[u] /\ call'[u] = call[u] /\ want'[u] = want[u]
      /\ held'[u] = held[u] /\ seen'[u] = seen[u] /\ unread'[u] = unread[u]
      /\ reading'[u] = reading[u]
  BY DEF LockRow, Remember, Begin, AfterSelection, ReadChain, ReadHeights, FindSiblings,
         Abort, Finished, Goto, TxInv, LockInv, TxTypes
<1>2. Reads(u) /\ occurred_at' = occurred_at /\ parent' = parent
  BY DEF TxInv, table
<1>3. \A p : Children(parent, p)' = Children(parent, p)
  BY <1>2
<1> QED
  BY <1>1, <1>2, <1>3, OthersKeepReads

(* A call that begins is about to lock its selection.                       *)
LEMMA BeginReads ==
    ASSUME TxInv, NEW t \in Txs, NEW c \in Calls, Begin(t, c)
    PROVE  Reads(t)'
<1>1. /\ pc'[t] = "selection" /\ call'[t] = c /\ want'[t] = c.sel
      /\ seen' = seen /\ pc[t] = "idle"
  BY DEF Begin, TxInv, LockInv, TxTypes
<1>2. DOMAIN seen[t] = {}
  BY <1>1 DEF TxInv, Reads, SelectionIsRead
<1> QED
  BY <1>1, <1>2 DEF Reads, SiblingsCovered, TargetIsLocked, SelectionIsRead, ReorderReads

(* A row that is locked is read, unless it is a sibling that has left.      *)
LEMMA LockRowReads ==
    ASSUME TxInv, NEW t \in Txs, NEW x \in rows, LockRow(t, x)
    PROVE  Reads(t)'
<1>1. /\ x \in want[t]
      /\ want'[t] = want[t] \ {x} /\ held'[t] = held[t] \cup {x}
      /\ pc' = pc /\ call' = call /\ parent' = parent /\ occurred_at' = occurred_at
      /\ unread' = unread /\ reading' = reading
  BY DEF LockRow, NextLock, table, TxInv, LockInv, TxTypes
<1>2. \/ pc[t] = "siblings" /\ parent[x] # reading[t] /\ seen'[t] = seen[t]
      \/ /\ ~ (pc[t] = "siblings" /\ parent[x] # reading[t])
         /\ DOMAIN seen'[t] = DOMAIN seen[t] \cup {x}
         /\ seen'[t][x].par = parent[x]
         /\ \A y \in DOMAIN seen[t] : y # x => seen'[t][y] = seen[t][y]
  <2>1. CASE pc[t] = "siblings" /\ parent[x] # reading[t]
    BY <2>1 DEF LockRow
  <2>2. CASE ~ (pc[t] = "siblings" /\ parent[x] # reading[t])
    <3> DEFINE m == [y \in DOMAIN seen[t] \cup {x} |->
                       IF y = x THEN Reading(x) ELSE seen[t][y]]
    <3>1. seen' = [seen EXCEPT ![t] = m] /\ DOMAIN seen = Txs
      BY <2>2 DEF LockRow, Remember, TxInv, LockInv, TxTypes
    <3>2. seen'[t] = m
      BY <3>1
    <3> QED
      BY <2>2, <3>2 DEF Reading
  <2> QED
    BY <2>1, <2>2
<1>3. Target(t)' = Target(t)
  BY <1>1, TargetsStay
<1>4. \A y \in DOMAIN seen[t] :
         y \in DOMAIN seen'[t] /\ seen'[t][y].par = seen[t][y].par
  <2> SUFFICES ASSUME NEW y \in DOMAIN seen[t]
               PROVE  y \in DOMAIN seen'[t] /\ seen'[t][y].par = seen[t][y].par
    OBVIOUS
  <2>1. seen[t][y] = Reading(y)
    BY DEF TxInv, LockInv, MemoryIsCurrent
  <2> QED
    BY <1>2, <2>1 DEF Reading
<1>5. Reads(t)
  BY DEF TxInv
<1>6. SelectionIsRead(t)'
  BY <1>1, <1>2, <1>4, <1>5 DEF Reads, SelectionIsRead, TxInv, LockInv, TxTypes
<1>7. TargetIsLocked(t)'
  BY <1>1, <1>3, <1>5 DEF Reads, TargetIsLocked
<1>8. SiblingsCovered(t)'
  <2> SUFFICES ASSUME pc[t] = "siblings", NEW p \in Due(t)'
               PROVE  Covered(t, p)'
    BY <1>1 DEF SiblingsCovered
  <2>1. call[t].sel \subseteq DOMAIN seen[t]
    BY <1>5 DEF Reads, SelectionIsRead
  <2>2. p \in Due(t)
    BY <1>1, <1>3, <1>4, <2>1 DEF Due
  <2>3. Covered(t, p)
    BY <1>5, <2>2 DEF Reads, SiblingsCovered
  <2>4. CASE p \in unread[t]
    BY <1>1, <2>4 DEF Covered
  <2>5. CASE p \notin unread[t]
    <3> SUFFICES ASSUME NEW y \in Children(parent, p)
                 PROVE  y \in DOMAIN seen'[t] \/ (reading[t] = p /\ y \in want'[t])
      BY <1>1 DEF Covered
    <3>1. y \in DOMAIN seen[t] \/ (reading[t] = p /\ y \in want[t])
      BY <2>3, <2>5 DEF Covered
    <3>2. parent[y] = p
      BY DEF Children
    <3> QED
      BY <1>1, <1>2, <1>4, <3>1, <3>2
  <2> QED
    BY <2>4, <2>5
<1>9. ReorderReads(t)'
  <2> SUFFICES ASSUME call[t].kind = "reorder"
               PROVE  ReorderReads(t)'
    BY <1>1 DEF ReorderReads
  <2>1. /\ pc[t] \in {"selection", "target", "siblings"}
        /\ pc[t] = "selection" => x \in call[t].sel
        /\ pc[t] = "target" => x = Target(t)
        /\ pc[t] = "siblings" => reading[t] = Target(t)
    BY <1>1, <1>5 DEF Reads, ReorderReads, SelectionIsRead, TxInv, LockInv, TxTypes
  <2>2. \A y \in DOMAIN seen'[t] :
           \/ y \in call[t].sel \cup {Target(t)}
           \/ pc[t] = "siblings" /\ seen'[t][y].par = Target(t)
    BY <1>1, <1>2, <1>4, <1>5, <2>1 DEF Reads, ReorderReads
  <2>3. pc[t] \in {"target", "heights", "siblings"} =>
           \A y \in call[t].sel : seen'[t][y].par = Target(t)
    BY <1>4, <1>5 DEF Reads, ReorderReads, SelectionIsRead
  <2> QED
    BY <1>1, <1>3, <1>5, <2>1, <2>2, <2>3 DEF Reads, ReorderReads
<1> QED
  BY <1>6, <1>7, <1>8, <1>9 DEF Reads

(* The next statement asks for the target, or the sublinks of a parent that *)
(* were still to be asked for.                                              *)
LEMMA StatementReads ==
    ASSUME TxInv, NEW t \in Txs,
           AfterSelection(t) \/ ReadChain(t) \/ ReadHeights(t)
             \/ \E p : FindSiblings(t, p)
    PROVE  Reads(t)'
<1>1. /\ held' = held /\ seen' = seen /\ call' = call
      /\ parent' = parent /\ occurred_at' = occurred_at
  BY DEF AfterSelection, ReadChain, ReadHeights, FindSiblings, table
<1>2. /\ pc[t] \in {"selection", "target", "heights", "siblings"} /\ want[t] = {}
      /\ Reads(t)
  BY DEF AfterSelection, ReadChain, ReadHeights, FindSiblings, At, TxInv
<1>3. /\ call[t].sel \subseteq rows
      /\ call[t].kind \in {"group", "ungroup", "reorder"}
      /\ call[t].kind = "reorder" => Target(t) = call[t].target
      /\ call[t].kind = "group" /\ call[t].target = Null => Target(t) \in call[t].sel
      /\ call[t].sel \subseteq DOMAIN seen[t] /\ call[t].sel \subseteq held[t]
  <2>1. call[t].sel \subseteq DOMAIN seen[t]
    BY <1>2 DEF Reads, SelectionIsRead
  <2> QED
    BY <1>2, <2>1, RunningCalls DEF Selections, TxInv, LockInv, MemoryIsLocked
<1>4. Target(t)' = Target(t) /\ Movers(t)' = Movers(t) /\ Due(t)' = Due(t)
  <2>1. Target(t)' = Target(t) /\ Movers(t)' = Movers(t)
    BY <1>1, TargetsStay
  <2> QED
    BY <1>1, <2>1 DEF Due
<1>5. CASE AfterSelection(t)
  <2>1. /\ call[t].kind = "ungroup" => pc'[t] = "write"
        /\ call[t].kind = "group" => pc'[t] = "target"
        /\ call[t].kind = "reorder" =>
              /\ pc'[t] = IF call[t].target = Null THEN "heights" ELSE "target"
              /\ \A x \in call[t].sel : seen[t][x].par = call[t].target
        /\ want'[t] = IF call[t].kind # "ungroup" /\ call[t].target # Null
                      THEN {call[t].target} ELSE {}
    BY <1>2, <1>3, <1>5 DEF AfterSelection, Goto, At, TxInv, LockInv, TxTypes
  <2>2. SelectionIsRead(t)'
    BY <1>1, <1>3, <2>1 DEF SelectionIsRead
  <2>3. TargetIsLocked(t)'
    BY <1>1, <1>3, <1>4, <2>1 DEF TargetIsLocked, Target
  <2>4. SiblingsCovered(t)'
    BY <1>3, <2>1 DEF SiblingsCovered
  <2>5. ReorderReads(t)'
    <3> SUFFICES ASSUME call[t].kind = "reorder"
                 PROVE  ReorderReads(t)'
      BY <1>1 DEF ReorderReads
    <3>1. \A x \in DOMAIN seen[t] : x \in call[t].sel \cup {Target(t)}
      BY <1>2, <1>5 DEF Reads, ReorderReads, AfterSelection, At
    <3> QED
      BY <1>1, <1>3, <1>4, <2>1, <3>1 DEF ReorderReads
  <2> QED
    BY <2>2, <2>3, <2>4, <2>5 DEF Reads
<1>6. CASE ReadChain(t)
  <2>1. pc[t] = "target" /\ pc'[t] = "heights" /\ want' = want
    BY <1>6 DEF ReadChain, Goto, At, TxInv, LockInv, TxTypes
  <2>2. SelectionIsRead(t)' /\ TargetIsLocked(t)' /\ SiblingsCovered(t)'
    BY <1>1, <1>2, <1>4, <2>1
       DEF Reads, SelectionIsRead, TargetIsLocked, SiblingsCovered
  <2>3. ReorderReads(t)'
    BY <1>1, <1>2, <1>4, <2>1 DEF Reads, ReorderReads
  <2> QED
    BY <2>2, <2>3 DEF Reads
<1>7. CASE ReadHeights(t)
  <2>1. /\ pc[t] = "heights" /\ pc'[t] = "siblings" /\ want' = want
        /\ unread'[t] = {Target(t)} \cup
                        IF call[t].kind = "reorder" THEN {}
                        ELSE {seen[t][x].par : x \in call[t].sel} \ {Null}
    BY <1>7 DEF ReadHeights, Goto, At, TxInv, LockInv, TxTypes
  <2>2. SelectionIsRead(t)' /\ TargetIsLocked(t)'
    BY <1>1, <1>2, <1>4, <2>1 DEF Reads, SelectionIsRead, TargetIsLocked
  <2>3. Due(t) \subseteq unread'[t]
    BY <2>1 DEF Due
  <2>4. SiblingsCovered(t)'
    BY <1>4, <2>3 DEF SiblingsCovered, Covered
  <2>5. ReorderReads(t)'
    BY <1>1, <1>2, <1>4, <2>1 DEF Reads, ReorderReads
  <2> QED
    BY <2>2, <2>4, <2>5 DEF Reads
<1>8. ASSUME NEW p, FindSiblings(t, p)
      PROVE  Reads(t)'
  <2>1. /\ pc[t] = "siblings" /\ pc' = pc /\ p \in unread[t]
        /\ want'[t] = Children(parent, p) \ call[t].sel
        /\ reading'[t] = p /\ unread'[t] = unread[t] \ {p}
    BY <1>8 DEF FindSiblings, At, TxInv, LockInv, TxTypes
  <2>2. SelectionIsRead(t)' /\ TargetIsLocked(t)'
    BY <1>1, <1>2, <1>4, <2>1 DEF Reads, SelectionIsRead, TargetIsLocked
  <2>3. SiblingsCovered(t)'
    <3> SUFFICES ASSUME NEW q \in Due(t)
                 PROVE  Covered(t, q)'
      BY <1>4 DEF SiblingsCovered
    <3>1. Covered(t, q)
      BY <1>2, <2>1 DEF Reads, SiblingsCovered
    <3>2. CASE q = p
      BY <1>1, <1>3, <2>1, <3>2 DEF Covered
    <3>3. CASE q # p
      BY <1>1, <1>2, <2>1, <3>1, <3>3 DEF Covered
    <3> QED
      BY <3>2, <3>3
  <2>4. ReorderReads(t)'
    <3> SUFFICES ASSUME call[t].kind = "reorder"
                 PROVE  ReorderReads(t)'
      BY <1>1 DEF ReorderReads
    <3>1. p = Target(t)
      BY <1>2, <2>1 DEF Reads, ReorderReads
    <3> QED
      BY <1>1, <1>2, <1>4, <2>1, <3>1 DEF Reads, ReorderReads
  <2> QED
    BY <2>2, <2>3, <2>4 DEF Reads
<1> QED
  BY <1>5, <1>6, <1>7, <1>8

---------------------------------------------------------------------------
(* The writes.                                                              *)

(* The columns in memory are those of the table, for the rows in memory.    *)
LEMMA ColumnsAreCurrent ==
    ASSUME TxInv, NEW t \in Txs
    PROVE  /\ DOMAIN seen[t] \subseteq rows
           /\ Column(t, "par") = [x \in DOMAIN seen[t] |-> parent[x]]
           /\ Column(t, "pos") = [x \in DOMAIN seen[t] |-> position[x]]
<1>1. DOMAIN seen[t] \subseteq rows
  BY DEF TxInv, LockInv, MemoryIsLocked, TxTypes
<1>2. \A x \in DOMAIN seen[t] : seen[t][x] = Reading(x)
  BY DEF TxInv, LockInv, MemoryIsCurrent
<1>3. \A x : Reading(x)["par"] = parent[x] /\ Reading(x)["pos"] = position[x]
  BY DEF Reading
<1> QED
  BY <1>1, <1>2, <1>3 DEF Column

(* When a call writes, it has read every sublink of the parents it          *)
(* renumbers.                                                               *)
LEMMA SublinksAreRead ==
    ASSUME TxInv, NEW t \in Txs, At(t, "siblings"), unread[t] = {}, NEW p \in Due(t)
    PROVE  Children(parent, p) \subseteq DOMAIN seen[t]
BY DEF TxInv, Reads, SiblingsCovered, Covered, At

(* What reindexing writes does not depend on the numbers of other rows.     *)
LEMMA ReindexedFromMemory ==
    ASSUME NEW mem, NEW pos, pos = [x \in mem |-> position[x]],
           NEW rank, NEW S \in SUBSET mem, NEW x \in S \cup DOMAIN rank
    PROVE  Reindexed(pos, rank, S, x) = Reindexed(position, rank, S, x)
<1>1. CASE x \in DOMAIN rank
  BY <1>1 DEF Reindexed
<1>2. CASE x \notin DOMAIN rank
  <2>1. \A y \in S : SiblingBefore(pos, y, x) = SiblingBefore(position, y, x)
    BY <1>2 DEF SiblingBefore
  <2>2. {y \in S : y = x \/ SiblingBefore(pos, y, x)}
          = {y \in S : y = x \/ SiblingBefore(position, y, x)}
    BY <2>1
  <2> QED
    BY <1>2, <2>2 DEF Reindexed
<1> QED
  BY <1>1, <1>2

(* A grouping writes what it would have written alone: computing the new    *)
(* columns from the rows in memory or from the whole table is the same.     *)
LEMMA GroupWritesWhole ==
    ASSUME TxInv, NEW t \in Txs, WriteGroup(t)
    PROVE  /\ parent' = GroupedParent(parent, call[t].sel, Target(t))
           /\ position' = GroupedPosition(parent, position, call[t].sel, Target(t))
<1> DEFINE sel == call[t].sel
           mem == DOMAIN seen[t]
           T == Target(t)
           par == Column(t, "par")
           pos == Column(t, "pos")
           stayers(p) == Children(parent, p) \ sel
<1>1. /\ pc[t] = "siblings" /\ want[t] = {} /\ unread[t] = {} /\ At(t, "siblings")
      /\ call[t].kind = "group"
  BY DEF WriteGroup, At
<1>2. /\ T \in rows /\ sel \subseteq rows /\ sel \subseteq mem /\ mem \subseteq rows
      /\ T # Null
  <2>1. sel \subseteq mem
    BY <1>1 DEF TxInv, Reads, SelectionIsRead
  <2>2. T \in rows /\ sel \subseteq rows
    BY <1>1, RunningCalls DEF Selections
  <2> QED
    BY <2>1, <2>2, ColumnsAreCurrent, TableIsForest DEF TxInv
<1>3. Movers(t) \cup (sel \cap {T}) = sel
  BY <1>1 DEF Movers, Target
<1>4. par = [x \in mem |-> parent[x]] /\ pos = [x \in mem |-> position[x]]
  BY ColumnsAreCurrent
<1>5. /\ parent' = [x \in rows |-> IF x \in DOMAIN GroupedParent(par, sel, T)
                                  THEN GroupedParent(par, sel, T)[x] ELSE parent[x]]
      /\ position' = [x \in rows |-> IF x \in DOMAIN GroupedPosition(par, pos, sel, T)
                                    THEN GroupedPosition(par, pos, sel, T)[x] ELSE position[x]]
  BY <1>3 DEF WriteGroup, Commit
<1>6. LeftParents(par, sel, T) = LeftParents(parent, sel, T)
  <2>1. \A x \in sel : par[x] = parent[x]
    BY <1>2, <1>4
  <2> QED
    BY <2>1 DEF LeftParents
<1>7. ASSUME NEW p, p = T \/ p \in LeftParents(parent, sel, T)
      PROVE  stayers(p) \subseteq mem /\ Children(par, p) \ sel = stayers(p)
  <2>1. \A x \in sel : seen[t][x].par = parent[x]
    <3>1. \A x \in sel : seen[t][x] = Reading(x)
      BY <1>2 DEF TxInv, LockInv, MemoryIsCurrent
    <3>2. \A x : Reading(x).par = parent[x]
      BY DEF Reading
    <3> QED
      BY <3>1, <3>2
  <2>2. p \in Due(t)
    BY <1>1, <1>2, <1>7, <2>1 DEF Due, LeftParents
  <2>3. Children(parent, p) \subseteq mem
    BY <1>1, <2>2, SublinksAreRead
  <2>4. Children(par, p) = Children(parent, p) \cap mem
    BY <1>2, <1>4 DEF Children, rows
  <2> QED
    BY <2>3, <2>4
<1>8. parent' = GroupedParent(parent, sel, T)
  <2>1. GroupedParent(par, sel, T) =
           [x \in mem |-> IF x \in sel THEN (IF x = T THEN Null ELSE T) ELSE parent[x]]
    BY <1>4 DEF GroupedParent
  <2>2. GroupedParent(parent, sel, T) =
           [x \in rows |-> IF x \in sel THEN (IF x = T THEN Null ELSE T) ELSE parent[x]]
    BY DEF GroupedParent, rows
  <2> HIDE DEF sel, mem, T, par, pos, stayers
  <2> QED
    BY <1>2, <1>5, <2>1, <2>2
<1>9. position' = GroupedPosition(parent, position, sel, T)
  <2> DEFINE whole(x) == IF x \in sel \ {T} \/ x \in stayers(T)
                         THEN Reindexed(position, ArrivalRank(sel \ {T}), stayers(T), x)
                         ELSE IF x \notin sel /\ parent[x] \in LeftParents(parent, sel, T)
                              THEN Reindexed(position, <<>>, stayers(parent[x]), x)
                              ELSE position[x]
  <2>1. GroupedPosition(parent, position, sel, T) = [x \in rows |-> whole(x)]
    BY DEF GroupedPosition, rows
  <2>2. ASSUME NEW rank, NEW S, S \subseteq mem, NEW x \in S \cup DOMAIN rank
        PROVE  Reindexed(pos, rank, S, x) = Reindexed(position, rank, S, x)
    BY <1>4, <2>2, ReindexedFromMemory
  <2>3. DOMAIN ArrivalRank(sel \ {T}) = sel \ {T}
    BY DEF ArrivalRank
  <2>4. \A x \in mem : x \in stayers(parent[x]) <=> x \notin sel
    BY <1>2 DEF Children, rows
  <2>5. DOMAIN GroupedPosition(par, pos, sel, T) = mem
    BY <1>4 DEF GroupedPosition
  <2>6. ASSUME NEW x \in mem
        PROVE  GroupedPosition(par, pos, sel, T)[x] = whole(x)
    <3>1. GroupedPosition(par, pos, sel, T)[x] =
             IF x \in sel \ {T} \/ x \in Children(par, T) \ sel
             THEN Reindexed(pos, ArrivalRank(sel \ {T}), Children(par, T) \ sel, x)
             ELSE IF x \notin sel /\ par[x] \in LeftParents(par, sel, T)
                  THEN Reindexed(pos, <<>>, Children(par, par[x]) \ sel, x)
                  ELSE pos[x]
      BY <1>4 DEF GroupedPosition
    <3>2. /\ par[x] = parent[x] /\ pos[x] = position[x]
          /\ Children(par, T) \ sel = stayers(T) /\ stayers(T) \subseteq mem
      BY <1>4, <1>7
    <3> HIDE DEF sel, mem, T, par, pos, stayers
    <3>3. CASE x \in sel \ {T} \/ x \in stayers(T)
      <4>1. Reindexed(pos, ArrivalRank(sel \ {T}), stayers(T), x)
              = Reindexed(position, ArrivalRank(sel \ {T}), stayers(T), x)
        BY <2>2, <2>3, <3>2, <3>3
      <4> QED
        BY <3>1, <3>2, <3>3, <4>1
    <3>4. CASE /\ ~ (x \in sel \ {T} \/ x \in stayers(T))
               /\ x \notin sel /\ parent[x] \in LeftParents(parent, sel, T)
      <4>1. /\ Children(par, parent[x]) \ sel = stayers(parent[x])
            /\ stayers(parent[x]) \subseteq mem /\ x \in stayers(parent[x])
        BY <1>7, <2>4, <3>4
      <4>2. Reindexed(pos, <<>>, stayers(parent[x]), x)
              = Reindexed(position, <<>>, stayers(parent[x]), x)
        BY <2>2, <4>1
      <4> QED
        BY <1>6, <3>1, <3>2, <3>4, <4>1, <4>2
    <3>5. CASE /\ ~ (x \in sel \ {T} \/ x \in stayers(T))
               /\ ~ (x \notin sel /\ parent[x] \in LeftParents(parent, sel, T))
      BY <1>6, <3>1, <3>2, <3>5
    <3> QED
      BY <3>3, <3>4, <3>5
  <2>7. ASSUME NEW x \in rows \ mem
        PROVE  position[x] = whole(x)
    <3>1. x \notin sel \ {T} /\ x \notin stayers(T)
      BY <1>2, <1>7
    <3>2. x \in stayers(parent[x])
      BY <1>2 DEF Children, rows
    <3>3. parent[x] \notin LeftParents(parent, sel, T)
      BY <1>7, <3>2
    <3> QED
      BY <3>1, <3>3
  <2> HIDE DEF sel, mem, T, par, pos, whole
  <2>8. \A x \in rows : IF x \in DOMAIN GroupedPosition(par, pos, sel, T)
                        THEN GroupedPosition(par, pos, sel, T)[x] = whole(x)
                        ELSE position[x] = whole(x)
    BY <2>5, <2>6, <2>7
  <2> QED
    BY <1>5, <2>1, <2>8
<1> QED
  BY <1>8, <1>9

(* New numbers for sublinks of T, those of `sel' by their rank: unless they *)
(* are the roots, all the sublinks of T are numbered in one sequence.       *)
Renumbers(T, sel, rank) ==
    /\ parent' = parent /\ sel \in SUBSET Children(parent, T)
    /\ rank \in [sel -> 1 .. Cardinality(sel)]
    /\ \A x, y \in sel : x # y => rank[x] # rank[y]
    /\ position' \in [rows -> Nat]
    /\ \A x \in rows : parent[x] # T => position'[x] = position[x]
    /\ T # Null => \A x \in Children(parent, T) :
          position'[x] = Reindexed(position, rank, Children(parent, T) \ sel, x)

(* A reorder renumbers the sublinks of its target as it would alone.        *)
LEMMA ReorderWrites ==
    ASSUME TxInv, NEW t \in Txs, WriteReorder(t)
    PROVE  Renumbers(Target(t), call[t].sel, NamedRank(call[t].named))
<1> DEFINE sel == call[t].sel
           T == Target(t)
           rank == NamedRank(call[t].named)
<1> DEFINE mem == DOMAIN seen[t]
           pos == Column(t, "pos")
           S == mem \ (sel \cup {T})
<1>1. /\ pc[t] = "siblings" /\ want[t] = {} /\ unread[t] = {} /\ At(t, "siblings")
      /\ call[t].kind = "reorder" /\ Reads(t)
  BY DEF WriteReorder, At, TxInv
<1>2. sel \subseteq mem /\ mem \subseteq rows /\ sel \in Selections /\ T \in rows \cup {Null}
  BY <1>1, RunningCalls, ColumnsAreCurrent DEF Reads, SelectionIsRead
<1>3. \A x \in mem : seen[t][x].par = parent[x]
  <2>1. \A x \in mem : seen[t][x] = Reading(x)
    BY DEF TxInv, LockInv, MemoryIsCurrent
  <2>2. \A x : Reading(x).par = parent[x]
    BY DEF Reading
  <2> QED
    BY <2>1, <2>2
<1>4. sel \in SUBSET Children(parent, T) /\ S \in SUBSET Children(parent, T)
  <2>1. \A x \in sel : seen[t][x].par = T
    BY <1>1 DEF Reads, ReorderReads
  <2>2. \A x \in S : seen[t][x].par = T
    BY <1>1 DEF Reads, ReorderReads
  <2> QED
    BY <1>2, <1>3, <2>1, <2>2 DEF Children, rows
<1>5. /\ rank \in [sel -> 1 .. Cardinality(sel)]
      /\ \A x, y \in sel : x # y => rank[x] # rank[y]
      /\ Cardinality(sel) \in Nat
  <2>1. IsFiniteSet(sel)
    BY <1>2, TableIsForest, FS_Subset DEF TxInv
  <2>2. call[t].named \in Orders(sel)
    BY <1>1, RunningCalls
  <2> QED
    BY <2>1, <2>2, NamedNeverTie, FS_CardinalityType
<1>6. parent' = parent
  <2>1. parent' = [x \in rows |-> IF x \in DOMAIN <<>> THEN <<>>[x] ELSE parent[x]]
    BY DEF WriteReorder, Commit
  <2>2. DOMAIN <<>> = {}
    OBVIOUS
  <2>3. parent = [x \in rows |-> parent[x]]
    BY DEF TxInv, TypeOK
  <2> QED
    BY <2>1, <2>2, <2>3
<1>7. position' = [x \in rows |-> IF x \in sel \cup S
                                  THEN Reindexed(pos, rank, S, x) ELSE position[x]]
  <2> DEFINE new == [x \in sel \cup S |-> Reindexed(pos, rank, S, x)]
  <2>1. position' = [x \in rows |-> IF x \in DOMAIN new THEN new[x] ELSE position[x]]
    BY DEF WriteReorder, Commit
  <2>2. DOMAIN new = sel \cup S /\ \A x \in sel \cup S : new[x] = Reindexed(pos, rank, S, x)
    OBVIOUS
  <2> HIDE DEF new, sel, T, rank, S, pos
  <2> QED
    BY <2>1, <2>2
<1>8. \A x \in sel \cup S : Reindexed(pos, rank, S, x) = Reindexed(position, rank, S, x)
  <2>1. pos = [x \in mem |-> position[x]] /\ DOMAIN rank = sel /\ S \in SUBSET mem
    BY <1>5, ColumnsAreCurrent
  <2> HIDE DEF mem, pos, S
  <2> QED
    BY <2>1, ReindexedFromMemory
<1>9. position' \in [rows -> Nat]
  <2>1. S \in SUBSET rows /\ sel \in SUBSET rows /\ rank \in [sel -> Nat]
    BY <1>2, <1>5
  <2> HIDE DEF S
  <2>2. \A x : Reindexed(position, rank, S, x) \in Nat
    BY <2>1, ReindexedIsNatural DEF TxInv
  <2>3. \A x \in rows : position[x] \in Nat
    BY DEF TxInv, TypeOK
  <2> HIDE DEF pos
  <2> QED
    BY <1>7, <1>8, <2>2, <2>3
<1>10. \A x \in rows : parent[x] # T => position'[x] = position[x]
  <2>1. \A x \in sel \cup S : parent[x] = T
    BY <1>4 DEF Children
  <2> HIDE DEF S, pos
  <2> QED
    BY <1>7, <2>1
<1>11. ASSUME T # Null, NEW x \in Children(parent, T)
       PROVE  position'[x] = Reindexed(position, rank, Children(parent, T) \ sel, x)
  <2>1. T \in Due(t)
    BY <1>11 DEF Due
  <2>2. Children(parent, T) \subseteq mem
    BY <1>1, <2>1, SublinksAreRead
  <2>3. T \notin Children(parent, T)
    BY DEF TxInv, Children, rows
  <2>4. S = Children(parent, T) \ sel /\ x \in sel \cup S /\ x \in rows
    BY <1>2, <1>4, <2>2, <2>3
  <2> HIDE DEF S, pos, mem
  <2> QED
    BY <1>7, <1>8, <2>4
<1> QED
  BY <1>4, <1>5, <1>6, <1>9, <1>10, <1>11 DEF Renumbers

(* An ungrouping clears the parents of its selection.                       *)
LEMMA UngroupWrites ==
    ASSUME TxInv, NEW t \in Txs, WriteUngroup(t)
    PROVE  /\ parent' = [x \in rows |-> IF x \in call[t].sel THEN Null ELSE parent[x]]
           /\ position' = position
<1> DEFINE new == [x \in call[t].sel |-> Null]
<1>1. /\ parent' = [x \in rows |-> IF x \in DOMAIN new THEN new[x] ELSE parent[x]]
      /\ position' = [x \in rows |-> IF x \in DOMAIN <<>> THEN <<>>[x] ELSE position[x]]
  BY DEF WriteUngroup, Commit
<1>2. DOMAIN <<>> = {} /\ DOMAIN new = call[t].sel /\ \A x \in call[t].sel : new[x] = Null
  OBVIOUS
<1>3. position = [x \in rows |-> position[x]]
  BY DEF TxInv, TypeOK
<1> HIDE DEF new
<1> QED
  BY <1>1, <1>2, <1>3

(* No write gives a sublink to a parent whose sublinks another transaction  *)
(* has asked for: that one holds the parent, or, when the parent is one its *)
(* selection leaves, a sublink that the writer must have read.              *)
LEMMA NobodyJoins ==
    ASSUME TxInv, NEW t \in Txs, NEW u \in Txs, u # t,
           WriteGroup(t) \/ WriteReorder(t) \/ WriteUngroup(t),
           pc[u] = "siblings", NEW p \in Due(u), p \notin unread[u]
    PROVE  Children(parent, p)' \subseteq Children(parent, p)
<1>1. p # Null /\ DOMAIN parent' = DOMAIN parent
  BY DEF Due, WriteGroup, WriteReorder, WriteUngroup, Commit, TxInv, TypeOK, rows
<1>2. CASE WriteReorder(t)
  BY <1>2, ReorderWrites DEF Renumbers
<1>3. CASE WriteUngroup(t)
  BY <1>1, <1>3, UngroupWrites DEF Children, rows
<1>4. CASE WriteGroup(t)
  <2> SUFFICES ASSUME p = Target(t)
               PROVE  FALSE
    BY <1>1, <1>4, GroupWritesWhole DEF Children, GroupedParent
  <2>1. /\ At(t, "siblings") /\ unread[t] = {} /\ pc[t] = "siblings"
        /\ Reads(t) /\ Reads(u)
    BY <1>4 DEF WriteGroup, At, TxInv
  <2>2. held[t] \cap held[u] = {} /\ DOMAIN seen[t] \subseteq held[t]
        /\ DOMAIN seen[u] \subseteq held[u]
    BY DEF TxInv, LockInv, LocksExclude, MemoryIsLocked
  <2>3. p \in held[t]
    BY <1>1, <2>1 DEF Reads, TargetIsLocked
  <2>4. CASE p = Target(u)
    BY <1>1, <2>1, <2>2, <2>3, <2>4 DEF Reads, TargetIsLocked
  <2>5. CASE p # Target(u)
    <3>1. PICK x \in call[u].sel : p = seen[u][x].par
      BY <2>5 DEF Due
    <3>2. x \in DOMAIN seen[u]
      BY <2>1 DEF Reads, SelectionIsRead
    <3>3. seen[u][x] = Reading(x) /\ x \in rows
      BY <2>2, <3>2 DEF TxInv, LockInv, MemoryIsCurrent, TxTypes
    <3>4. Reading(x).par = parent[x]
      BY DEF Reading
    <3>5. x \in Children(parent, p)
      BY <3>1, <3>3, <3>4 DEF Children, rows
    <3>6. p \in Due(t)
      BY <1>1 DEF Due
    <3>7. x \in DOMAIN seen[t]
      BY <2>1, <3>5, <3>6, SublinksAreRead
    <3> QED
      BY <2>2, <3>2, <3>7
  <2> QED
    BY <2>4, <2>5
<1> QED
  BY <1>2, <1>3, <1>4

(* A renumbered set of sublinks has no ties.                                *)
LEMMA RenumberingNeverTies ==
    ASSUME TypeOK, SublinksNeverTie, NEW T, NEW sel, NEW rank, Renumbers(T, sel, rank)
    PROVE  SublinksNeverTie'
<1> DEFINE S == Children(parent, T) \ sel
<1>0. /\ parent' = parent /\ sel \in SUBSET Children(parent, T)
      /\ rank \in [sel -> 1 .. Cardinality(sel)]
      /\ \A v, w \in sel : v # w => rank[v] # rank[w]
      /\ \A x \in rows : parent[x] # T => position'[x] = position[x]
      /\ T # Null => \A x \in Children(parent, T) : position'[x] = Reindexed(position, rank, S, x)
  BY DEF Renumbers
<1>1. /\ IsFiniteSet(sel) /\ IsFiniteSet(S) /\ S \subseteq Nat /\ sel \cap S = {}
      /\ \A z \in S : position[z] \in Nat
  <2>1. sel \in SUBSET rows /\ S \in SUBSET rows
    BY <1>0 DEF Children, rows
  <2> QED
    BY <2>1, TableIsForest, FS_Subset DEF TypeOK
<1> SUFFICES ASSUME NEW x \in rows, NEW y \in rows, x # y,
                    parent[x] = parent[y], parent[x] # Null
             PROVE  position'[x] # position'[y]
  BY <1>0 DEF SublinksNeverTie, rows
<1>2. CASE parent[x] # T
  BY <1>0, <1>2 DEF SublinksNeverTie
<1>3. CASE parent[x] = T
  <2>1. x \in sel \cup S /\ y \in sel \cup S
    BY <1>3 DEF Children, rows
  <2>2. /\ position'[x] = Reindexed(position, rank, S, x)
        /\ position'[y] = Reindexed(position, rank, S, y)
    BY <1>0, <1>3, <2>1 DEF Children, rows
  <2> HIDE DEF S
  <2>3. /\ rank \in [sel -> 1 .. Cardinality(sel)]
        /\ \A v, w \in sel : v # w => rank[v] # rank[w]
    BY <1>0
  <2>4. Reindexed(position, rank, S, x) # Reindexed(position, rank, S, y)
    BY ONLY <1>1, <2>1, <2>3, x # y, ReindexedNeverTies
  <2> QED
    BY <2>2, <2>4
<1> QED
  BY <1>2, <1>3

(* What a write leaves in the table.                                        *)
LEMMA WritesKeepTable ==
    ASSUME TxInv, SublinksNeverTie, NEW t \in Txs,
           WriteGroup(t) \/ WriteReorder(t) \/ WriteUngroup(t)
    PROVE  /\ TypeOK' /\ SublinksNeverTie'
           /\ \A x \in rows' : parent'[x] # x
<1>1. TypeOK /\ rows' = rows /\ occurred_at' = occurred_at /\ caller' = caller
  BY DEF TxInv, WriteGroup, WriteReorder, WriteUngroup, Commit, rows
<1>2. \A x \in rows : x # Null /\ parent[x] # x
  BY <1>1, TableIsForest DEF TxInv
<1>3. CASE WriteGroup(t)
  <2>1. /\ parent' = GroupedParent(parent, call[t].sel, Target(t))
        /\ position' = GroupedPosition(parent, position, call[t].sel, Target(t))
        /\ call[t].sel \in SUBSET rows /\ Target(t) \in rows
    <3>1. pc[t] # "idle" /\ call[t].kind = "group"
      BY <1>3 DEF WriteGroup, At
    <3> QED
      BY <1>3, <3>1, GroupWritesWhole, RunningCalls DEF Selections
  <2>2. TypeOK'
    BY <1>1, <2>1, GroupedTyped DEF TypeOK
  <2>3. SublinksNeverTie'
    BY <1>1, <2>1, GroupingNeverTies
  <2>4. \A x \in rows : parent'[x] # x
    BY <1>2, <2>1 DEF GroupedParent, rows
  <2> QED
    BY <1>1, <2>2, <2>3, <2>4
<1>4. CASE WriteReorder(t)
  <2>1. Renumbers(Target(t), call[t].sel, NamedRank(call[t].named))
    BY <1>4, ReorderWrites
  <2>2. parent' = parent /\ position' \in [rows -> Nat]
    BY <2>1 DEF Renumbers
  <2>3. TypeOK'
    BY <1>1, <2>2 DEF TypeOK
  <2>4. SublinksNeverTie'
    BY <1>1, <2>1, RenumberingNeverTies
  <2> QED
    BY <1>1, <1>2, <2>2, <2>3, <2>4
<1>5. CASE WriteUngroup(t)
  <2>1. /\ parent' = [x \in rows |-> IF x \in call[t].sel THEN Null ELSE parent[x]]
        /\ position' = position
    BY <1>5, UngroupWrites
  <2>2. TypeOK'
    BY <1>1, <2>1 DEF TypeOK
  <2>3. SublinksNeverTie'
    BY <1>1, <2>1 DEF SublinksNeverTie
  <2> QED
    BY <1>1, <1>2, <2>1, <2>2, <2>3
<1> QED
  BY <1>3, <1>4, <1>5

(* Every step of every call keeps what the others have read, and a call     *)
(* reads before it writes.                                                  *)
LEMMA TxInductive ==
    ASSUME TxInv, SublinksNeverTie, [TxNext]_txVars
    PROVE  TxInv' /\ SublinksNeverTie'
<1>1. /\ rows' = rows /\ occurred_at' = occurred_at /\ caller' = caller
      /\ DOMAIN unread' = Txs /\ DOMAIN reading' = Txs
      /\ LockInv'
  BY StepsKeepTable, LocksStep DEF TxInv
<1>2. ASSUME parent' = parent, position' = position
      PROVE  TypeOK' /\ SublinksNeverTie' /\ \A x \in rows' : parent'[x] # x
  BY <1>1, <1>2 DEF TxInv, TypeOK, SublinksNeverTie
<1>3. CASE UNCHANGED txVars
  <2>1. ASSUME NEW u \in Txs
        PROVE  Reads(u)'
    <3>1. Reads(u) /\ \A p : Children(parent, p)' = Children(parent, p)
      BY <1>3 DEF TxInv, txVars
    <3> QED
      BY <1>3, <3>1, OthersKeepReads DEF txVars
  <2> QED
    BY <1>1, <1>2, <1>3, <2>1 DEF TxInv, txVars
<1>4. ASSUME NEW t \in Txs,
             \/ \E x \in rows : LockRow(t, x)
             \/ \E c \in Calls : Begin(t, c)
             \/ AfterSelection(t) \/ ReadChain(t) \/ ReadHeights(t)
             \/ \E p : FindSiblings(t, p)
             \/ Abort(t)
      PROVE  TxInv' /\ SublinksNeverTie'
  <2>1. UNCHANGED table
    BY <1>4 DEF LockRow, Begin, AfterSelection, ReadChain, ReadHeights, FindSiblings, Abort
  <2>2. Reads(t)'
    <3>1. CASE Abort(t)
      <4>1. /\ pc'[t] = "idle" /\ call'[t] = NoCall /\ seen'[t] = <<>> /\ want'[t] = {}
        BY <3>1 DEF Abort, Finished, TxInv, LockInv, TxTypes
      <4> QED
        BY <4>1, NothingToRead
    <3> QED
      BY <1>4, <3>1, BeginReads, LockRowReads, StatementReads
  <2>3. \A u \in Txs : Reads(u)'
    BY <1>4, <2>1, <2>2, ReadersKeepReads
  <2> QED
    BY <1>1, <1>2, <2>1, <2>3 DEF TxInv, table
<1>5. ASSUME NEW t \in Txs, WriteGroup(t) \/ WriteReorder(t) \/ WriteUngroup(t)
      PROVE  TxInv' /\ SublinksNeverTie'
  <2>1. /\ TypeOK' /\ SublinksNeverTie' /\ \A x \in rows' : parent'[x] # x
    BY <1>5, WritesKeepTable
  <2>2. Finished(t)
    BY <1>5 DEF WriteGroup, WriteReorder, WriteUngroup, Commit
  <2>3. Reads(t)'
    <3>1. /\ pc'[t] = "idle" /\ call'[t] = NoCall /\ seen'[t] = <<>> /\ want'[t] = {}
      BY <2>2 DEF Finished, TxInv, LockInv, TxTypes
    <3> QED
      BY <3>1, NothingToRead
  <2>4. ASSUME NEW u \in Txs, u # t
        PROVE  Reads(u)'
    <3>1. /\ pc'[u] = pc[u] /\ call'[u] = call[u] /\ want'[u] = want[u]
          /\ held'[u] = held[u] /\ seen'[u] = seen[u] /\ unread'[u] = unread[u]
          /\ reading'[u] = reading[u] /\ Reads(u)
      BY <2>2, <2>4 DEF Finished, TxInv, LockInv, TxTypes
    <3>2. \A p \in Due(u) : pc[u] = "siblings" /\ p \notin unread[u] =>
             Children(parent, p)' \subseteq Children(parent, p)
      BY <1>5, <2>4, NobodyJoins
    <3> QED
      BY <1>1, <3>1, <3>2, OthersKeepReads
  <2> QED
    BY <1>1, <2>1, <2>3, <2>4 DEF TxInv
<1>6. CASE TxNext
  <2>1. PICK t \in Txs : TxStep(t) \/ \E c \in Calls : Begin(t, c)
    BY <1>6 DEF TxNext
  <2>2. CASE RefuseSelection(t) \/ RefuseChain(t) \/ RefuseHeights(t) \/ DeadlockVictim(t)
    BY <1>4, <2>2 DEF RefuseSelection, RefuseChain, RefuseHeights, DeadlockVictim
  <2> QED
    BY <1>4, <1>5, <2>1, <2>2 DEF TxStep
<1> QED
  BY <1>3, <1>6

(* The table the calls start from numbers every sibling set 10, 20, 30, ... *)
LEMMA TxInitially == TxInit => TxInv /\ SublinksNeverTie
<1> SUFFICES ASSUME TxInit
             PROVE  TxInv /\ SublinksNeverTie
  OBVIOUS
<1> DEFINE upto(x) == {y \in rows : parent[y] = parent[x] /\ y <= x}
<1>1. /\ parent \in InitialForests /\ rows = DOMAIN parent
      /\ rows \subseteq Links /\ parent \in [rows -> rows \cup {Null}] /\ Acyclic(parent)
      /\ occurred_at \in [rows -> Instants] /\ caller \in Users
  BY CallsAssumption, UsersAssumption DEF TxInit, rows
<1>2. IsFiniteSet(rows) /\ rows \subseteq Nat
  BY <1>1, LinksAssumption, FS_Subset
<1>3. ASSUME NEW x \in rows
      PROVE  /\ IsFiniteSet(upto(x)) /\ Cardinality(upto(x)) \in Nat
             /\ position[x] = 10 * Cardinality(upto(x))
  <2>1. position[x] = 10 * Cardinality(upto(x))
    BY DEF TxInit, PositionStep
  <2>2. upto(x) \in SUBSET rows
    OBVIOUS
  <2> HIDE DEF upto
  <2> QED
    BY <1>2, <2>1, <2>2, FS_Subset, FS_CardinalityType
<1>4. TypeOK
  <2>1. position = [x \in rows |-> position[x]]
    BY DEF TxInit
  <2> HIDE DEF upto
  <2> QED
    BY <1>1, <1>3, <2>1 DEF TypeOK
<1>5. SublinksNeverTie
  <2>1. ASSUME NEW x \in rows, NEW y \in rows, x < y, parent[x] = parent[y]
        PROVE  position[x] # position[y]
    <3>1. upto(x) \in SUBSET upto(y)
      <4>1. \A z \in rows : z <= x => z <= y
        BY <1>2, <2>1
      <4> QED
        BY <2>1, <4>1
    <3>2. y \in upto(y) /\ y \notin upto(x)
      BY <1>2, <2>1
    <3> HIDE DEF upto
    <3>3. Cardinality(upto(x)) # Cardinality(upto(y))
      BY <1>3, <3>1, <3>2, FS_Subset
    <3> QED
      BY <1>3, <3>3
  <2> QED
    BY <1>2, <2>1 DEF SublinksNeverTie
<1>6. \A x \in rows : parent[x] # x
  <2>1. ASSUME NEW x \in rows
        PROVE  parent[x] # x
    <3>1. {x} \in SUBSET DOMAIN parent
      BY <1>1
    <3> QED
      BY <1>1, <3>1 DEF Acyclic
  <2> QED
    BY <2>1
<1>7. \A t \in Txs : Reads(t)
  BY DEF TxInit, Reads, SiblingsCovered, TargetIsLocked, SelectionIsRead, ReorderReads, NoCall
<1> QED
  BY <1>4, <1>5, <1>6, <1>7, LocksInitially DEF TxInv, TxInit

(* However many calls overlap, the sublinks of a row have a stored order    *)
(* without ties: every sublink of a parent that is renumbered has been      *)
(* read, and nobody joins them before the numbers are written.              *)
THEOREM OverlappingNeverTie == TxSpec => []SublinksNeverTie
<1>1. TxInv /\ SublinksNeverTie /\ [TxNext]_txVars => (TxInv /\ SublinksNeverTie)'
  BY TxInductive
<1> QED
  BY <1>1, TxInitially, PTL DEF TxSpec

(* A call that commits among others writes what the same call would write   *)
(* alone on the table as it is then: from the rows in memory it computes    *)
(* what the whole table would give.  The roots are the exception: nothing   *)
(* keeps a link from joining them while they are reordered.                 *)
GroupsAsAlone(t) ==
    WriteGroup(t) =>
        /\ parent' = GroupedParent(parent, call[t].sel, Target(t))
        /\ position' = GroupedPosition(parent, position, call[t].sel, Target(t))

ReordersAsAlone(t) ==
    LET all == Children(parent, Target(t))
    IN  WriteReorder(t) /\ Target(t) # Null =>
            /\ parent' = parent /\ call[t].sel \subseteq all
            /\ \A x \in rows :
                  position'[x] = IF x \in all
                                 THEN Reindexed(position, NamedRank(call[t].named),
                                                all \ call[t].sel, x)
                                 ELSE position[x]

WritesAsAlone == [][\A t \in Txs : GroupsAsAlone(t) /\ ReordersAsAlone(t)]_txVars

(* The rows that group and reorder lock are all that their writes depend    *)
(* on: overlapping calls write what calls that run alone write.             *)
THEOREM CallsWriteAsAlone == TxSpec => WritesAsAlone
<1>1. TxInv /\ SublinksNeverTie /\ [TxNext]_txVars => (TxInv /\ SublinksNeverTie)'
  BY TxInductive
<1>2. ASSUME TxInv, NEW t \in Txs
      PROVE  GroupsAsAlone(t)
  BY <1>2, GroupWritesWhole DEF GroupsAsAlone
<1>3. ASSUME TxInv, NEW t \in Txs
      PROVE  ReordersAsAlone(t)
  <2> SUFFICES ASSUME WriteReorder(t), Target(t) # Null
               PROVE  ReordersAsAlone(t)
    BY DEF ReordersAsAlone
  <2>1. Renumbers(Target(t), call[t].sel, NamedRank(call[t].named))
    BY <1>3, ReorderWrites
  <2> QED
    BY <2>1 DEF Renumbers, ReordersAsAlone, Children, rows
<1>4. TxInv => \A t \in Txs : GroupsAsAlone(t) /\ ReordersAsAlone(t)
  BY <1>2, <1>3
<1> QED
  BY <1>1, <1>4, TxInitially, PTL DEF TxSpec, WritesAsAlone
===========================================================================
