------------------------------ MODULE Mempool -------------------------------
(***************************************************************************)
(* The default transaction pool (mempool/mempool.go) on its concurrent     *)
(* list (modules/go-clist) with one broadcastTxRoutine per peer            *)
(* (mempool/reactor.go).  ReceiveTx takes no lock of the pool: a receiver  *)
(* is a goroutine with a step per call it makes.  Update and Flush hold    *)
(* the pool's mutex and remove one element at a time; the broadcast        *)
(* routines hold no lock and wait on WaitGroups.                           *)
(*                                                                         *)
(* Elements are numbered in the order of PushBack.  Peers are up to date   *)
(* and Send succeeds; what a lagging peer changes is only when Send runs.  *)
(***************************************************************************)
EXTENDS Absent, Integers, Sequences, FiniteSets, FiniteSetsExt, SequencesExt

CONSTANTS TxValues,     \* transactions
          CacheSize, TxLimit,
          MemReceivers, \* goroutines that call ReceiveTx
          MemPeers,     \* peers with a broadcastTxRoutine
          MemBlocks,    \* the blocks that may be committed: sets of transactions
          MaxElements,  \* bound on the elements ever pushed
          MemBounds     \* bounds: sets of [receivers, refreshes, limited]: who receives, how many
                        \* calls of Update and Flush there are, and mempool_enable_txs_limits

ASSUME MempoolAssumption == CacheSize \in Nat \ {0} /\ TxLimit \in Nat /\ MaxElements \in Nat

VARIABLES
    txList,    \* CList: the elements from head to tail
    element,   \* CElement of each element pushed: [tx, next, removed, nextWg]
    listWg,    \* the counter of CList.wg
    checkMap,  \* txCache.checkMap
    cacheList, \* txCache.list
    receiver,  \* each receiver: [pc, tx]
    refresh,   \* what the holder of the mutex is removing: [left, block], or None
    broadcaster,   \* each broadcastTxRoutine: [pc, next]
    sentTo,    \* elements each peer has been sent
    evicted,   \* whether the cache ever dropped a transaction of the list for want of room
    flushed,   \* whether Flush was ever called
    memBound   \* what is left of the bounds

mempoolVars == <<txList, element, listWg, checkMap, cacheList, receiver, refresh, broadcaster, sentTo, evicted, flushed, memBound>>
listVars == <<txList, element, listWg, broadcaster>>

MemInit ==
    /\ txList = <<>> /\ element = <<>> /\ listWg = 1
    /\ checkMap = {} /\ cacheList = <<>>
    /\ receiver = [r \in MemReceivers |-> [pc |-> "idle", tx |-> None]]
    /\ refresh = None
    /\ broadcaster = [p \in MemPeers |-> [pc |-> "front", next |-> None]]
    /\ sentTo = [p \in MemPeers |-> {}] /\ evicted = FALSE /\ flushed = FALSE
    /\ memBound \in MemBounds

-----------------------------------------------------------------------------
(* CList.  A WaitGroup whose counter reaches zero releases its waiters;    *)
(* one that finds the counter raised again when it runs panics.            *)

\* WaitGroup.Done of CList.wg, or of the nextWg of element e.
releaseFront(rs)   == [p \in MemPeers |-> IF rs[p].pc = "front waiting" THEN [rs[p] EXCEPT !.pc = "front released"] ELSE rs[p]]
releaseNext(rs, e) == [p \in MemPeers |-> IF rs[p].pc = "next waiting" /\ rs[p].next = e
                                          THEN [rs[p] EXCEPT !.pc = "next released"] ELSE rs[p]]

\* PushBack, with setNextAtomic on the old tail.
PushBack(tx) ==
    LET e    == Len(element) + 1
        new  == [tx |-> tx, next |-> None, removed |-> FALSE, nextWg |-> 1]
        tail == Last(txList)
    IN  /\ e <= MaxElements
        /\ txList' = Append(txList, e)
        /\ IF txList = <<>>
           THEN listWg' = 0 /\ element' = Append(element, new) /\ broadcaster' = releaseFront(broadcaster)
           ELSE /\ element' = Append([element EXCEPT ![tail].next = e, ![tail].nextWg = 0], new)
                /\ broadcaster' = releaseNext(broadcaster, tail)
                /\ UNCHANGED listWg

\* A mistake: the waiters on a removed tail are not released.
BugNoRelease(e) ==
    LET rest == Remove(txList, e)
        i    == CHOOSE k \in DOMAIN txList : txList[k] = e
        next == element[e].next
        gone == [element EXCEPT ![e].removed = TRUE]
    IN  /\ txList' = rest /\ listWg' = (IF rest = <<>> THEN 1 ELSE listWg)
        /\ element' = IF i = 1 THEN gone
                      ELSE [gone EXCEPT ![txList[i - 1]].next = next,
                                        ![txList[i - 1]].nextWg = IF next = None THEN 1 ELSE @]
        /\ UNCHANGED broadcaster

\* Remove: the element keeps its own next; its predecessor is linked past it.
RemoveElement(e) ==
    LET rest == Remove(txList, e)
        i    == CHOOSE k \in DOMAIN txList : txList[k] = e
        next == element[e].next
        gone == [element EXCEPT ![e].removed = TRUE, ![e].nextWg = 0]
    IN  /\ txList' = rest
        /\ listWg' = IF rest = <<>> THEN 1 ELSE listWg
        /\ element' = IF i = 1 THEN gone
                      ELSE [gone EXCEPT ![txList[i - 1]].next = next,
                                        ![txList[i - 1]].nextWg = IF next = None THEN 1 ELSE @]
        /\ broadcaster' = IF next = None THEN releaseNext(broadcaster, e) ELSE broadcaster

-----------------------------------------------------------------------------
(* ReceiveTx.                                                              *)

At(r, pc, tx) == receiver' = [receiver EXCEPT ![r] = [pc |-> pc, tx |-> tx]]

\* The cache, the limit (where it is configured) and the filters.
CheckTx(r, tx) ==
    /\ receiver[r].pc = "idle" /\ r \in memBound.receivers
    /\ tx \notin checkMap /\ (memBound.limited => Len(txList) <= TxLimit)
    /\ At(r, "checked", tx)
    /\ UNCHANGED <<listVars, checkMap, cacheList, refresh, sentTo, evicted, flushed, memBound>>

\* txCache.Push: the oldest entry of the list makes room, even if it is an
\* old entry of a transaction that was removed from the map and came back.
CachePush(r) ==
    LET tx    == receiver[r].tx
        full  == Len(cacheList) >= CacheSize
        older == IF full THEN checkMap \ {Head(cacheList)} ELSE checkMap
        live  == {element[txList[i]].tx : i \in DOMAIN txList}
                     \cup {receiver[q].tx : q \in {q \in MemReceivers : receiver[q].pc = "pushed"}}
    IN  /\ receiver[r].pc = "checked"
        /\ IF tx \in checkMap
           THEN At(r, "idle", None) /\ UNCHANGED <<checkMap, cacheList, evicted>>
           ELSE /\ checkMap' = older \cup {tx}
                /\ cacheList' = Append(IF full THEN Tail(cacheList) ELSE cacheList, tx)
                /\ evicted' = (evicted \/ (full /\ Head(cacheList) \in checkMap \cap live))
                /\ At(r, "pushed", tx)
        /\ UNCHANGED <<listVars, refresh, sentTo, flushed, memBound>>

ListPush(r) ==
    /\ receiver[r].pc = "pushed"
    /\ PushBack(receiver[r].tx) /\ At(r, "idle", None)
    /\ UNCHANGED <<checkMap, cacheList, refresh, sentTo, evicted, flushed, memBound>>

-----------------------------------------------------------------------------
(* Update and Flush.                                                       *)

\* Update: the elements the list has now are looked at in turn.
Update(block) ==
    /\ refresh = None /\ memBound.refreshes > 0
    /\ memBound' = [memBound EXCEPT !.refreshes = @ - 1]
    /\ refresh' = [left |-> txList, block |-> block]
    /\ UNCHANGED <<listVars, checkMap, cacheList, receiver, sentTo, evicted, flushed>>

\* A mistake: committed transactions stay in the cache.
BugCacheKept ==
    /\ refresh # None /\ refresh.block # None /\ refresh.left # <<>>
    /\ LET e == Head(refresh.left)
       IN  \/ RemoveElement(e)
           \/ element[e].tx \notin refresh.block /\ UNCHANGED listVars
    /\ refresh' = [refresh EXCEPT !.left = Tail(@)]
    /\ UNCHANGED <<checkMap, cacheList, receiver, sentTo, evicted, flushed, memBound>>

\* One turn of refreshMempoolTxs: the transaction is in the block, or a filter
\* refuses it now, or it stays.
RefreshTx ==
    /\ refresh # None /\ refresh.block # None /\ refresh.left # <<>>
    /\ LET e == Head(refresh.left)
       IN  \/ RemoveElement(e) /\ checkMap' = checkMap \ {element[e].tx}
           \/ element[e].tx \notin refresh.block /\ UNCHANGED <<listVars, checkMap>>
    /\ refresh' = [refresh EXCEPT !.left = Tail(@)]
    /\ UNCHANGED <<cacheList, receiver, sentTo, evicted, flushed, memBound>>

\* Flush: Reset of the cache, then every element up to the end of the list,
\* which may still grow.
Flush ==
    /\ refresh = None /\ memBound.refreshes > 0
    /\ memBound' = [memBound EXCEPT !.refreshes = @ - 1]
    /\ checkMap' = {} /\ cacheList' = <<>> /\ flushed' = TRUE
    /\ refresh' = [left |-> txList, block |-> None]
    /\ UNCHANGED <<listVars, receiver, sentTo, evicted>>

FlushTx ==
    /\ refresh # None /\ refresh.block = None /\ txList # <<>>
    /\ RemoveElement(Head(txList))
    /\ UNCHANGED <<checkMap, cacheList, receiver, refresh, sentTo, evicted, flushed, memBound>>

\* The mutex is released.
EndRefresh ==
    /\ refresh # None
    /\ IF refresh.block = None THEN txList = <<>> ELSE refresh.left = <<>>
    /\ refresh' = None
    /\ UNCHANGED <<listVars, checkMap, cacheList, receiver, sentTo, evicted, flushed, memBound>>

-----------------------------------------------------------------------------
(* broadcastTxRoutine.                                                     *)

Go(p, pc, e) == broadcaster' = [broadcaster EXCEPT ![p] = [pc |-> pc, next |-> e]]

\* FrontWait reads the head under the list's mutex, ...
FrontWait(p) ==
    /\ broadcaster[p].pc = "front"
    /\ IF txList = <<>> THEN Go(p, "front wait", None) ELSE Go(p, "send", Head(txList))
    /\ UNCHANGED sentTo

\* Send, then NextWait.
SendTx(p) ==
    /\ broadcaster[p].pc = "send"
    /\ sentTo' = [sentTo EXCEPT ![p] = @ \cup {broadcaster[p].next}]
    /\ Go(p, "next wait", broadcaster[p].next)

\* ... and WaitGroup.Wait without it: it returns at once or blocks, ...
Wait(p) ==
    LET at == broadcaster[p]
    IN  /\ \/ at.pc = "front wait" /\ Go(p, IF listWg = 0 THEN "front" ELSE "front waiting", None)
           \/ at.pc = "next wait" /\ Go(p, IF element[at.next].nextWg = 0 THEN "next" ELSE "next waiting", at.next)
        /\ UNCHANGED sentTo

\* ... and when released it insists that the counter is still zero.
Released(p) ==
    LET at == broadcaster[p]
    IN  /\ \/ at.pc = "front released" /\ Go(p, IF listWg = 0 THEN "front" ELSE "panicked", None)
           \/ at.pc = "next released" /\ Go(p, IF element[at.next].nextWg = 0 THEN "next" ELSE "panicked", at.next)
        /\ UNCHANGED sentTo

\* The rest of NextWait: nil only from a removed tail, and then from the front.
NextElement(p) ==
    LET e == broadcaster[p].next
    IN  /\ broadcaster[p].pc = "next"
        /\ IF element[e].next # None THEN Go(p, "send", element[e].next)
           ELSE IF element[e].removed THEN Go(p, "front", None)
           ELSE Go(p, "next wait", e)
        /\ UNCHANGED sentTo

Broadcast(p) ==
    /\ FrontWait(p) \/ SendTx(p) \/ Wait(p) \/ Released(p) \/ NextElement(p)
    /\ UNCHANGED <<txList, element, listWg, checkMap, cacheList, receiver, refresh, evicted, flushed, memBound>>

MemNext ==
    \/ \E r \in MemReceivers : CachePush(r) \/ ListPush(r) \/ \E tx \in TxValues : CheckTx(r, tx)
    \/ \E block \in MemBlocks : Update(block)
    \/ RefreshTx \/ Flush \/ FlushTx \/ EndRefresh
    \/ \E p \in MemPeers : Broadcast(p)

\* The Go scheduler runs every broadcaster that can run.
MemFairness == \A p \in MemPeers : WF_mempoolVars(Broadcast(p))

MemSpec == MemInit /\ [][MemNext]_mempoolVars /\ MemFairness

-----------------------------------------------------------------------------
RoutineSteps == {"front", "front wait", "front waiting", "front released", "send", "next wait",
                 "next waiting", "next released", "next", "panicked"}

\* The variables have the types of the code.
MemTypeOK ==
    /\ \A e \in DOMAIN element : /\ element[e].tx \in TxValues /\ element[e].nextWg \in 0 .. 1
                                 /\ element[e].next \in DOMAIN element \cup {None}
    /\ IsInjective(txList) /\ ToSet(txList) = {e \in DOMAIN element : ~element[e].removed}
    /\ listWg \in 0 .. 1 /\ checkMap \subseteq ToSet(cacheList) /\ ToSet(cacheList) \subseteq TxValues
    /\ Len(cacheList) <= CacheSize
    /\ memBound.limited => Len(txList) <= TxLimit + Cardinality(memBound.receivers)
    /\ \A r \in MemReceivers : receiver[r].pc \in {"idle", "checked", "pushed"}
    /\ \A p \in MemPeers : broadcaster[p].pc \in RoutineSteps

Pooled(tx) == {e \in ToSet(txList) : element[e].tx = tx}

\* The cache keeps a transaction from being in the pool twice although nothing
\* else does, until it has had to drop the entry of one that is in the pool or
\* Flush has emptied it under the feet of a receiver; and a transaction the cache
\* refuses is in the pool or on its way into it, also when it is received while
\* the block that has it is committed: otherwise it could not be submitted again.
CachedIsPooled ==
    /\ MemTypeOK
    /\ evicted \/ flushed \/ \A tx \in TxValues : Cardinality(Pooled(tx)) <= 1
    /\ flushed \/ \A tx \in checkMap :
          \/ Pooled(tx) # {}
          \/ \E r \in MemReceivers : receiver[r] = [pc |-> "pushed", tx |-> tx]

\* Whatever is pushed and removed around it, a transaction that stays in the
\* pool is sent to every peer: no wake-up is lost.
AllSent == \A p \in MemPeers : ToSet(txList) \subseteq sentTo[p] \/ broadcaster[p].pc = "panicked"
EveryTxIsSent == []<>AllSent

=============================================================================
