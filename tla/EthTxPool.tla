----------------------------- MODULE EthTxPool ------------------------------
(***************************************************************************)
(* The transaction pool of the EVM application: chain/app/evm/tx_pool.go   *)
(* and its nonce-sorted maps (tx_sort.go), between the goroutines that     *)
(* receive transactions and the one that commits blocks.  The committer    *)
(* calls Update before the application has committed the block, then       *)
(* OnCommit swaps the state the pool takes nonces from, then calls         *)
(* updateToState; transactions are received in between.                    *)
(*                                                                         *)
(* A transaction is [from, nonce, id]; id stands for the rest of what is   *)
(* hashed.  A map from accounts to txSortedMaps is the set of the          *)
(* transactions in it, of one account never two with one nonce: an account *)
(* whose map would be empty has no entry.                                  *)
(***************************************************************************)
EXTENDS Integers, Sequences, FiniteSets, FiniteSetsExt, SequencesExt

CONSTANTS Txs,           \* the transactions
          AdminOps,      \* the admin operations
          PendingLimit, WaitingLimit,
          Blocks,        \* the blocks that may be committed: sets of the above
          Receivers,     \* bound on the calls of ReceiveTx at one time
          MaxArrivals    \* bound on what is received

ASSUME EthTxPoolAssumption == PendingLimit \in Nat \ {0} /\ WaitingLimit \in Nat \ {0}

VARIABLES
    pool,        \* [pending, waiting, waitingBeats, all, extTxs, broadcastQueue]
    stateNonce,  \* the nonce of each account in app.state
    accepted,    \* transactions between CheckAndAdd and broadcastNewTx
    commitStep,  \* where the committer is: "idle", "updated" or "swapped"
    committed,   \* the block being committed
    wasFull,     \* whether the waiting queue was ever full
    arrivals     \* how much has been received

txPoolVars == <<pool, stateNonce, accepted, commitStep, committed, wasFull, arrivals>>

Accounts == {t.from : t \in Txs}
Nonces   == 0 .. Max({t.nonce : t \in Txs}) + 1
EmptyPool == [pending |-> {}, waiting |-> {}, waitingBeats |-> {}, all |-> {},
              extTxs |-> <<>>, broadcastQueue |-> <<>>]

TxPoolInit ==
    /\ pool = EmptyPool /\ stateNonce = [a \in Accounts |-> 0]
    /\ accepted = {} /\ commitStep = "idle" /\ committed = {} /\ wasFull = FALSE
    /\ arrivals = 0

-----------------------------------------------------------------------------
(* txSortedMap.                                                            *)

Of(S, a)     == {t \in S : t.from = a}
Get(S, a, n) == {t \in Of(S, a) : t.nonce = n}

\* Forward: what it removes, the transactions below the threshold.
Forward(S, a, threshold) == {t \in Of(S, a) : t.nonce < threshold}

\* ReadyN: the unbroken run from the lowest nonce, when that is not above
\* start, cut after count transactions.
ReadyN(S, a, start, count) ==
    LET nonces == {t.nonce : t \in Of(S, a)}
        first  == Min(nonces)
    IN  IF nonces = {} THEN {}
        ELSE {t \in Of(S, a) : /\ first <= start /\ t.nonce < first + count
                               /\ first .. t.nonce \subseteq nonces}

MaxNonceTx(S, a) == CHOOSE t \in Of(S, a) : \A u \in Of(S, a) : u.nonce <= t.nonce

-----------------------------------------------------------------------------
(* The queues.                                                             *)

\* addWaiting, as [pool, ok].  In a full queue TryReplace gives up the highest
\* nonce of the account before it knows whether the new one fits.
addWaiting(p, t) ==
    LET full  == Cardinality(p.waiting) >= WaitingLimit
        cut   == full /\ Of(p.waiting, t.from) # {} /\ MaxNonceTx(p.waiting, t.from).nonce > t.nonce
        rest  == IF cut THEN p.waiting \ {MaxNonceTx(p.waiting, t.from)} ELSE p.waiting
        added == (full => cut) /\ Get(rest, t.from, t.nonce) = {}
    IN  [ok |-> added,
         pool |-> [p EXCEPT !.waiting = IF added THEN rest \cup {t} ELSE rest,
                            !.waitingBeats = IF added THEN @ \cup {t.from} ELSE @]]

\* One account in promoteExecutables.  What pending refuses is in no queue.
promote(p, a) ==
    LET old   == Forward(p.waiting, a, stateNonce[a])
        ready == ReadyN(p.waiting \ old, a, stateNonce[a], PendingLimit - Cardinality(p.pending))
        rest  == p.waiting \ (old \cup ready)
    IN  IF Cardinality(p.pending) >= PendingLimit THEN p
        ELSE [p EXCEPT !.all = @ \ old, !.waiting = rest,
                       !.waitingBeats = IF Of(rest, a) = {} THEN @ \ {a} ELSE @,
                       !.pending = @ \cup {t \in ready : Get(p.pending, a, t.nonce) = {}}]

promoteExecutables(p, addrs) == FoldLeft(promote, p, addrs)

\* One transaction that is postponed because of a gap in front of it.
postpone(t, p) ==
    LET added == addWaiting(p, t)
    IN  IF added.ok THEN added.pool ELSE [added.pool EXCEPT !.all = @ \ {t}]

\* One account in demoteUnexecutables.  The order in which a map yields the
\* postponed transactions does not matter: ReapedExecute shows there are none.
demote(a, p) ==
    LET old  == Forward(p.pending, a, stateNonce[a])
        rest == Of(p.pending, a) \ old
        kept == [p EXCEPT !.all = @ \ old, !.pending = @ \ old]
    IN  IF rest = {} \/ Get(rest, a, stateNonce[a]) # {} THEN kept
        ELSE FoldSet(postpone, [kept EXCEPT !.pending = @ \ rest], rest)

demoteUnexecutables(p) == FoldSet(demote, p, Accounts)

\* broadcastNewTx: a full queue loses its oldest entry.
broadcastNewTx(p, tx) ==
    LET queue == p.broadcastQueue
        room  == IF Len(queue) >= WaitingLimit + PendingLimit THEN Tail(queue) ELSE queue
    IN  [p EXCEPT !.broadcastQueue = Append(room, tx)]

-----------------------------------------------------------------------------
(* Receiving.                                                              *)

Arrives == arrivals < MaxArrivals /\ arrivals' = arrivals + 1

\* ReceiveTx up to CheckAndAdd, under the pool's mutex.
CheckAndAdd(t) ==
    LET added    == addWaiting(pool, t)
        recorded == [added.pool EXCEPT !.all = @ \cup {t}]
    IN  /\ t \notin pool.all /\ stateNonce[t.from] <= t.nonce /\ Cardinality(accepted) < Receivers
        /\ pool' = IF ~added.ok THEN added.pool
                   ELSE IF stateNonce[t.from] = t.nonce THEN promoteExecutables(recorded, <<t.from>>)
                   ELSE recorded
        /\ accepted' = IF added.ok THEN accepted \cup {t} ELSE accepted
        /\ wasFull' = (wasFull \/ Cardinality(pool.waiting) >= WaitingLimit)
        /\ Arrives
        /\ UNCHANGED <<stateNonce, commitStep, committed>>

\* The second half of ReceiveTx, after the mutex was given up.
BroadcastTx(t) ==
    /\ t \in accepted
    /\ pool' = broadcastNewTx(pool, t) /\ accepted' = accepted \ {t}
    /\ UNCHANGED <<stateNonce, commitStep, committed, wasFull, arrivals>>

handleAdminOP(op) ==
    LET ops == pool.extTxs
    IN  /\ ~Contains(ops, op)
        /\ pool' = broadcastNewTx([pool EXCEPT !.extTxs = Append(
                       IF Len(ops) >= PendingLimit THEN Tail(ops) ELSE ops, op)], op)
        /\ Arrives
        /\ UNCHANGED <<stateNonce, accepted, commitStep, committed, wasFull>>

-----------------------------------------------------------------------------
(* Committing a block, made here or elsewhere.                             *)

\* Update: an empty block changes nothing.
UpdatePool(block) ==
    LET kept(tx) == tx \notin block
    IN  /\ commitStep = "idle"
        /\ pool' = [pool EXCEPT !.broadcastQueue = SelectSeq(@, kept), !.extTxs = SelectSeq(@, kept)]
        /\ committed' = block /\ commitStep' = "updated"
        /\ UNCHANGED <<stateNonce, accepted, wasFull, arrivals>>

\* The nonce of an account after the transactions of a block: each one that
\* has the nonce of its turn raises it, the others fail.
NonceAfter(a, block) == CHOOSE n \in Nonces :
    /\ n >= stateNonce[a] /\ Get(block, a, n) = {}
    /\ \A k \in stateNonce[a] .. n - 1 : Get(block, a, k) # {}

\* OnCommit replaces app.state, under stateMtx.
SwapState ==
    /\ commitStep = "updated" /\ commitStep' = "swapped"
    /\ stateNonce' = [a \in Accounts |-> NonceAfter(a, committed \ AdminOps)]
    /\ committed' = {}
    /\ UNCHANGED <<pool, accepted, wasFull, arrivals>>

\* A mistake: a gap opens because stale transactions are left in pending.
BugNoDemotion ==
    /\ commitStep = "swapped" /\ commitStep' = "idle"
    /\ \E addrs \in SetToSeqs({t.from : t \in pool.waiting}) : pool' = promoteExecutables(pool, addrs)
    /\ UNCHANGED <<stateNonce, accepted, committed, wasFull, arrivals>>

\* updateToState, with the accounts of waiting in any order.
UpdatePoolToState ==
    /\ commitStep = "swapped" /\ commitStep' = "idle"
    /\ LET demoted == demoteUnexecutables(pool)
       IN  \E addrs \in SetToSeqs({t.from : t \in demoted.waiting}) :
               pool' = promoteExecutables(demoted, addrs)
    /\ UNCHANGED <<stateNonce, accepted, committed, wasFull, arrivals>>

\* A mistake: eviction forgets the queue and not the cache.
BugEvictKeepsCache ==
    \E expired \in SUBSET pool.waitingBeats \ {{}} :
        LET evicted == {t \in pool.waiting : /\ t.from \in expired
                                             /\ Get(pool.waiting, t.from, stateNonce[t.from]) = {}}
        IN  /\ evicted # {}
            /\ pool' = [pool EXCEPT !.waiting = @ \ evicted, !.waitingBeats = @ \ {t.from : t \in evicted}]
            /\ UNCHANGED <<stateNonce, accepted, commitStep, committed, wasFull, arrivals>>

\* A tick of loop finds that some accounts have waited too long.
Evict ==
    \E expired \in SUBSET pool.waitingBeats \ {{}} :
        LET evicted == {t \in pool.waiting : /\ t.from \in expired
                                             /\ Get(pool.waiting, t.from, stateNonce[t.from]) = {}}
        IN  /\ evicted # {}
            /\ pool' = [pool EXCEPT !.all = @ \ evicted, !.waiting = @ \ evicted,
                                    !.waitingBeats = @ \ {t.from : t \in evicted}]
            /\ UNCHANGED <<stateNonce, accepted, commitStep, committed, wasFull, arrivals>>

FlushPool ==
    /\ pool' = EmptyPool
    /\ UNCHANGED <<stateNonce, accepted, commitStep, committed, wasFull, arrivals>>

TxPoolNext ==
    \/ \E t \in Txs : CheckAndAdd(t) \/ BroadcastTx(t)
    \/ \E op \in AdminOps : handleAdminOP(op)
    \/ \E block \in Blocks : UpdatePool(block)
    \/ SwapState \/ UpdatePoolToState \/ Evict \/ FlushPool

TxPoolSpec == TxPoolInit /\ [][TxPoolNext]_txPoolVars

-----------------------------------------------------------------------------
\* Reap: admin operations first, then the accounts of pending in any order,
\* each by nonce, until there are maxTxs.
Reaped(maxTxs) ==
    LET sorted(a) == SetToSortSeq(Of(pool.pending, a), LAMBDA t, u : t.nonce < u.nonce)
        all(addrs) == pool.extTxs \o FlattenSeq([i \in DOMAIN addrs |-> sorted(addrs[i])])
    IN  {SubSeq(all(addrs), 1, Min({maxTxs, Len(all(addrs))})) : addrs \in SetToSeqs({t.from : t \in pool.pending})}

\* The variables have their types; of an account no queue has two transactions
\* with one nonce; promotion, replacement and eviction keep every queue within
\* its limit; the accounts with a heartbeat, which the tick of loop looks up in
\* tp.waiting without asking, are those that have an entry.
TxPoolTypeOK ==
    /\ pool.pending \subseteq Txs /\ pool.waiting \subseteq Txs /\ accepted \subseteq Txs
    /\ \A S \in {pool.pending, pool.waiting} : \A t, u \in S :
          t.from = u.from /\ t.nonce = u.nonce => t = u
    /\ stateNonce \in [Accounts -> Nonces] /\ committed \subseteq Txs \cup AdminOps
    /\ commitStep \in {"idle", "updated", "swapped"} /\ wasFull \in BOOLEAN
    /\ Cardinality(pool.pending) <= PendingLimit /\ Cardinality(pool.waiting) <= WaitingLimit
    /\ Len(pool.extTxs) <= PendingLimit
    /\ Len(pool.broadcastQueue) <= WaitingLimit + PendingLimit
    /\ pool.waitingBeats = {t.from : t \in pool.waiting}

\* "If there's a gap in front, alert (should never happen)": whatever blocks
\* were made of, the pending transactions that are not stale begin with the
\* account's nonce.  Between blocks, when proposals are made, what Reap returns
\* executes: every transaction has the nonce the state will have at its turn,
\* wherever the block is cut.
ReapedExecute ==
    /\ \A t \in pool.pending : t.nonce >= stateNonce[t.from]
          => Get(pool.pending, t.from, stateNonce[t.from]) # {}
    /\ commitStep = "idle" => \A maxTxs \in 1 .. PendingLimit : \A txs \in Reaped(maxTxs) :
          \A i \in DOMAIN txs : txs[i] \in AdminOps \/
              txs[i].nonce = stateNonce[txs[i].from]
                  + Cardinality({j \in 1 .. i - 1 : txs[j] \notin AdminOps /\ txs[j].from = txs[i].from})

\* What is in `all' cannot be submitted again.  Unless the waiting queue was
\* full at some time, every such transaction is in a queue, or its nonce is
\* used up or about to be used by another one that is pending; and between blocks
\* one whose turn it is waits for nothing but room in pending.
CachedMeansQueued ==
    /\ TxPoolTypeOK
    /\ commitStep = "idle" /\ Cardinality(pool.pending) < PendingLimit
          => \A t \in pool.waiting : t.nonce > stateNonce[t.from]
    /\ pool.pending \cup pool.waiting \subseteq pool.all
    /\ wasFull \/ \A t \in pool.all \ (pool.pending \cup pool.waiting) :
          stateNonce[t.from] > t.nonce \/ Get(pool.pending, t.from, t.nonce) # {}

=============================================================================
