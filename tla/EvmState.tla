------------------------------ MODULE EvmState ------------------------------
(***************************************************************************)
(* The state the EVM works on: StateDB with its live objects, its journal  *)
(* and its revisions, the frames of Call and Create that take a snapshot   *)
(* and revert to it when they fail, and what ApplyTransaction, Finalise    *)
(* and Commit write to the tries.  What a contract does is any sequence of *)
(* operations; gas is left out, so a frame may fail before any of them.    *)
(* An account has one storage slot.  The gas price is 0.                   *)
(***************************************************************************)
EXTENDS Integers, SequencesExt, Absent

CONSTANTS Sender,       \* an account with a key
          Contracts,    \* addresses contracts may be created at
          Coinbase,     \* the zero address: NewEVMContext names no beneficiary
          ripemd,       \* a precompiled contract
          SlotValues,   \* what SSTORE may write
          EvmWorlds,    \* accounts to start from, fork rules, addresses of creations, and
                        \* bounds: transactions, operations of contracts
          MaxDepth      \* bound: frames, that of the transaction included

VARIABLES db,           \* app.currentState
          disk,         \* storage tries and code in the database
          frames,       \* the transaction and the calls that have not returned
          world,        \* one of EvmWorlds
          unstored,     \* history: accounts replaced by a creation without gas for its code
          txs, steps      \* how many of each so far

evmVars == <<db, disk, frames, world, unstored, txs, steps>>

Addrs == Contracts \cup {Sender, Coinbase, ripemd}

-----------------------------------------------------------------------------
(* State objects and the journal.                                          *)

EmptyAccount == [nonce |-> 0, balance |-> 0, code |-> None, root |-> 0]

newObject(data) ==
    data @@ [origin |-> None, dirty |-> None, dirtyCode |-> FALSE, suicided |-> FALSE, deleted |-> FALSE]

Account(o) == [nonce |-> o.nonce, balance |-> o.balance, code |-> o.code, root |-> o.root]

empty(o) == o.nonce = 0 /\ o.balance = 0 /\ o.code = None

NewStateDB(trie) ==
    [trie |-> trie, objects |-> [a \in Addrs |-> None], dirtyObjects |-> {}, journal |-> <<>>,
     dirties |-> [a \in Addrs |-> 0], revisions |-> <<>>, nextRevisionId |-> 0, refund |-> 0, logs |-> 0]

\* getStateObject: the live object, loaded from the trie when there is none.
Load(d, a) ==
    IF d.objects[a] # None \/ d.trie[a] = None THEN d
    ELSE [d EXCEPT !.objects[a] = newObject(d.trie[a])]
getStateObject(d, a) ==
    LET o == Load(d, a).objects[a] IN IF o = None \/ o.deleted THEN None ELSE o

\* journal.append; dirtied() is nil for three kinds of entries.
Dirties(e) == e.kind \notin {"reset", "refund", "log"}
append(d, kind, a, prev) ==
    LET e == [kind |-> kind, account |-> a, prev |-> prev]
    IN  [d EXCEPT !.journal = Append(@, e),
                  !.dirties[a] = IF Dirties(e) THEN @ + 1 ELSE @]

\* The setters of an object: the old value is journalled.
Set(d, a, field, value) ==
    [append(d, field, a, d.objects[a][field]) EXCEPT !.objects[a][field] = value]

createObject(d, a) ==
    LET prev == getStateObject(d, a)
    IN  [append(Load(d, a), IF prev = None THEN "create" ELSE "reset", a, prev)
            EXCEPT !.objects[a] = newObject(EmptyAccount)]

GetOrNewStateObject(d, a) == IF getStateObject(d, a) = None THEN createObject(d, a) ELSE Load(d, a)

\* CreateAccount: the balance of an account that is there is carried over.
CreateAccount(d, a) ==
    LET prev == getStateObject(d, a)
    IN  [createObject(d, a) EXCEPT !.objects[a].balance = IF prev = None THEN 0 ELSE prev.balance]

touch(d, a) ==
    [append(d, "touch", a, None) EXCEPT !.dirties[a] = IF a = ripemd THEN @ + 1 ELSE @]

AddBalance(d, a, amount) ==
    LET g == GetOrNewStateObject(d, a)
        o == g.objects[a]
    IN  IF amount # 0 THEN Set(g, a, "balance", o.balance + amount)
        ELSE IF empty(o) THEN touch(g, a) ELSE g

SubBalance(d, a, amount) ==
    LET g == GetOrNewStateObject(d, a)
    IN  IF amount = 0 THEN g ELSE Set(g, a, "balance", g.objects[a].balance - amount)

GetBalance(d, a) == LET o == getStateObject(d, a) IN IF o = None THEN 0 ELSE o.balance
GetNonce(d, a)   == LET o == getStateObject(d, a) IN IF o = None THEN 0 ELSE o.nonce
GetCode(d, a)    == LET o == getStateObject(d, a) IN IF o = None THEN None ELSE o.code

SetNonce(d, a, n) == Set(GetOrNewStateObject(d, a), a, "nonce", n)
SetCode(d, a, c)  == [Set(GetOrNewStateObject(d, a), a, "code", c) EXCEPT !.objects[a].dirtyCode = TRUE]

GetState(o) == IF o.dirty # None THEN o.dirty ELSE IF o.origin # None THEN o.origin ELSE o.root
\* A mistake: the value of the last transaction is journalled, not that of the last write.
BugJournalsCommitted(d, a, v) ==
    LET g == GetOrNewStateObject(d, a)
        o == g.objects[a]
        committed == IF o.origin # None THEN o.origin ELSE o.root
        r == [g EXCEPT !.objects[a].origin = committed]
    IN  IF GetState(o) = v THEN r
        ELSE [append(r, "dirty", a, committed) EXCEPT !.objects[a].dirty = v]

SetState(d, a, v) ==
    LET g == GetOrNewStateObject(d, a)
        o == g.objects[a]
        r == [g EXCEPT !.objects[a].origin = IF o.dirty = None /\ @ = None THEN o.root ELSE @]
    IN  IF GetState(o) = v THEN r
        ELSE [append(r, "dirty", a, GetState(o)) EXCEPT !.objects[a].dirty = v]

Suicide(d, a) ==
    LET o == getStateObject(d, a)
    IN  IF o = None THEN d
        ELSE [append(Load(d, a), "suicide", a, <<o.suicided, o.balance>>)
                EXCEPT !.objects[a].suicided = TRUE, !.objects[a].balance = 0]

AddRefund(d) == [append(d, "refund", Sender, d.refund) EXCEPT !.refund = @ + 1]
AddLog(d)    == [append(d, "log", Sender, d.logs) EXCEPT !.logs = @ + 1]

Transfer(d, from, to, amount) == AddBalance(SubBalance(d, from, amount), to, amount)

-----------------------------------------------------------------------------
(* Snapshots.                                                              *)

Snapshot(d) ==
    [d EXCEPT !.nextRevisionId = @ + 1,
              !.revisions = Append(@, [id |-> d.nextRevisionId, journalIndex |-> Len(d.journal)])]

\* The revert method of an entry, and its place in dirties.
revert(d, e) ==
    LET a == e.account
        undone ==
            CASE e.kind = "create"  -> [d EXCEPT !.objects[a] = None, !.dirtyObjects = @ \ {a}]
              [] e.kind = "reset"   -> [d EXCEPT !.objects[a] = e.prev]
              [] e.kind = "suicide" -> [d EXCEPT !.objects[a].suicided = e.prev[1],
                                                 !.objects[a].balance = e.prev[2]]
              [] e.kind = "refund"  -> [d EXCEPT !.refund = e.prev]
              [] e.kind = "log"     -> [d EXCEPT !.logs = e.prev]
              [] e.kind = "touch"   -> d
              [] e.kind = "code"    -> [d EXCEPT !.objects[a].code = e.prev, !.objects[a].dirtyCode = TRUE]
              [] OTHER              -> [d EXCEPT !.objects[a][e.kind] = e.prev]
    IN  [undone EXCEPT !.dirties[a] = IF Dirties(e) THEN @ - 1 ELSE @]

RevertToSnapshot(d, id) ==
    LET i  == CHOOSE k \in DOMAIN d.revisions : d.revisions[k].id = id
        at == d.revisions[i].journalIndex
    IN  [FoldLeft(revert, d, Reverse(SubSeq(d.journal, at + 1, Len(d.journal))))
            EXCEPT !.journal = SubSeq(@, 1, at), !.revisions = SubSeq(@, 1, i - 1)]

-----------------------------------------------------------------------------
(* Writing.                                                                *)

\* updateTrie: an entry whose original value is not cached counts as zero.
updateTrie(o) ==
    LET changed == o.dirty # None /\ o.dirty # (IF o.origin = None THEN 0 ELSE o.origin)
    IN  [o EXCEPT !.dirty = None, !.origin = IF changed THEN o.dirty ELSE @,
                  !.root = IF changed THEN o.dirty ELSE @]

Written(o) == IF o.suicided \/ empty(o) THEN [o EXCEPT !.deleted = TRUE] ELSE updateTrie(o)

clearJournalAndRefund(d) ==
    [d EXCEPT !.journal = <<>>, !.dirties = [a \in Addrs |-> 0], !.revisions = <<>>, !.refund = 0]

\* The objects of the set are written to the account trie, or deleted from it.
Update(d, set) ==
    LET objects == [a \in Addrs |-> IF a \in set THEN Written(d.objects[a]) ELSE d.objects[a]]
    IN  [d EXCEPT !.objects = objects,
                  !.trie = [a \in Addrs |-> IF a \notin set THEN @[a]
                                            ELSE IF objects[a].deleted THEN None ELSE Account(objects[a])]]

Live(d) == {a \in Addrs : d.objects[a] # None}

\* A mistake: what is in the trie is not kept for Commit.
BugFinaliseForgets(d) ==
    LET set == {a \in Live(d) : d.dirties[a] > 0}
    IN  clearJournalAndRefund(Update(d, set))

Finalise(d) ==
    LET set == {a \in Live(d) : d.dirties[a] > 0}
    IN  clearJournalAndRefund([Update(d, set) EXCEPT !.dirtyObjects = @ \cup set])

\* Commit: storage tries and code only go to the database with a dirty object.
ToCommit(d) == {a \in Live(d) : a \in d.dirtyObjects \/ d.dirties[a] > 0 \/ d.objects[a].suicided}
Stored(d, set) ==
    LET kept == {a \in set : ~d.objects[a].deleted}
    IN  [roots |-> {d.objects[a].root : a \in kept},
         codes |-> {d.objects[a].code : a \in {b \in kept : d.objects[b].dirtyCode}}]

-----------------------------------------------------------------------------
(* Frames.                                                                 *)

\* What the state shows to a contract.
Shown(o) == IF o = None THEN None
            ELSE [nonce |-> o.nonce, balance |-> o.balance, code |-> o.code, slot |-> GetState(o),
                  suicided |-> o.suicided]
Visible(d) == [accounts |-> [a \in Addrs |-> Shown(getStateObject(d, a))], refund |-> d.refund, logs |-> d.logs]

\* A frame remembers the snapshot taken in d; before is history, for the properties.
Frame(kind, self, runs, readOnly, d) ==
    [kind |-> kind, self |-> self, runs |-> runs, readOnly |-> readOnly,
     snapshot |-> d.nextRevisionId, before |-> Visible(d)]

\* What run finds at an address: a precompiled contract, code or neither.
CodeAt(d, a) == IF a = ripemd THEN "native" ELSE IF GetCode(d, a) = None THEN "nothing" ELSE "code"

Result(err, d, frame) == [err |-> err, db |-> d, frame |-> frame]

\* EVM.Call up to run.
Call(d, caller, to, value, readOnly) ==
    LET absent == getStateObject(d, to) = None
        s == Snapshot(d)
        t == Transfer(IF absent THEN CreateAccount(s, to) ELSE s, caller, to, value)
    IN  IF GetBalance(d, caller) < value THEN Result("insufficient", d, None)
        ELSE IF absent /\ to # ripemd /\ world.eip158 /\ value = 0 THEN Result("none", s, None)
        ELSE Result("none", t, Frame("call", to, CodeAt(t, to), readOnly, d))

\* CallCode and DelegateCall run the code of another account in the caller's context.
CallCode(d, caller, to, value, readOnly) ==
    IF GetBalance(d, caller) < value THEN Result("insufficient", d, None)
    ELSE Result("none", Snapshot(d), Frame("call", caller, CodeAt(d, to), readOnly, d))

StaticCall(d, to) ==
    Result("none", AddBalance(Snapshot(d), to, 0), Frame("call", to, CodeAt(d, to), TRUE, d))

\* EVM.create up to run.
create(d, caller, to, value) ==
    LET n == SetNonce(d, caller, GetNonce(d, caller) + 1)
        c == CreateAccount(Snapshot(n), to)
        t == Transfer(IF world.eip158 THEN SetNonce(c, to, 1) ELSE c, caller, to, value)
    IN  IF GetBalance(d, caller) < value THEN Result("insufficient", d, None)
        ELSE IF GetNonce(n, to) # 0 \/ GetCode(n, to) # None THEN Result("collision", n, None)
        ELSE Result("none", t, Frame("create", to, "code", FALSE, n))

\* CreateAddress and CreateAddress2 (no nonce): the addresses caller may create at.
Creations(d, caller) ==
    {c.address : c \in {k \in world.creations : k.caller = caller /\ k.nonce \in {None, GetNonce(d, caller)}}}

\* What follows the outermost call of a transaction, in TransitionDb and ApplyTransaction.
EndTx(d) == Finalise(AddBalance(AddBalance(d, Sender, 0), Coinbase, 0))

\* The innermost frame returns with the state d.
Pop(d) == IF Len(frames) = 2 THEN frames' = <<>> /\ db' = EndTx(d)
          ELSE frames' = Front(frames) /\ db' = d

\* The end of execFunc and endFunc with an error: nothing is finalised.
Refuse(d) == frames' = <<>> /\ db' = RevertToSnapshot(d, db.nextRevisionId)

-----------------------------------------------------------------------------
EvmInit ==
    /\ world \in EvmWorlds
    /\ db = NewStateDB(world.trie)
    /\ disk = LET there == {a \in Addrs : world.trie[a] # None}
              IN  [roots |-> {world.trie[a].root : a \in there} \cup {0},
                   codes |-> {world.trie[a].code : a \in there} \cup {None}]
    /\ frames = <<>>
    /\ unstored = {}
    /\ txs = 0 /\ steps = 0

\* A transaction of Sender: a call, a creation, or one that preCheck or the intrinsic gas refuses.
ExecTx ==
    /\ frames = <<>> /\ txs < world.txs
    /\ txs' = txs + 1
    /\ LET bought == SubBalance(Snapshot(db), Sender, 0)
           called == SetNonce(bought, Sender, GetNonce(bought, Sender) + 1)
           Start(r) == IF r.err = "insufficient" THEN Refuse(r.db)
                       ELSE IF r.frame = None THEN frames' = <<>> /\ db' = EndTx(r.db)
                       ELSE frames' = <<Frame("tx", Sender, "nothing", FALSE, db), r.frame>> /\ db' = r.db
       IN  \E value \in 0 .. 1 :
              \/ \E to \in Addrs : Start(Call(called, Sender, to, value, FALSE))
              \/ \E to \in Creations(bought, Sender) : Start(create(bought, Sender, to, value))
              \/ Refuse(bought)
    /\ UNCHANGED <<disk, world, unstored, steps>>

Running == frames # <<>> /\ Last(frames).runs = "code"
Protected(f) == f.readOnly /\ world.byzantium
Operates(writes) ==
    /\ Running /\ steps < world.ops /\ (writes => ~Protected(Last(frames)))
    /\ steps' = steps + 1
    /\ UNCHANGED <<disk, world, unstored, txs>>

\* SSTORE, with the refund gasSStore adds for clearing the slot.
Sstore(v) ==
    /\ Operates(TRUE)
    /\ LET self == Last(frames).self
           o == getStateObject(db, self)
           clears == o # None /\ GetState(o) # 0 /\ v = 0
       IN  db' = SetState(IF clears THEN AddRefund(db) ELSE db, self, v)
    /\ UNCHANGED frames

Log == Operates(TRUE) /\ db' = AddLog(db) /\ UNCHANGED frames

\* The calls a contract makes; one that fails before its frame changes nothing else.
Enter(r) == /\ db' = r.db
            /\ frames' = IF r.frame = None THEN frames ELSE Append(frames, r.frame)

NestedCall ==
    LET f == Last(frames) IN
    /\ Running /\ Len(frames) < MaxDepth
    /\ \E to \in Addrs, value \in 0 .. 1 :
          \/ Operates(value # 0) /\ Enter(Call(db, f.self, to, value, f.readOnly))
          \/ Operates(FALSE) /\ Enter(CallCode(db, f.self, to, value, f.readOnly))
          \/ Operates(FALSE) /\ Enter(StaticCall(db, to))
          \/ Operates(TRUE) /\ to \in Creations(db, f.self) /\ Enter(create(db, f.self, to, value))

\* A frame that ran without an error; that of a creation stores the code returned.
Return ==
    /\ frames # <<>>
    /\ LET f == Last(frames) IN
       IF f.kind = "create" THEN \E c \in {None, "created"} : Pop(SetCode(db, f.self, c)) ELSE Pop(db)
    /\ UNCHANGED <<disk, world, unstored, txs, steps>>

\* SELFDESTRUCT, with its refund, ends the frame; a creation then stores no code.
SelfDestruct(to) ==
    /\ Operates(TRUE)
    /\ LET f == Last(frames)
           o == getStateObject(db, f.self)
           d == IF o # None /\ o.suicided THEN db ELSE AddRefund(db)
           s == Suicide(AddBalance(d, to, GetBalance(d, f.self)), f.self)
       IN  Pop(IF f.kind = "create" THEN SetCode(s, f.self, None) ELSE s)

\* Out of gas, an invalid operation, REVERT, a write in read-only mode, code too large.
Fail ==
    /\ frames # <<>> /\ Last(frames).runs # "nothing"
    /\ Pop(RevertToSnapshot(db, Last(frames).snapshot))
    /\ UNCHANGED <<disk, world, unstored, txs, steps>>

\* No gas is left to store the code: before Homestead the account stays.
CodeStoreOutOfGas ==
    /\ frames # <<>> /\ Last(frames).kind = "create" /\ ~world.homestead
    /\ Pop(db)
    /\ LET f == Last(frames)
       IN  unstored' = IF f.before.accounts[f.self] = None THEN unstored ELSE unstored \cup {f.self}
    /\ UNCHANGED <<disk, world, txs, steps>>

\* OnCommit, and the StateDB the next OnExecute opens.
Commit ==
    /\ frames = <<>> /\ txs > 0
    /\ LET d == Update(db, ToCommit(db))
           new == Stored(d, ToCommit(db))
       IN  /\ db' = NewStateDB(d.trie)
           /\ disk' = [roots |-> disk.roots \cup new.roots, codes |-> disk.codes \cup new.codes]
    /\ unstored' = {}
    /\ UNCHANGED <<frames, world, txs, steps>>

EvmNext ==
    \/ ExecTx \/ Log \/ NestedCall \/ Return \/ Fail \/ CodeStoreOutOfGas \/ Commit
    \/ \E v \in SlotValues : Sstore(v)
    \/ \E to \in Addrs : SelfDestruct(to)

EvmSpec == EvmInit /\ [][EvmNext]_evmVars

-----------------------------------------------------------------------------
Total(accounts) ==
    MapThenFoldSet(+, 0, LAMBDA a : IF accounts[a] = None THEN 0 ELSE accounts[a].balance,
                   LAMBDA S : CHOOSE a \in S : TRUE, Addrs)

(***************************************************************************)
(* RevertToSnapshot: whatever the frames above it did, each frame's        *)
(* snapshot is valid and going back to it restores what the state showed   *)
(* when it was taken: accounts, storage, code, refund and logs.            *)
(***************************************************************************)
SnapshotsRestore ==
    \A i \in DOMAIN frames :
        /\ \E r \in ToSet(db.revisions) : r.id = frames[i].snapshot
        /\ Visible(RevertToSnapshot(db, frames[i].snapshot)) = frames[i].before

(***************************************************************************)
(* Finalise and Commit: between transactions the account trie holds what   *)
(* the state shows, so nothing a transaction did is missing from the root  *)
(* (except, before Homestead, an account replaced by a creation that had   *)
(* no gas for its code: resetObjectChange marks nothing dirty);            *)
(* after a commit the storage and code of every account can be read from   *)
(* the database; and only SELFDESTRUCT makes balance disappear.            *)
(***************************************************************************)
NothingIsLost ==
    /\ frames = <<>> =>
          \A a \in Addrs \ unstored : Visible(db).accounts[a] = Visible(NewStateDB(db.trie)).accounts[a]
    /\ frames = <<>> /\ db = NewStateDB(db.trie) =>
          \A a \in Addrs : db.trie[a] # None => db.trie[a].root \in disk.roots /\ db.trie[a].code \in disk.codes
    /\ frames # <<>> /\ (\A e \in ToSet(db.journal) : e.kind # "suicide") =>
          Total(Visible(db).accounts) = Total(Head(frames).before.accounts)

=============================================================================
