---------------------------- MODULE NodeRecovery ----------------------------
(***************************************************************************)
(* What a node has on disk after each step of committing a block, and what *)
(* a restart makes of it: BlockStore.SaveBlock, State.ApplyBlock with the  *)
(* EVM application's OnExecute and OnCommit, State.Save, and on the way    *)
(* up NewBlockchainReactor, RecoverFromCrash and the application's Start.  *)
(* The process may die between any two writes.                             *)
(*                                                                         *)
(* A block is reduced to whether it carries transactions.  The state trie  *)
(* is the set of heights whose transactions it has seen: a transaction     *)
(* executed a second time fails its nonce check and changes nothing, and   *)
(* leaves no receipt.                                                      *)
(***************************************************************************)
EXTENDS Absent, Integers, Sequences

CONSTANTS TipHeight,   \* bound: the height of the chain the node follows
          MaxCrashes   \* bound on the crashes of a behaviour

\* The hash of an application that has no block yet is no hash of a state.
ASSUME NodeRecoveryAssumption ==
    TipHeight \in Nat /\ MaxCrashes \in Nat /\ \A root \in SUBSET (1 .. TipHeight) : root # None

VARIABLES
    chain,      \* the blocks the network has agreed on: whether each has transactions
    store,      \* the height in BlockStoreStateJSON
    stateKey,   \* the State under stateKey: [height, appHash, receiptsHash]
    interKey,   \* the State under stateIntermediateKey, or None
    app,        \* the application's LastBlockInfo: [height, root], root None before genesis
    receipts,   \* heights whose receipts are in the application's database
    pc,         \* what the process does next
    mem,        \* in memory: [store, state, exec], None when down
    lastStart,  \* what RecoverFromCrash found at the last start
    crashes,    \* crashes so far
    window      \* whether a crash ever fell between the application's commit and State.Save

recVars == <<chain, store, stateKey, interKey, app, receipts, pc, mem, lastStart, crashes, window>>
diskVars == <<store, stateKey, interKey, app, receipts>>

Steps   == {"down", "starting", "idle", "stored", "executed", "committed", "applied", "panicked"}
Genesis == [height |-> 0, appHash |-> None, receiptsHash |-> None]

\* The hashes every correct node computes for height h.
RootAt(h)     == {i \in 1 .. h : chain[i]}
ReceiptsAt(h) == IF chain[h] THEN {h} ELSE {}
HeaderOf(h)   == IF h = 1 THEN [appHash |-> None, receiptsHash |-> None]
                          ELSE [appHash |-> RootAt(h - 1), receiptsHash |-> ReceiptsAt(h - 1)]

RecInit ==
    /\ chain = <<>> /\ store = 0 /\ stateKey = Genesis /\ interKey = None
    /\ app = [height |-> 0, root |-> None] /\ receipts = {}
    /\ pc = "down" /\ mem = None /\ lastStart = "none"
    /\ crashes = 0 /\ window = FALSE

-----------------------------------------------------------------------------
(* Starting.                                                               *)

\* A mistake: the store keeps the height it had on disk.
BugKeepStoreHeight == store

\* NewBlockchainReactor: a store one block ahead of the state forgets it.
LoadedStoreHeight == IF stateKey.height = store - 1 THEN store - 1 ELSE store

\* RecoverFromCrash: which of its branches runs.  LastHeader is the header of
\* the block at the store's height.
RecoverFromCrash(storeHeight) ==
    LET lastHeader == HeaderOf(storeHeight)
    IN  CASE storeHeight = 0 -> "no_blocks"
          [] storeHeight # 0 /\ storeHeight < app.height -> "app_too_high"
          [] storeHeight # 0 /\ storeHeight = app.height ->
                CASE stateKey.appHash = app.root -> "synced"
                  [] stateKey.appHash # app.root /\ stateKey.appHash = lastHeader.appHash -> "intermediate"
                  [] OTHER -> "unexpected"
          [] storeHeight # 0 /\ storeHeight = app.height + 1 /\ storeHeight = stateKey.height + 1 ->
                IF lastHeader.appHash = app.root THEN "replay_last" ELSE "mismatch"
          [] OTHER -> IF storeHeight # stateKey.height THEN "patch_state" ELSE "replay_many"

\* NewAngine and ConnectApp.  A height mismatch and every error of
\* RecoverFromCrash is a panic: the process is down again.  The effects of
\* the branches that HeightsOnDisk shows are never taken are left out.
Restart ==
    /\ pc = "down"
    /\ LET h == LoadedStoreHeight
           found == IF h # stateKey.height THEN "heights" ELSE RecoverFromCrash(h)
       IN  /\ lastStart' = found
           /\ IF found \in {"no_blocks", "synced"}
              THEN pc' = "starting" /\ mem' = [store |-> h, state |-> stateKey, exec |-> None]
              ELSE UNCHANGED <<pc, mem>>
    /\ UNCHANGED <<chain, diskVars, crashes, window>>

\* EVMApp.Start: writeGenesis when there is no last block.
StartApp ==
    /\ pc = "starting"
    /\ app' = IF app.root = None THEN [height |-> 0, root |-> {}] ELSE app
    /\ pc' = "idle"
    /\ UNCHANGED <<chain, store, stateKey, interKey, receipts, mem, lastStart, crashes, window>>

-----------------------------------------------------------------------------
(* Committing the next block.                                              *)

\* ValidateBasic against the state in memory.
ValidateBlock(h) ==
    /\ h = mem.state.height + 1
    /\ HeaderOf(h).appHash = mem.state.appHash
    /\ HeaderOf(h).receiptsHash = mem.state.receiptsHash

Panic == pc' = "panicked" /\ UNCHANGED <<diskVars, mem>>

\* A mistake: a block that is on disk already is not finalised again.
BugFinalizeOnlyNew(fastSync) ==
    LET h == mem.state.height + 1
    IN  /\ pc = "idle" /\ h <= TipHeight /\ store < h
        /\ IF h \in DOMAIN chain THEN chain' = chain
                                 ELSE \E txs \in BOOLEAN : chain' = Append(chain, txs)
        /\ store' = h /\ pc' = "stored" /\ mem' = [mem EXCEPT !.store = h]
        /\ UNCHANGED <<stateKey, interKey, app, receipts, lastStart, crashes, window>>

\* The next block is decided: finalizeCommit validates it and saves it if the
\* store does not have it; the executer of fast sync saves it unseen.
SaveBlock(fastSync) ==
    LET h == mem.state.height + 1
    IN  /\ pc = "idle" /\ h <= TipHeight
        /\ IF h \in DOMAIN chain THEN chain' = chain
                                 ELSE \E txs \in BOOLEAN : chain' = Append(chain, txs)
        /\ IF ~fastSync /\ ~ValidateBlock(h)
           THEN Panic
           ELSE /\ store' = h
                /\ mem' = [mem EXCEPT !.store = h]
                /\ pc' = "stored"
                /\ UNCHANGED <<stateKey, interKey, app, receipts>>
        /\ UNCHANGED <<lastStart, crashes, window>>

\* State.ExecBlock: OnExecute runs the block on the trie of the last block the
\* application has on disk, and SaveIntermediate writes the state with the
\* hashes of the block before.  A block that does not validate is an error
\* that finalizeCommit meets in updateToState, and fast sync at once: a panic.
ExecBlock ==
    LET h     == mem.state.height + 1
        fresh == chain[h] /\ h \notin app.root
        state == [mem.state EXCEPT !.height = h]
    IN  /\ pc = "stored"
        /\ IF ValidateBlock(h)
           THEN /\ mem' = [mem EXCEPT !.state = state,
                                      !.exec = [root |-> app.root \cup (IF chain[h] THEN {h} ELSE {}),
                                                receipts |-> IF fresh THEN {h} ELSE {}]]
                /\ interKey' = state
                /\ pc' = "executed"
                /\ UNCHANGED <<store, stateKey, app, receipts>>
           ELSE Panic
        /\ UNCHANGED <<chain, lastStart, crashes, window>>

\* A mistake: LastBlockInfo carries the root the block was executed on.
BugCommitKeepsRoot ==
    /\ pc = "executed"
    /\ app' = [app EXCEPT !.height = mem.state.height]
    /\ pc' = "committed"
    /\ UNCHANGED <<chain, store, stateKey, interKey, receipts, mem, lastStart, crashes, window>>

\* OnCommit up to SaveLastBlock: the trie is on disk before it.
CommitApp ==
    /\ pc = "executed"
    /\ app' = [height |-> mem.state.height, root |-> mem.exec.root]
    /\ pc' = "committed"
    /\ UNCHANGED <<chain, store, stateKey, interKey, receipts, mem, lastStart, crashes, window>>

\* The rest of OnCommit, SaveReceipts, and the hashes ApplyBlock takes over.
SaveReceipts ==
    /\ pc = "committed"
    /\ receipts' = receipts \cup mem.exec.receipts
    /\ mem' = [mem EXCEPT !.state.appHash = mem.exec.root,
                          !.state.receiptsHash = mem.exec.receipts]
    /\ pc' = "applied"
    /\ UNCHANGED <<chain, store, stateKey, interKey, app, lastStart, crashes, window>>

\* State.Save.
SaveState ==
    /\ pc = "applied"
    /\ stateKey' = mem.state
    /\ mem' = [mem EXCEPT !.exec = None]
    /\ pc' = "idle"
    /\ UNCHANGED <<chain, store, interKey, app, receipts, lastStart, crashes, window>>

\* The process dies; a panic is one too and needs no fault.
Crash ==
    /\ pc # "down"
    /\ pc # "panicked" => crashes < MaxCrashes
    /\ crashes' = IF pc = "panicked" THEN crashes ELSE crashes + 1
    /\ window' = (window \/ pc \in {"committed", "applied"})
    /\ pc' = "down" /\ mem' = None
    /\ UNCHANGED <<chain, diskVars, lastStart>>

Commit == (\E fastSync \in BOOLEAN : SaveBlock(fastSync)) \/ ExecBlock \/ CommitApp
            \/ SaveReceipts \/ SaveState

RecNext == Restart \/ StartApp \/ Commit \/ Crash

\* The process takes its next step, and whoever runs the node starts it again.
RecFairness == WF_recVars(Restart) /\ WF_recVars(StartApp) /\ WF_recVars(Commit)

RecSpec == RecInit /\ [][RecNext]_recVars /\ RecFairness

-----------------------------------------------------------------------------
Hashes == {None} \cup SUBSET (1 .. TipHeight)
States == [height : 0 .. TipHeight, appHash : Hashes, receiptsHash : Hashes]

\* The variables have the types of the code.
RecTypeOK ==
    /\ chain \in Seq(BOOLEAN) /\ Len(chain) <= TipHeight
    /\ store \in 0 .. TipHeight
    /\ stateKey \in States /\ interKey \in States \cup {None}
    /\ app \in [height : 0 .. TipHeight, root : Hashes]
    /\ receipts \subseteq 1 .. TipHeight
    /\ pc \in Steps
    /\ mem = None \/ mem.state \in States
    /\ crashes \in 0 .. MaxCrashes /\ window \in BOOLEAN

\* SaveBlock, the application's commit and State.Save happen in this order, so
\* that whenever the process dies the application is between state and store,
\* and the store at most one block ahead of the state.  NewBlockchainReactor
\* takes the store back to the state's height before RecoverFromCrash looks at
\* it, which therefore does nothing or refuses: its branches that load the
\* intermediate state, replay one or many blocks, patch the state or panic over
\* hashes are never taken.
HeightsOnDisk ==
    /\ RecTypeOK
    /\ stateKey.height <= app.height /\ app.height <= store /\ store <= stateKey.height + 1
    /\ lastStart \in {"none", "no_blocks", "synced", "app_too_high"}

\* Every state a node saves has the application hash the chain prescribes, also
\* after a block was executed twice because the first commit was cut short, and
\* it only gets past height 1 with the receipts the chain prescribes on disk and
\* in its state: a wrong receipts hash stops it at the next block.
DiskFollowsChain ==
    /\ stateKey.height > 0 => stateKey.appHash = RootAt(stateKey.height)
    /\ stateKey.height > 1 => /\ stateKey.receiptsHash = ReceiptsAt(stateKey.height)
                              /\ RootAt(stateKey.height) \subseteq receipts

\* A node that never died between the application's commit and State.Save
\* comes back after every crash and reaches the tip of the chain.
Recovered == window \/ stateKey.height = TipHeight
RecoversOutsideWindow == []<>Recovered

\* What RecoverFromCrash says of a crash after the application's commit and
\* before state.Save: it loads the intermediate state and goes on.
StartsAfterEveryCrash == lastStart # "app_too_high"
=============================================================================
