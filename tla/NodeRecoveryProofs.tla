------------------------- MODULE NodeRecoveryProofs -------------------------
(***************************************************************************)
(* For a chain of any height and any number of crashes, wherever they      *)
(* fall: how far apart store, application and state can be on disk, which  *)
(* branches of RecoverFromCrash can run, and that what is on disk is what  *)
(* the chain prescribes.                                                   *)
(*                                                                         *)
(* The argument goes along the writes of a commit: what each of them finds *)
(* on disk is what the one before has left, or, at the first block only,   *)
(* what a commit that was cut short has left of the application.           *)
(***************************************************************************)
EXTENDS NodeRecovery, TLAPS

AfterRun == {"executed", "committed", "applied"}
Blocks   == {"stored", "executed", "committed", "applied"}

\* The hashes as functions of the chain.
Root(c, h) == {i \in 1 .. h : c[i]}
Rcpt(c, h) == IF c[h] THEN {h} ELSE {}

MemStates == [store : 0 .. TipHeight, state : States,
              exec : {None} \cup [root : SUBSET (1 .. TipHeight), receipts : SUBSET (1 .. TipHeight)]]

Types ==
    /\ chain \in Seq(BOOLEAN) /\ Len(chain) <= TipHeight
    /\ store \in 0 .. TipHeight /\ store <= Len(chain)
    /\ stateKey \in States /\ interKey \in States \cup {None}
    /\ app \in [height : 0 .. TipHeight, root : Hashes]
    /\ receipts \subseteq 1 .. TipHeight
    /\ pc \in Steps
    /\ pc # "down" => mem \in MemStates
    /\ pc = "down" => mem = None
    /\ crashes \in 0 .. MaxCrashes /\ window \in BOOLEAN

\* The heights, and the application's and the state's hash at them.
DiskInv ==
    /\ stateKey.height <= app.height /\ app.height <= store /\ store <= stateKey.height + 1
    /\ app.root = Root(chain, app.height) \/ (app.root = None /\ app.height = 0)
    /\ stateKey.height > 0 => stateKey.appHash = Root(chain, stateKey.height)
    /\ stateKey.height = 0 => stateKey = Genesis
    /\ lastStart \in {"none", "no_blocks", "synced", "app_too_high"}

\* The receipts of the last block are on disk and in the state, except those of
\* a first block that was executed twice.
Received(h) == stateKey.receiptsHash = Rcpt(chain, h) /\ Root(chain, h) \subseteq receipts
ReceiptsInv == stateKey.height > 0 =>
                  \/ Received(stateKey.height)
                  \/ stateKey.height = 1 /\ stateKey.receiptsHash \subseteq receipts

\* What the process holds in memory at each step of a commit.
MemInv ==
    LET h == stateKey.height + 1
    IN  /\ pc \in {"starting", "idle", "stored"} =>
              mem.state = stateKey /\ (app.height = stateKey.height \/ stateKey.height = 0)
        /\ pc \in {"idle", "stored", "executed", "committed", "applied"} => app.root = Root(chain, app.height)
        /\ pc \in Blocks => store = h
        /\ pc \in AfterRun =>
              /\ mem.state.height = h
              /\ mem.exec.root = Root(chain, h)
              /\ stateKey.height > 0 => Received(stateKey.height) /\ mem.exec.receipts = Rcpt(chain, h)
              /\ stateKey.height = 0 => mem.exec.receipts \subseteq Rcpt(chain, h)
        /\ pc \in {"committed", "applied"} => app.height = h
        /\ pc = "applied" =>
              /\ mem.state.appHash = mem.exec.root /\ mem.state.receiptsHash = mem.exec.receipts
              /\ mem.exec.receipts \subseteq receipts

RecInv == Types /\ DiskInv /\ ReceiptsInv /\ MemInv

-----------------------------------------------------------------------------
\* The hash of a height is that of the height below and its own transactions.
LEMMA RootOfNext ==
    ASSUME NEW c, NEW h \in Nat
    PROVE  /\ Root(c, h + 1) = Root(c, h) \cup (IF c[h + 1] THEN {h + 1} ELSE {})
           /\ Root(c, h + 1) = Root(c, h) \cup Rcpt(c, h + 1)
           /\ Root(c, 0) = {} /\ h + 1 \notin Root(c, h)
  <1>1. 1 .. h + 1 = (1 .. h) \cup {h + 1} /\ h + 1 \notin 1 .. h
    OBVIOUS
  <1> QED BY <1>1 DEF Root, Rcpt

\* Hashes are hashes.
LEMMA RootType ==
    ASSUME NEW c, NEW h \in 0 .. TipHeight
    PROVE  /\ Root(c, h) \in SUBSET (1 .. TipHeight) /\ Root(c, h) \in Hashes /\ Root(c, h) # None
           /\ h # 0 => Rcpt(c, h) \in SUBSET (1 .. TipHeight)
  BY NodeRecoveryAssumption DEF Root, Rcpt, Hashes

\* The hashes of heights the chain has do not change when it grows.
LEMMA ChainGrows ==
    ASSUME NEW c \in Seq(BOOLEAN), NEW new, new = c \/ \E txs \in BOOLEAN : new = Append(c, txs),
           NEW h \in 0 .. Len(c)
    PROVE  Root(new, h) = Root(c, h) /\ (h # 0 => Rcpt(new, h) = Rcpt(c, h))
  <1>1. \A i \in 1 .. h : new[i] = c[i]
    OBVIOUS
  <1> QED BY <1>1 DEF Root, Rcpt

\* The header of a block has the hashes of the block before.
LEMMA HeaderIs ==
    ASSUME NEW h \in Nat
    PROVE  /\ HeaderOf(1) = [appHash |-> None, receiptsHash |-> None]
           /\ h > 0 => HeaderOf(h + 1) = [appHash |-> Root(chain, h), receiptsHash |-> Rcpt(chain, h)]
  BY DEF HeaderOf, RootAt, ReceiptsAt, Root, Rcpt

\* A new node.
LEMMA RecInvInit == RecInit => RecInv
  <1> SUFFICES ASSUME RecInit PROVE RecInv
    OBVIOUS
  <1> USE NodeRecoveryAssumption
  <1>1. Types
    <2>1. window \in BOOLEAN
      BY Zenon DEF RecInit
    <2> QED BY <2>1 DEF RecInit, Types, Steps, States, Hashes, Genesis
  <1>2. DiskInv
    BY DEF RecInit, DiskInv, Genesis
  <1>3. ReceiptsInv /\ MemInv
    BY DEF RecInit, ReceiptsInv, MemInv, Genesis, Blocks, AfterRun
  <1> QED BY <1>1, <1>2, <1>3 DEF RecInv

\* The heights on disk, as numbers.
LEMMA HeightsAre ==
    ASSUME Types, DiskInv
    PROVE  /\ TipHeight \in Nat /\ stateKey.height \in 0 .. TipHeight /\ app.height \in 0 .. TipHeight
           /\ store \in 0 .. TipHeight /\ store \in 0 .. Len(chain) /\ Len(chain) \in Nat
           /\ stateKey.height <= app.height /\ app.height <= store /\ store <= stateKey.height + 1
           /\ stateKey.height \in Nat /\ app.height \in Nat /\ store \in Nat
  <1>1. TipHeight \in Nat
    BY NodeRecoveryAssumption
  <1>2. stateKey.height \in 0 .. TipHeight
    BY DEF Types, States
  <1>3. app.height \in 0 .. TipHeight
    BY DEF Types
  <1>4. store \in 0 .. TipHeight /\ store <= Len(chain) /\ Len(chain) \in Nat
    BY DEF Types
  <1>5. stateKey.height <= app.height /\ app.height <= store /\ store <= stateKey.height + 1
    BY DEF DiskInv
  <1> QED BY <1>1, <1>2, <1>3, <1>4, <1>5

-----------------------------------------------------------------------------
\* A restart finds the store at the height of the state, and either all three
\* at one height, no block at all, or the application one block too high.
LEMMA RestartKeeps == RecInv /\ Restart => RecInv'
  <1> SUFFICES ASSUME RecInv, Restart PROVE RecInv'
    OBVIOUS
  <1> USE DEF RecInv
  <1>1. PICK s, found : /\ s = stateKey.height
                        /\ found = IF LoadedStoreHeight # s THEN "heights"
                                                            ELSE RecoverFromCrash(LoadedStoreHeight)
    OBVIOUS
  <1>2. /\ UNCHANGED <<chain, store, stateKey, interKey, app, receipts, crashes, window>>
        /\ pc = "down" /\ lastStart' = found
        /\ found \in {"no_blocks", "synced"} =>
              pc' = "starting" /\ mem' = [store |-> LoadedStoreHeight, state |-> stateKey, exec |-> None]
        /\ found \notin {"no_blocks", "synced"} => pc' = "down" /\ mem' = mem
    BY <1>1 DEF Restart, diskVars
  <1>3. /\ TipHeight \in Nat /\ s \in 0 .. TipHeight /\ app.height \in 0 .. TipHeight
        /\ store \in 0 .. TipHeight /\ s \in Nat /\ app.height \in Nat /\ store \in Nat
        /\ s <= app.height /\ app.height <= store /\ store <= s + 1
    BY <1>1, HeightsAre
  <1>4. LoadedStoreHeight = s
    BY <1>1, <1>3 DEF LoadedStoreHeight
  <1>5. found = RecoverFromCrash(s)
    BY <1>1, <1>4
  <1>6. /\ found \in {"no_blocks", "synced", "app_too_high"}
        /\ found \in {"no_blocks", "synced"} => app.height = s \/ s = 0
    <2>1. CASE s = 0
      BY <1>5, <2>1 DEF RecoverFromCrash
    <2>2. CASE s # 0 /\ s < app.height
      BY <1>3, <1>5, <2>2 DEF RecoverFromCrash
    <2>3. CASE s # 0 /\ s = app.height
      <3>1. s > 0 /\ app.height # 0
        BY <1>3, <2>3
      <3>2. stateKey.appHash = Root(chain, s) /\ app.root = Root(chain, app.height)
        BY <1>1, <3>1 DEF DiskInv
      <3> QED BY <1>3, <1>5, <2>3, <3>2 DEF RecoverFromCrash
    <2>4. s = 0 \/ (s # 0 /\ s < app.height) \/ (s # 0 /\ s = app.height)
      BY <1>3
    <2> QED BY <2>1, <2>2, <2>3, <2>4
  <1>7. Types'
    <2>1. chain' \in Seq(BOOLEAN) /\ window' \in BOOLEAN
      BY <1>2 DEF Types
    <2>2. mem = None /\ stateKey \in States
      BY <1>2 DEF Types
    <2>3. pc' \in Steps /\ (pc' # "down" => mem' \in MemStates) /\ (pc' = "down" => mem' = None)
      BY <1>2, <1>3, <1>4, <2>2 DEF MemStates, Steps
    <2> QED BY <1>2, <2>1, <2>3 DEF Types
  <1>8. DiskInv' /\ ReceiptsInv'
    BY <1>2, <1>6 DEF DiskInv, ReceiptsInv, Received
  <1>9. MemInv'
    <2>1. CASE found \in {"no_blocks", "synced"}
      <3>1. pc' = "starting" /\ mem'.state = stateKey'
        BY <1>2, <2>1
      <3>2. app'.height = stateKey'.height \/ stateKey'.height = 0
        BY <1>1, <1>2, <1>6, <2>1
      <3> QED BY <3>1, <3>2 DEF MemInv, Blocks, AfterRun
    <2>2. CASE found \notin {"no_blocks", "synced"}
      BY <1>2, <2>2 DEF MemInv, Blocks, AfterRun
    <2> QED BY <2>1, <2>2
  <1> QED BY <1>7, <1>8, <1>9

\* The application writes its genesis if it has no block.
LEMMA StartAppKeeps == RecInv /\ StartApp => RecInv'
  <1> SUFFICES ASSUME RecInv, StartApp PROVE RecInv'
    OBVIOUS
  <1> USE DEF RecInv
  <1>1. /\ UNCHANGED <<chain, store, stateKey, interKey, receipts, mem, lastStart, crashes, window>>
        /\ pc = "starting" /\ pc' = "idle"
        /\ app' = IF app.root = None THEN [height |-> 0, root |-> {}] ELSE app
    BY DEF StartApp
  <1>2. Root(chain, 0) = {} /\ {} \in Hashes
    BY RootOfNext DEF Hashes
  <1>3. app.height \in 0 .. TipHeight
    BY HeightsAre
  <1>4. Root(chain, app.height) # None
    BY <1>3, RootType
  <1>5. app'.height = app.height /\ app'.root = Root(chain, app.height)
    BY <1>1, <1>2, <1>4 DEF DiskInv
  <1>6. Types'
    <2>1. chain' \in Seq(BOOLEAN) /\ window' \in BOOLEAN
      BY <1>1 DEF Types
    <2>2. app' \in [height : 0 .. TipHeight, root : Hashes]
      BY <1>1, <1>2, HeightsAre DEF Types
    <2> QED BY <1>1, <2>1, <2>2 DEF Types, Steps
  <1>7. DiskInv' /\ ReceiptsInv'
    BY <1>1, <1>5 DEF DiskInv, ReceiptsInv, Received
  <1>8. MemInv'
    BY <1>1, <1>5 DEF MemInv, Blocks, AfterRun
  <1> QED BY <1>6, <1>7, <1>8

\* The next block: the chain may get it now, and the store has it then.
LEMMA SaveBlockKeeps == RecInv /\ (\E fastSync \in BOOLEAN : SaveBlock(fastSync)) => RecInv'
  <1> SUFFICES ASSUME RecInv, NEW fastSync \in BOOLEAN, SaveBlock(fastSync) PROVE RecInv'
    OBVIOUS
  <1> USE DEF RecInv
  <1>1. PICK s : s = stateKey.height
    OBVIOUS
  <1>2. /\ TipHeight \in Nat /\ s \in Nat /\ s <= app.height /\ app.height <= store /\ store <= s + 1
        /\ app.height \in 0 .. Len(chain) /\ s \in 0 .. Len(chain) /\ Len(chain) \in Nat
        /\ app.height \in Nat /\ store \in Nat /\ store <= Len(chain) /\ Len(chain) <= TipHeight
    <2>1. Len(chain) <= TipHeight /\ store <= Len(chain)
      BY DEF Types
    <2> QED BY <1>1, <2>1, HeightsAre
  <1>3. pc = "idle" /\ mem.state = stateKey
    BY DEF SaveBlock, MemInv
  <1>4. /\ UNCHANGED <<stateKey, interKey, app, receipts, lastStart, crashes, window>>
        /\ s + 1 <= TipHeight
        /\ IF s + 1 \in DOMAIN chain THEN chain' = chain
                                     ELSE \E txs \in BOOLEAN : chain' = Append(chain, txs)
        /\ \/ pc' = "panicked" /\ store' = store /\ mem' = mem
           \/ pc' = "stored" /\ store' = s + 1 /\ mem' = [mem EXCEPT !.store = s + 1]
    BY <1>1, <1>3 DEF SaveBlock, Panic, diskVars
  <1>5. /\ chain \in Seq(BOOLEAN) /\ chain' \in Seq(BOOLEAN)
        /\ chain' = chain \/ \E txs \in BOOLEAN : chain' = Append(chain, txs)
        /\ Len(chain') \in Nat /\ Len(chain) <= Len(chain') /\ s + 1 <= Len(chain') /\ Len(chain') <= TipHeight
    <2>1. chain \in Seq(BOOLEAN)
      BY DEF Types
    <2>2. CASE s + 1 \in DOMAIN chain
      BY <1>2, <1>4, <2>1, <2>2
    <2>3. CASE s + 1 \notin DOMAIN chain
      <3>1. PICK txs \in BOOLEAN : chain' = Append(chain, txs)
        BY <1>4, <2>3
      <3>2. Len(chain) = s
        BY <1>2, <2>1, <2>3
      <3>3. chain' \in Seq(BOOLEAN) /\ Len(chain') = s + 1
        BY <2>1, <3>1, <3>2
      <3> QED BY <1>2, <1>4, <2>1, <3>1, <3>2, <3>3
    <2> QED BY <2>2, <2>3
  <1>6. /\ Root(chain', s) = Root(chain, s) /\ (s # 0 => Rcpt(chain', s) = Rcpt(chain, s))
        /\ Root(chain', app.height) = Root(chain, app.height)
    BY <1>2, <1>5, ChainGrows
  <1>7. Types'
    <2>1. mem \in MemStates /\ mem' \in MemStates
      <3>1. mem \in MemStates
        BY <1>3 DEF Types
      <3> QED BY <1>2, <1>4, <3>1 DEF MemStates
    <2>2. store' \in 0 .. TipHeight /\ store' <= Len(chain')
      BY <1>2, <1>4, <1>5
    <2>3. window' \in BOOLEAN
      BY <1>4 DEF Types
    <2>4. pc' \in Steps /\ pc' # "down"
      BY <1>4 DEF Steps
    <2> QED BY <1>4, <1>5, <2>1, <2>2, <2>3, <2>4 DEF Types
  <1>8. DiskInv' /\ ReceiptsInv'
    <2>1. stateKey'.height = s /\ s <= app'.height /\ app'.height <= store' /\ store' <= s + 1
      BY <1>1, <1>2, <1>4
    <2>2. s > 0 => s # 0
      BY <1>2
    <2> QED BY <1>1, <1>4, <1>6, <2>1, <2>2 DEF DiskInv, ReceiptsInv, Received
  <1>9. MemInv'
    <2>1. CASE pc' = "panicked"
      BY <2>1 DEF MemInv, Blocks, AfterRun
    <2>2. CASE pc' = "stored"
      <3>1. store' = s + 1 /\ mem'.state = stateKey'
        <4>1. mem \in MemStates
          BY <1>3 DEF Types
        <4> QED BY <1>3, <1>4, <2>2, <4>1 DEF MemStates
      <3>2. app'.height = s \/ s = 0
        BY <1>1, <1>3, <1>4 DEF MemInv
      <3>3. app'.root = Root(chain', app'.height)
        BY <1>3, <1>4, <1>6 DEF MemInv
      <3> QED BY <1>1, <1>4, <2>2, <3>1, <3>2, <3>3 DEF MemInv, Blocks, AfterRun
    <2> QED BY <1>4, <2>1, <2>2
  <1> QED BY <1>7, <1>8, <1>9

\* A block is executed on the hashes it names.  Only the first one can find
\* itself executed already.
LEMMA ExecBlockKeeps == RecInv /\ ExecBlock => RecInv'
  <1> SUFFICES ASSUME RecInv, ExecBlock PROVE RecInv'
    OBVIOUS
  <1> USE DEF RecInv
  <1>1. PICK s : s = stateKey.height
    OBVIOUS
  <1>2. /\ TipHeight \in Nat /\ s \in Nat /\ s <= app.height /\ app.height <= store /\ store <= s + 1
        /\ app.height \in Nat /\ store \in Nat /\ store \in 0 .. TipHeight
    BY <1>1, HeightsAre
  <1>3. /\ pc = "stored" /\ mem.state = stateKey /\ store = s + 1
        /\ app.height = s \/ s = 0
        /\ app.root = Root(chain, app.height)
    BY <1>1 DEF ExecBlock, MemInv, Blocks
  <1>4. mem \in MemStates /\ stateKey \in States
    BY <1>3 DEF Types
  <1>5. s + 1 \in 0 .. TipHeight
    BY <1>2, <1>3
  <1>6. PICK root, rcpts : /\ root = app.root \cup (IF chain[s + 1] THEN {s + 1} ELSE {})
                           /\ rcpts = IF chain[s + 1] /\ s + 1 \notin app.root THEN {s + 1} ELSE {}
    OBVIOUS
  <1>7. /\ UNCHANGED <<chain, store, stateKey, app, receipts, lastStart, crashes, window>>
        /\ \/ pc' = "panicked" /\ UNCHANGED <<mem, interKey>>
           \/ /\ pc' = "executed" /\ ValidateBlock(s + 1)
              /\ interKey' = [stateKey EXCEPT !.height = s + 1]
              /\ mem' = [mem EXCEPT !.state = [stateKey EXCEPT !.height = s + 1],
                                    !.exec = [root |-> root, receipts |-> rcpts]]
    BY <1>1, <1>3, <1>6 DEF ExecBlock, Panic, diskVars
  <1>8. DiskInv' /\ ReceiptsInv'
    BY <1>7 DEF DiskInv, ReceiptsInv, Received
  <1>9. CASE pc' = "panicked"
    <2>1. Types'
      <3>1. window' \in BOOLEAN /\ chain' \in Seq(BOOLEAN)
        BY <1>7 DEF Types
      <3> QED BY <1>4, <1>7, <1>9, <3>1 DEF Types, Steps
    <2>2. MemInv'
      BY <1>9 DEF MemInv, Blocks, AfterRun
    <2> QED BY <1>8, <2>1, <2>2
  <1>10. CASE pc' = "executed"
    <2>1. /\ ValidateBlock(s + 1) /\ interKey' = [stateKey EXCEPT !.height = s + 1]
          /\ mem' = [mem EXCEPT !.state = [stateKey EXCEPT !.height = s + 1],
                                !.exec = [root |-> root, receipts |-> rcpts]]
      BY <1>7, <1>10
    <2>2. /\ Root(chain, s + 1) = Root(chain, s) \cup (IF chain[s + 1] THEN {s + 1} ELSE {})
          /\ s + 1 \notin Root(chain, s) /\ Root(chain, 0) = {}
      BY <1>2, RootOfNext
    <2>3. root = Root(chain, s + 1)
      <3>1. CASE app.height = s
        BY <1>3, <1>6, <2>2, <3>1
      <3>2. CASE s = 0 /\ app.height = 1
        BY <1>3, <1>6, <2>2, <3>2
      <3> QED BY <1>2, <1>3, <3>1, <3>2
    <2>4. rcpts \subseteq Rcpt(chain, s + 1)
      BY <1>6 DEF Rcpt
    <2>5. s > 0 => rcpts = Rcpt(chain, s + 1) /\ Received(s)
      <3> SUFFICES ASSUME s > 0 PROVE rcpts = Rcpt(chain, s + 1) /\ Received(s)
        OBVIOUS
      <3>1. app.root = Root(chain, s)
        BY <1>3
      <3>2. rcpts = Rcpt(chain, s + 1)
        BY <1>6, <2>2, <3>1 DEF Rcpt
      <3>3. Rcpt(chain, s) = stateKey.receiptsHash
        <4>1. HeaderOf(s + 1) = [appHash |-> Root(chain, s), receiptsHash |-> Rcpt(chain, s)]
          BY <1>2, HeaderIs
        <4>2. HeaderOf(s + 1).receiptsHash = stateKey.receiptsHash
          BY <1>3, <2>1 DEF ValidateBlock
        <4> QED BY <4>1, <4>2
      <3>4. Received(s) \/ (s = 1 /\ stateKey.receiptsHash \subseteq receipts)
        BY <1>1 DEF ReceiptsInv
      <3>5. Root(chain, 0 + 1) = Root(chain, 0) \cup Rcpt(chain, 0 + 1)
        BY RootOfNext
      <3> QED BY <2>2, <3>2, <3>3, <3>4, <3>5 DEF Received
    <2>6. root \in SUBSET (1 .. TipHeight) /\ rcpts \in SUBSET (1 .. TipHeight)
      <3>1. Rcpt(chain, s + 1) \in SUBSET (1 .. TipHeight) /\ Root(chain, s + 1) \in SUBSET (1 .. TipHeight)
        BY <1>2, <1>5, RootType
      <3> QED BY <2>3, <2>4, <3>1
    <2>7. [stateKey EXCEPT !.height = s + 1] \in States
      BY <1>4, <1>5 DEF States
    <2>8. Types'
      <3>1. window' \in BOOLEAN /\ chain' \in Seq(BOOLEAN)
        BY <1>7 DEF Types
      <3>2. mem' \in MemStates
        BY <1>4, <2>1, <2>6, <2>7 DEF MemStates
      <3> QED BY <1>7, <1>10, <2>1, <2>7, <3>1, <3>2 DEF Types, Steps
    <2>9. /\ mem'.state.height = s + 1 /\ mem'.exec = [root |-> root, receipts |-> rcpts]
          /\ mem'.exec.root = root /\ mem'.exec.receipts = rcpts
      BY <1>4, <2>1 DEF MemStates, States
    <2>10. MemInv'
      BY <1>1, <1>3, <1>7, <1>10, <2>3, <2>4, <2>5, <2>9 DEF MemInv, Blocks, AfterRun, Received
    <2> QED BY <1>8, <2>8, <2>10
  <1> QED BY <1>7, <1>9, <1>10

\* The application commits the block.
LEMMA CommitAppKeeps == RecInv /\ CommitApp => RecInv'
  <1> SUFFICES ASSUME RecInv, CommitApp PROVE RecInv'
    OBVIOUS
  <1> USE DEF RecInv
  <1>1. PICK s : s = stateKey.height
    OBVIOUS
  <1>2. /\ s \in Nat /\ s <= app.height /\ app.height <= store /\ store <= s + 1
        /\ app.height \in Nat /\ store \in Nat /\ store \in 0 .. TipHeight
    BY <1>1, HeightsAre
  <1>3. /\ UNCHANGED <<chain, store, stateKey, interKey, receipts, mem, lastStart, crashes, window>>
        /\ pc = "executed" /\ pc' = "committed"
        /\ app' = [height |-> mem.state.height, root |-> mem.exec.root]
    BY DEF CommitApp
  <1>4. store = s + 1 /\ app' = [height |-> s + 1, root |-> Root(chain, s + 1)]
    BY <1>1, <1>3 DEF MemInv, Blocks, AfterRun
  <1>5. Types'
    <2>1. window' \in BOOLEAN /\ chain' \in Seq(BOOLEAN)
      BY <1>3 DEF Types
    <2>2. app' \in [height : 0 .. TipHeight, root : Hashes]
      BY <1>2, <1>4, RootType
    <2> QED BY <1>3, <2>1, <2>2 DEF Types, Steps
  <1>6. DiskInv' /\ ReceiptsInv'
    BY <1>1, <1>2, <1>3, <1>4 DEF DiskInv, ReceiptsInv, Received
  <1>7. MemInv'
    BY <1>1, <1>3, <1>4 DEF MemInv, Blocks, AfterRun, Received
  <1> QED BY <1>5, <1>6, <1>7

\* The receipts of the block follow, and the state in memory has its hashes.
LEMMA SaveReceiptsKeeps == RecInv /\ SaveReceipts => RecInv'
  <1> SUFFICES ASSUME RecInv, SaveReceipts PROVE RecInv'
    OBVIOUS
  <1> USE DEF RecInv
  <1>1. PICK s : s = stateKey.height
    OBVIOUS
  <1>2. s \in Nat /\ s + 1 \in 0 .. TipHeight
    BY <1>1, HeightsAre DEF SaveReceipts, MemInv, Blocks
  <1>3. /\ UNCHANGED <<chain, store, stateKey, interKey, app, lastStart, crashes, window>>
        /\ pc = "committed" /\ pc' = "applied"
        /\ receipts' = receipts \cup mem.exec.receipts
        /\ mem' = [mem EXCEPT !.state.appHash = mem.exec.root, !.state.receiptsHash = mem.exec.receipts]
    BY DEF SaveReceipts
  <1>4. /\ mem.state.height = s + 1 /\ mem.exec.root = Root(chain, s + 1)
        /\ s > 0 => Received(s) /\ mem.exec.receipts = Rcpt(chain, s + 1)
        /\ mem.exec.receipts \subseteq Rcpt(chain, s + 1)
        /\ app.height = s + 1 /\ store = s + 1 /\ app.root = Root(chain, app.height)
    BY <1>1, <1>2, <1>3 DEF MemInv, Blocks, AfterRun
  <1>5. mem \in MemStates
    BY <1>3 DEF Types
  <1>6. /\ mem.exec.receipts \in SUBSET (1 .. TipHeight) /\ mem.exec.root \in SUBSET (1 .. TipHeight)
        /\ mem.exec.receipts \in Hashes /\ mem.exec.root \in Hashes
    <2>1. Rcpt(chain, s + 1) \in SUBSET (1 .. TipHeight) /\ Root(chain, s + 1) \in SUBSET (1 .. TipHeight)
      BY <1>2, RootType
    <2> QED BY <1>4, <2>1 DEF Hashes
  <1>7. /\ mem'.state.height = s + 1 /\ mem'.exec = mem.exec
        /\ mem'.state.appHash = mem.exec.root /\ mem'.state.receiptsHash = mem.exec.receipts
        /\ mem' \in MemStates
    BY <1>3, <1>4, <1>5, <1>6 DEF MemStates, States
  <1>8. Types'
    <2>1. window' \in BOOLEAN /\ chain' \in Seq(BOOLEAN)
      BY <1>3 DEF Types
    <2>2. receipts' \subseteq 1 .. TipHeight
      BY <1>3, <1>6 DEF Types
    <2> QED BY <1>3, <1>7, <2>1, <2>2 DEF Types, Steps
  <1>9. DiskInv' /\ ReceiptsInv'
    BY <1>3 DEF DiskInv, ReceiptsInv, Received
  <1>10. MemInv'
    BY <1>1, <1>3, <1>4, <1>7 DEF MemInv, Blocks, AfterRun, Received
  <1> QED BY <1>8, <1>9, <1>10

\* The state is saved: the next height.
LEMMA SaveStateKeeps == RecInv /\ SaveState => RecInv'
  <1> SUFFICES ASSUME RecInv, SaveState PROVE RecInv'
    OBVIOUS
  <1> USE DEF RecInv
  <1>1. PICK s : s = stateKey.height
    OBVIOUS
  <1>2. s \in Nat /\ s + 1 \in 0 .. TipHeight
    BY <1>1, HeightsAre DEF SaveState, MemInv, Blocks
  <1>3. /\ UNCHANGED <<chain, store, interKey, app, receipts, lastStart, crashes, window>>
        /\ pc = "applied" /\ pc' = "idle"
        /\ stateKey' = mem.state /\ mem' = [mem EXCEPT !.exec = None]
    BY DEF SaveState
  <1>4. /\ mem.state.height = s + 1 /\ mem.exec.root = Root(chain, s + 1)
        /\ s > 0 => Received(s) /\ mem.exec.receipts = Rcpt(chain, s + 1)
        /\ mem.state.appHash = mem.exec.root /\ mem.state.receiptsHash = mem.exec.receipts
        /\ mem.exec.receipts \subseteq receipts
        /\ app.height = s + 1 /\ store = s + 1 /\ app.root = Root(chain, app.height)
    BY <1>1, <1>3 DEF MemInv, Blocks, AfterRun
  <1>5. mem \in MemStates
    BY <1>3 DEF Types
  <1>6. mem' \in MemStates /\ mem'.state = mem.state /\ mem.state \in States
    BY <1>3, <1>5 DEF MemStates
  <1>7. Types'
    <2>1. window' \in BOOLEAN /\ chain' \in Seq(BOOLEAN)
      BY <1>3 DEF Types
    <2> QED BY <1>3, <1>6, <2>1 DEF Types, Steps
  <1>8. DiskInv'
    BY <1>2, <1>3, <1>4 DEF DiskInv
  <1>9. ReceiptsInv'
    <2>1. CASE s > 0
      <3>1. Root(chain, s + 1) = Root(chain, s) \cup Rcpt(chain, s + 1)
        BY <1>2, RootOfNext
      <3> QED BY <1>3, <1>4, <2>1, <3>1 DEF ReceiptsInv, Received
    <2>2. CASE s = 0
      BY <1>3, <1>4, <2>2 DEF ReceiptsInv
    <2> QED BY <1>2, <2>1, <2>2
  <1>10. MemInv'
    BY <1>3, <1>4, <1>6 DEF MemInv, Blocks, AfterRun
  <1> QED BY <1>7, <1>8, <1>9, <1>10

\* A crash takes the memory and leaves the disk.
LEMMA CrashKeeps == RecInv /\ Crash => RecInv'
  <1> SUFFICES ASSUME RecInv, Crash PROVE RecInv'
    OBVIOUS
  <1> USE DEF RecInv
  <1>1. /\ UNCHANGED <<chain, store, stateKey, interKey, app, receipts, lastStart>>
        /\ pc' = "down" /\ mem' = None
        /\ pc # "panicked" => crashes < MaxCrashes
        /\ crashes' = IF pc = "panicked" THEN crashes ELSE crashes + 1
    BY DEF Crash, diskVars
  <1>2. Types'
    <2>1. window' \in BOOLEAN
      BY DEF Crash
    <2>2. chain' \in Seq(BOOLEAN)
      BY <1>1 DEF Types
    <2>3. crashes' \in 0 .. MaxCrashes
      BY <1>1, NodeRecoveryAssumption DEF Types
    <2> QED BY <1>1, <2>1, <2>2, <2>3 DEF Types, Steps
  <1>3. DiskInv' /\ ReceiptsInv' /\ MemInv'
    BY <1>1 DEF DiskInv, ReceiptsInv, Received, MemInv, Blocks, AfterRun
  <1> QED BY <1>2, <1>3

-----------------------------------------------------------------------------
\* RecInv is an invariant.
LEMMA RecInvHolds == RecSpec => []RecInv
  <1>1. RecInv /\ UNCHANGED recVars => RecInv'
    BY DEF RecInv, Types, DiskInv, ReceiptsInv, Received, MemInv, recVars
  <1>2. RecInv /\ [RecNext]_recVars => RecInv'
    BY <1>1, RestartKeeps, StartAppKeeps, SaveBlockKeeps, ExecBlockKeeps, CommitAppKeeps,
       SaveReceiptsKeeps, SaveStateKeeps, CrashKeeps DEF RecNext, Commit
  <1> QED BY RecInvInit, <1>2, PTL DEF RecSpec

\* SaveBlock, the application's commit and State.Save, crashes between any two
\* of them included, leave the application between state and store, the store at
\* most one block ahead of the state, and all branches of RecoverFromCrash but
\* three dead code.
THEOREM DiskHeightsHold == RecSpec => []HeightsOnDisk
  <1>1. RecInv => HeightsOnDisk
    <2> SUFFICES ASSUME RecInv PROVE HeightsOnDisk
      OBVIOUS
    <2> USE DEF RecInv
    <2>1. window \in BOOLEAN /\ chain \in Seq(BOOLEAN)
      BY DEF Types
    <2>2. mem = None \/ mem.state \in States
      BY DEF Types, MemStates
    <2>3. RecTypeOK
      BY <2>1, <2>2 DEF Types, RecTypeOK
    <2> QED BY <2>3 DEF DiskInv, HeightsOnDisk
  <1> QED BY <1>1, RecInvHolds, PTL

\* Every state a node saves has the application hash the chain prescribes, and
\* from height 2 on its receipts, whatever crashes cut its commits short.
THEOREM DiskIsChain == RecSpec => []DiskFollowsChain
  <1>1. RecInv => DiskFollowsChain
    <2> SUFFICES ASSUME RecInv PROVE DiskFollowsChain
      OBVIOUS
    <2>1. stateKey.height \in Nat
      BY HeightsAre DEF RecInv
    <2>2. stateKey.height > 1 => Received(stateKey.height)
      BY <2>1 DEF RecInv, ReceiptsInv
    <2>3. stateKey.height > 0 => stateKey.appHash = Root(chain, stateKey.height)
      BY DEF RecInv, DiskInv
    <2> QED BY <2>2, <2>3 DEF DiskFollowsChain, Received, Root, Rcpt, RootAt, ReceiptsAt
  <1> QED BY <1>1, RecInvHolds, PTL
=============================================================================
