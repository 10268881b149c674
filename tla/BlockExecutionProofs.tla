------------------------ MODULE BlockExecutionProofs ------------------------
(***************************************************************************)
(* For a block of any length and any number of validating goroutines: what *)
(* exeWithCPUParallelVeirfy executes was decoded and checked, and the      *)
(* counter of no WaitGroup leaves 0 .. 1.                                  *)
(*                                                                         *)
(* The argument: a swap of the status gives a transaction to at most one   *)
(* goroutine, which alone writes its status and its error and calls Done;  *)
(* of a failed one the executing goroutine reads only that it failed.      *)
(***************************************************************************)
EXTENDS BlockExecution, TLAPS

Pcs == {"scan", "swapped", "fail", "done"}

Types ==
    /\ kind \in [Txn -> Kinds] /\ txErr \in [Txn -> BOOLEAN] /\ txReady \in [Txn -> 0 .. 1]
    /\ txStatus \in [Txn -> {"none", "init", "checking", "checked", "failed"}]
    /\ initAt \in 1 .. BlockTxs + 1
    /\ checker \in [ValidateRoutines -> [at : 1 .. BlockTxs + 1, pc : Pcs]]
    /\ exec \in [at : 1 .. BlockTxs + 1, pc : {"poll", "wait", "failed", "executed", "fired"}]
    /\ outcome \in Seq([valid : BOOLEAN, executed : BOOLEAN])
    /\ call \in {"received", "listening", "ok", "error", "timeout"}

\* A transaction has a status once it is decoded, and its counter is raised
\* while it is to be checked.
Decoded ==
    \A i \in Txn :
        /\ i >= initAt <=> txStatus[i] = "none"
        /\ txStatus[i] = "none" => txReady[i] = 0
        /\ txStatus[i] = "init" => txReady[i] = 1

\* A goroutine that has taken a transaction has it alone, and nobody has called
\* Done for it.
Holds(c, i) == checker[c].pc # "scan" /\ checker[c].at = i
HeldByOne ==
    /\ \A c, d \in ValidateRoutines, i \in Txn : Holds(c, i) /\ Holds(d, i) => c = d
    /\ \A c \in ValidateRoutines : checker[c].pc # "scan" =>
          /\ checker[c].at \in Txn
          /\ txReady[checker[c].at] = 1
          /\ txStatus[checker[c].at] \notin {"none", "init"}
          /\ checker[c].pc = "swapped" => txStatus[checker[c].at] = "checking"
          /\ checker[c].pc = "fail" => txStatus[checker[c].at] = "failed"

\* A status says what the transaction is.
StatusIsTrue ==
    \A i \in Txn :
        /\ txErr[i] => kind[i] \in {"garbage", "unsigned"}
        /\ txStatus[i] # "none" /\ kind[i] = "garbage" => txErr[i]
        /\ txStatus[i] = "checked" => kind[i] \in {"good", "rejected"}
        /\ txStatus[i] = "failed" => kind[i] \in {"garbage", "unsigned"}

\* The executing goroutine, what it has told end, and what the caller was told.
OutcomesAreTrue ==
    /\ Len(outcome) = exec.at - 1
    /\ exec.pc \in {"poll", "wait", "failed"} => exec.at \in Txn
    /\ exec.pc \in {"executed", "fired"} => exec.at = BlockTxs + 1
    /\ exec.pc = "failed" => txStatus[exec.at] = "failed"
    /\ \A i \in 1 .. Len(outcome) :
          /\ outcome[i].executed =>
                kind[i] \in {"good", "rejected"} /\ (outcome[i].valid <=> kind[i] = "good")
          /\ kind[i] = "good" => outcome[i].executed
    /\ call = "error" => kind[1] # "good"

ExecInv == Types /\ Decoded /\ HeldByOne /\ StatusIsTrue /\ OutcomesAreTrue

-----------------------------------------------------------------------------
\* Before any goroutine ran.
LEMMA ExecInvInit == ExecInit => ExecInv
  <1> SUFFICES ASSUME ExecInit PROVE ExecInv
    OBVIOUS
  <1> USE BlockExecutionAssumption DEF Txn
  <1>1. Types
    <2>1. kind \in [Txn -> Kinds]
      BY DEF ExecInit
    <2>2. txErr \in [Txn -> BOOLEAN] /\ outcome \in Seq([valid : BOOLEAN, executed : BOOLEAN])
      BY DEF ExecInit
    <2> QED BY <2>1, <2>2 DEF ExecInit, Types, Pcs
  <1>2. Decoded /\ HeldByOne
    BY DEF ExecInit, Decoded, HeldByOne, Holds
  <1>3. StatusIsTrue /\ OutcomesAreTrue
    BY DEF ExecInit, StatusIsTrue, OutcomesAreTrue
  <1> QED BY <1>1, <1>2, <1>3 DEF ExecInv

\* The next transaction is decoded.
LEMMA InitTxKeeps == ExecInv /\ InitTx => ExecInv'
  <1> SUFFICES ASSUME ExecInv, InitTx PROVE ExecInv'
    OBVIOUS
  <1> USE BlockExecutionAssumption DEF ExecInv, Txn
  <1>1. /\ UNCHANGED <<kind, checker, exec, outcome, call>>
        /\ initAt \in Txn /\ initAt' = initAt + 1
        /\ txReady' = [txReady EXCEPT ![initAt] = @ + 1]
        /\ txErr' = [txErr EXCEPT ![initAt] = kind[initAt] = "garbage"]
        /\ txStatus' = [txStatus EXCEPT ![initAt] = "init"]
    BY DEF InitTx, Types
  <1>2. txStatus[initAt] = "none" /\ txReady[initAt] = 0
    BY <1>1 DEF Decoded
  <1>3. /\ txStatus'[initAt] = "init" /\ txReady'[initAt] = 1
        /\ txErr'[initAt] <=> kind[initAt] = "garbage"
        /\ \A i \in Txn \ {initAt} : txStatus'[i] = txStatus[i] /\ txReady'[i] = txReady[i]
                                     /\ (txErr'[i] <=> txErr[i])
    <2>1. /\ txStatus'[initAt] = "init" /\ txReady'[initAt] = 1
          /\ \A i \in Txn \ {initAt} : txStatus'[i] = txStatus[i] /\ txReady'[i] = txReady[i]
      BY <1>1, <1>2 DEF Types
    <2>2. txErr'[initAt] = (kind[initAt] = "garbage")
      BY <1>1, Zenon DEF Types
    <2>3. \A i \in Txn \ {initAt} : txErr'[i] = txErr[i]
      BY <1>1 DEF Types
    <2> QED BY <2>1, <2>2, <2>3
  <1>4. Types'
    <2>1. txErr' \in [Txn -> BOOLEAN]
      BY <1>1 DEF Types
    <2>2. txReady' \in [Txn -> 0 .. 1]
      BY <1>1, <1>2 DEF Types
    <2> QED BY <1>1, <2>1, <2>2 DEF Types
  <1>5. Decoded'
    BY <1>1, <1>3 DEF Decoded, Types
  <1>6. HeldByOne'
    <2>1. \A c \in ValidateRoutines : checker[c].pc # "scan" => checker[c].at # initAt
      BY <1>2 DEF HeldByOne
    <2> QED BY <1>1, <1>3, <2>1 DEF HeldByOne, Holds
  <1>7. StatusIsTrue'
    BY <1>1, <1>3 DEF StatusIsTrue
  <1>8. OutcomesAreTrue'
    BY <1>1, <1>2, <1>3 DEF OutcomesAreTrue
  <1> QED BY <1>4, <1>5, <1>6, <1>7, <1>8

\* A step of a goroutine that checks.
LEMMA CheckKeeps ==
    ASSUME ExecInv, NEW c \in ValidateRoutines, Check(c)
    PROVE  ExecInv'
  <1> USE BlockExecutionAssumption DEF ExecInv, Txn
  <1> DEFINE i == checker[c].at
  <1>1. i \in 1 .. BlockTxs + 1 /\ checker[c].pc \in Pcs
    BY DEF Types
  <1>2. CASE Scan(c)
    <2>1. /\ checker[c].pc = "scan" /\ i \in Txn
          /\ UNCHANGED <<kind, txErr, txReady, initAt, exec, outcome, call>>
      BY <1>1, <1>2 DEF Scan
    <2>2. CASE txStatus[i] = "none"
      <3>1. UNCHANGED <<checker, txStatus>>
        BY <1>2, <2>2 DEF Scan
      <3> QED BY <2>1, <3>1 DEF Types, Decoded, HeldByOne, Holds, StatusIsTrue, OutcomesAreTrue
    <2>3. CASE txStatus[i] = "init"
      <3>1. /\ txStatus' = [txStatus EXCEPT ![i] = "checking"]
            /\ checker' = [checker EXCEPT ![c] = [at |-> i, pc |-> "swapped"]]
        BY <1>2, <2>3 DEF Scan, ToStep
      <3>2. /\ txStatus'[i] = "checking" /\ txReady[i] = 1
            /\ \A j \in Txn \ {i} : txStatus'[j] = txStatus[j]
            /\ checker'[c] = [at |-> i, pc |-> "swapped"]
            /\ \A d \in ValidateRoutines \ {c} : checker'[d] = checker[d]
        BY <2>1, <2>3, <3>1 DEF Types, Decoded
      <3>3. Types'
        BY <1>1, <2>1, <3>1 DEF Types, Pcs
      <3>4. Decoded'
        BY <2>1, <2>3, <3>2 DEF Decoded
      <3>5. HeldByOne'
        <4>1. \A d \in ValidateRoutines : checker[d].pc # "scan" => checker[d].at # i
          BY <2>3 DEF HeldByOne
        <4> QED BY <2>1, <3>2, <4>1 DEF HeldByOne, Holds
      <3>6. StatusIsTrue'
        BY <2>1, <2>3, <3>2 DEF StatusIsTrue
      <3>7. OutcomesAreTrue'
        BY <2>1, <2>3, <3>2 DEF OutcomesAreTrue
      <3> QED BY <3>3, <3>4, <3>5, <3>6, <3>7
    <2>4. CASE txStatus[i] \notin {"none", "init"}
      <3>1. checker' = [checker EXCEPT ![c] = [at |-> i + 1, pc |-> "scan"]] /\ UNCHANGED txStatus
        BY <1>2, <2>4 DEF Scan, ToStep
      <3>2. /\ checker'[c] = [at |-> i + 1, pc |-> "scan"]
            /\ \A d \in ValidateRoutines \ {c} : checker'[d] = checker[d]
        BY <3>1 DEF Types
      <3>3. Types'
        BY <2>1, <3>1 DEF Types, Pcs
      <3>4. HeldByOne'
        BY <2>1, <3>1, <3>2 DEF HeldByOne, Holds
      <3> QED BY <2>1, <3>1, <3>3, <3>4 DEF Decoded, StatusIsTrue, OutcomesAreTrue
    <2> QED BY <2>2, <2>3, <2>4
  <1>3. CASE StoreStatus(c)
    <2> DEFINE bad == txErr[i] \/ kind[i] = "unsigned"
    <2>1. /\ checker[c].pc = "swapped" /\ i \in Txn /\ txStatus[i] = "checking" /\ txReady[i] = 1
          /\ UNCHANGED <<kind, txErr, txReady, initAt, exec, outcome, call>>
      BY <1>3 DEF StoreStatus, HeldByOne
    <2>2. /\ txStatus' = [txStatus EXCEPT ![i] = IF bad THEN "failed" ELSE "checked"]
          /\ checker' = [checker EXCEPT ![c] = [at |-> i, pc |-> IF ~txErr[i] /\ kind[i] = "unsigned" THEN "fail" ELSE "done"]]
      BY <1>3 DEF StoreStatus, ToStep
    <2>3. /\ txStatus'[i] = (IF bad THEN "failed" ELSE "checked")
          /\ \A j \in Txn \ {i} : txStatus'[j] = txStatus[j]
          /\ checker'[c] = [at |-> i, pc |-> IF ~txErr[i] /\ kind[i] = "unsigned" THEN "fail" ELSE "done"]
          /\ \A d \in ValidateRoutines \ {c} : checker'[d] = checker[d]
      BY <2>1, <2>2 DEF Types
    <2>4. Types'
      BY <1>1, <2>1, <2>2 DEF Types, Pcs
    <2>5. Decoded'
      BY <2>1, <2>3 DEF Decoded
    <2>6. HeldByOne'
      <3>1. \A d \in ValidateRoutines \ {c} : checker[d].pc # "scan" => checker[d].at # i
        BY <2>1 DEF HeldByOne, Holds
      <3> QED BY <2>1, <2>3, <3>1 DEF HeldByOne, Holds
    <2>7. StatusIsTrue'
      <3>1. kind[i] \in Kinds
        BY <2>1 DEF Types
      <3> QED BY <2>1, <2>3, <3>1 DEF StatusIsTrue, Kinds
    <2>8. OutcomesAreTrue'
      BY <2>1, <2>3 DEF OutcomesAreTrue
    <2> QED BY <2>4, <2>5, <2>6, <2>7, <2>8
  <1>4. CASE StoreErr(c)
    <2>1. /\ checker[c].pc = "fail" /\ i \in Txn /\ txStatus[i] = "failed" /\ txReady[i] = 1
          /\ UNCHANGED <<kind, txStatus, txReady, initAt, exec, outcome, call>>
          /\ txErr' = [txErr EXCEPT ![i] = TRUE]
          /\ checker' = [checker EXCEPT ![c] = [at |-> i, pc |-> "done"]]
      BY <1>4 DEF StoreErr, ToStep, HeldByOne
    <2>2. /\ txErr'[i] /\ \A j \in Txn \ {i} : txErr'[j] <=> txErr[j]
          /\ checker'[c] = [at |-> i, pc |-> "done"]
          /\ \A d \in ValidateRoutines \ {c} : checker'[d] = checker[d]
      BY <2>1 DEF Types
    <2>3. Types'
      BY <1>1, <2>1 DEF Types, Pcs
    <2>4. HeldByOne'
      BY <2>1, <2>2 DEF HeldByOne, Holds
    <2>5. StatusIsTrue'
      BY <2>1, <2>2 DEF StatusIsTrue
    <2> QED BY <2>1, <2>3, <2>4, <2>5 DEF Decoded, OutcomesAreTrue
  <1>5. CASE Ready(c)
    <2>1. /\ checker[c].pc = "done" /\ i \in Txn /\ txReady[i] = 1 /\ txStatus[i] \notin {"none", "init"}
          /\ UNCHANGED <<kind, txStatus, txErr, initAt, exec, outcome, call>>
          /\ txReady' = [txReady EXCEPT ![i] = @ - 1]
          /\ checker' = [checker EXCEPT ![c] = [at |-> i + 1, pc |-> "scan"]]
      BY <1>5 DEF Ready, ToStep, HeldByOne
    <2>2. /\ txReady'[i] = 0 /\ \A j \in Txn \ {i} : txReady'[j] = txReady[j]
          /\ checker'[c] = [at |-> i + 1, pc |-> "scan"]
          /\ \A d \in ValidateRoutines \ {c} : checker'[d] = checker[d]
      BY <2>1 DEF Types
    <2>3. Types'
      BY <2>1 DEF Types, Pcs
    <2>4. Decoded'
      BY <2>1, <2>2 DEF Decoded
    <2>5. HeldByOne'
      <3>1. \A d \in ValidateRoutines \ {c} : checker[d].pc # "scan" => checker[d].at # i
        BY <2>1 DEF HeldByOne, Holds
      <3> QED BY <2>1, <2>2, <3>1 DEF HeldByOne, Holds
    <2> QED BY <2>1, <2>3, <2>4, <2>5 DEF StatusIsTrue, OutcomesAreTrue
  <1> QED BY <1>2, <1>3, <1>4, <1>5 DEF Check

\* A step of the goroutine that executes.
LEMMA ExecuteKeeps == ExecInv /\ Execute => ExecInv'
  <1> SUFFICES ASSUME ExecInv, Execute PROVE ExecInv'
    OBVIOUS
  <1> USE BlockExecutionAssumption DEF ExecInv, Txn
  <1>1. ASSUME UNCHANGED <<kind, txStatus, txErr, txReady, initAt, checker>>
        PROVE  Decoded' /\ HeldByOne' /\ StatusIsTrue'
    BY <1>1 DEF Decoded, HeldByOne, Holds, StatusIsTrue
  <1>2. ASSUME NEW valid \in BOOLEAN, NEW executed \in BOOLEAN, End(valid, executed),
               exec.at \in Txn,
               executed => kind[exec.at] \in {"good", "rejected"} /\ (valid <=> kind[exec.at] = "good"),
               kind[exec.at] = "good" => executed,
               UNCHANGED <<kind, txStatus, txErr, txReady, initAt, checker, call>>
        PROVE  Types' /\ OutcomesAreTrue'
    <2> DEFINE new == [valid |-> valid, executed |-> executed]
    <2>1. /\ outcome' = Append(outcome, new)
          /\ exec' = [at |-> exec.at + 1, pc |-> IF exec.at = BlockTxs THEN "executed" ELSE "poll"]
      BY <1>2 DEF End
    <2>2. new \in [valid : BOOLEAN, executed : BOOLEAN]
      OBVIOUS
    <2>3. outcome \in Seq([valid : BOOLEAN, executed : BOOLEAN]) /\ Len(outcome) = exec.at - 1
      BY DEF Types, OutcomesAreTrue
    <2>4. (new.valid <=> valid) /\ (new.executed <=> executed)
      BY Zenon
    <2> HIDE DEF new
    <2>5. /\ outcome' \in Seq([valid : BOOLEAN, executed : BOOLEAN])
          /\ Len(outcome') = exec.at /\ outcome'[exec.at] = new
          /\ \A i \in 1 .. Len(outcome) : outcome'[i] = outcome[i]
      BY <1>2, <2>1, <2>2, <2>3
    <2>6. Types'
      BY <1>2, <2>1, <2>5 DEF Types
    <2>7. \A i \in 1 .. Len(outcome') :
             /\ outcome'[i].executed =>
                   kind[i] \in {"good", "rejected"} /\ (outcome'[i].valid <=> kind[i] = "good")
             /\ kind[i] = "good" => outcome'[i].executed
      <3> TAKE i \in 1 .. Len(outcome')
      <3>1. CASE i = exec.at
        BY <1>2, <2>4, <2>5, <3>1
      <3>2. CASE i \in 1 .. Len(outcome)
        BY <2>5, <3>2 DEF OutcomesAreTrue
      <3> QED BY <1>2, <2>3, <2>5, <3>1, <3>2
    <2>8. OutcomesAreTrue'
      BY <1>2, <2>1, <2>5, <2>7 DEF OutcomesAreTrue
    <2> QED BY <2>6, <2>8
  <1>3. CASE Poll
    <2>1. exec.pc = "poll" /\ exec.at \in Txn /\ UNCHANGED <<kind, txStatus, txErr, txReady, initAt, checker, call>>
      BY <1>3 DEF Poll, OutcomesAreTrue
    <2>2. CASE txStatus[exec.at] = "checked"
      <3>1. End(kind[exec.at] # "rejected", TRUE)
        BY <1>3, <2>2 DEF Poll
      <3>2. kind[exec.at] \in {"good", "rejected"}
        BY <2>1, <2>2 DEF StatusIsTrue
      <3> QED BY <1>1, <1>2, <2>1, <3>1, <3>2
    <2>3. CASE txStatus[exec.at] # "checked"
      <3>1. /\ UNCHANGED outcome
            /\ exec' = [exec EXCEPT !.pc = IF txStatus[exec.at] = "failed" THEN "failed" ELSE "wait"]
        BY <1>3, <2>3 DEF Poll
      <3>2. Types' /\ OutcomesAreTrue'
        BY <2>1, <3>1 DEF Types, OutcomesAreTrue
      <3> QED BY <1>1, <2>1, <3>2
    <2> QED BY <2>2, <2>3
  <1>4. CASE WaitReady
    <2>1. /\ exec.pc = "wait" /\ exec' = [exec EXCEPT !.pc = "poll"]
          /\ UNCHANGED <<kind, txStatus, txErr, txReady, initAt, checker, outcome, call>>
      BY <1>4 DEF WaitReady
    <2>2. Types' /\ OutcomesAreTrue'
      BY <2>1 DEF Types, OutcomesAreTrue
    <2> QED BY <1>1, <2>1, <2>2
  <1>5. CASE ReadErr
    <2>1. /\ exec.pc = "failed" /\ exec.at \in Txn /\ End(~txErr[exec.at], FALSE)
          /\ UNCHANGED <<kind, txStatus, txErr, txReady, initAt, checker, call>>
      BY <1>5 DEF ReadErr, OutcomesAreTrue
    <2>2. kind[exec.at] # "good"
      BY <2>1 DEF StatusIsTrue, OutcomesAreTrue
    <2> QED BY <1>1, <1>2, <2>1, <2>2
  <1>6. CASE FireEvents
    <2>1. /\ exec.pc = "executed" /\ exec' = [exec EXCEPT !.pc = "fired"]
          /\ call' = IF call # "listening" THEN call ELSE IF outcome[1].valid THEN "ok" ELSE "error"
          /\ UNCHANGED <<kind, txStatus, txErr, txReady, initAt, checker, outcome>>
      BY <1>6 DEF FireEvents
    <2>2. 1 \in 1 .. Len(outcome)
      BY <2>1 DEF OutcomesAreTrue
    <2>3. kind[1] = "good" => outcome[1].valid
      BY <2>2 DEF OutcomesAreTrue
    <2>4. Types'
      BY <2>1 DEF Types
    <2>5. OutcomesAreTrue'
      BY <2>1, <2>3 DEF OutcomesAreTrue
    <2> QED BY <1>1, <2>1, <2>4, <2>5
  <1> QED BY <1>3, <1>4, <1>5, <1>6 DEF Execute

\* Every step keeps the invariant.
LEMMA ExecInvNext == ExecInv /\ [ExecNext]_execVars => ExecInv'
  <1> SUFFICES ASSUME ExecInv, [ExecNext]_execVars PROVE ExecInv'
    OBVIOUS
  <1>1. CASE Listen \/ CallTimeout
    <2>1. /\ UNCHANGED <<kind, txStatus, txErr, txReady, initAt, checker, exec, outcome>>
          /\ call' \in {"listening", "timeout"}
      BY <1>1 DEF Listen, CallTimeout
    <2> QED BY <2>1 DEF ExecInv, Types, Decoded, HeldByOne, Holds, StatusIsTrue, OutcomesAreTrue
  <1>2. CASE UNCHANGED execVars
    BY <1>2 DEF execVars, ExecInv, Types, Decoded, HeldByOne, Holds, StatusIsTrue, OutcomesAreTrue
  <1> QED BY <1>1, <1>2, InitTxKeeps, CheckKeeps, ExecuteKeeps DEF ExecNext

\* Whatever the length of the block, the number of goroutines that check and
\* their interleaving: only transactions that decode and are signed are executed,
\* in the order of the block, a good one always, and no WaitGroup goes below zero.
THEOREM BlockIsExecutedSafely == ExecSpec => []OnlyCheckedExecute
  <1>1. ExecInv => OnlyCheckedExecute
    <2> SUFFICES ASSUME ExecInv PROVE OnlyCheckedExecute
      OBVIOUS
    <2> USE BlockExecutionAssumption DEF ExecInv
    <2>1. ExecTypeOK
      BY DEF ExecTypeOK, Types, OutcomesAreTrue
    <2>2. \A i \in DOMAIN outcome :
             /\ outcome[i].executed =>
                   kind[i] \in {"good", "rejected"} /\ outcome[i].valid = (kind[i] = "good")
             /\ kind[i] = "good" => outcome[i].executed
      <3>1. DOMAIN outcome = 1 .. Len(outcome) /\ \A i \in DOMAIN outcome : outcome[i].valid \in BOOLEAN
        <4> DEFINE R == [valid : BOOLEAN, executed : BOOLEAN]
        <4>1. \A r \in R : r.valid \in BOOLEAN
          BY Zenon
        <4>2. outcome \in Seq(R)
          BY DEF Types
        <4> HIDE DEF R
        <4>3. DOMAIN outcome = 1 .. Len(outcome) /\ \A i \in DOMAIN outcome : outcome[i] \in R
          BY <4>2
        <4> QED BY <4>1, <4>3
      <3> QED BY <3>1 DEF OutcomesAreTrue
    <2> QED BY <2>1, <2>2 DEF OnlyCheckedExecute, OutcomesAreTrue
  <1> QED BY <1>1, ExecInvInit, ExecInvNext, PTL DEF ExecSpec

=============================================================================
