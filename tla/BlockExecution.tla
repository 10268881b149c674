--------------------------- MODULE BlockExecution ---------------------------
(***************************************************************************)
(* The execution of a block's transactions by the EVM application:         *)
(* exeWithCPUParallelVeirfy (chain/app/evm/verifycpuparallel.go), in which *)
(* one goroutine decodes, several check signatures and one executes, all   *)
(* meeting on an atomic status and a WaitGroup per transaction; then       *)
(* execBlockOnApp's goroutine that fires the events of the transactions,   *)
(* and a call of BroadcastTxCommit (gemmill/angine.go) that waits for one. *)
(***************************************************************************)
EXTENDS Integers, Sequences, FiniteSets

CONSTANTS BlockTxs,          \* number of transactions in the block
          ValidateRoutines,  \* the goroutines that check signatures
          TxKinds            \* what transactions may be: a subset of Kinds

\* Good; not decodable; with a signature Sender refuses; refused by the EVM.
Kinds == {"good", "garbage", "unsigned", "rejected"}

ASSUME BlockExecutionAssumption == BlockTxs \in Nat \ {0} /\ TxKinds \subseteq Kinds

VARIABLES
    kind,      \* what each transaction is
    txStatus,  \* appTx.status
    txErr,     \* whether appTx.err is set
    txReady,   \* the counter of appTx.ready
    initAt,    \* the next transaction of initTxQueue
    checker,   \* each validateRoutine: [at, pc]
    exec,      \* the executing goroutine: [at, pc]
    outcome,   \* what end was told of each transaction: [valid, executed]
    call       \* BroadcastTxCommit of the first transaction

execVars == <<kind, txStatus, txErr, txReady, initAt, checker, exec, outcome, call>>

Txn == 1 .. BlockTxs

ExecInit ==
    /\ kind \in [Txn -> TxKinds]
    /\ txStatus = [i \in Txn |-> "none"] /\ txErr = [i \in Txn |-> FALSE]
    /\ txReady = [i \in Txn |-> 0] /\ initAt = 1
    /\ checker = [c \in ValidateRoutines |-> [at |-> 1, pc |-> "scan"]]
    /\ exec = [at |-> 1, pc |-> "poll"] /\ outcome = <<>> /\ call = "received"

-----------------------------------------------------------------------------
\* initTxQueue and txQueue: decode the next transaction.
InitTx ==
    /\ initAt <= BlockTxs
    /\ txReady' = [txReady EXCEPT ![initAt] = @ + 1]
    /\ txErr' = [txErr EXCEPT ![initAt] = kind[initAt] = "garbage"]
    /\ txStatus' = [txStatus EXCEPT ![initAt] = "init"]
    /\ initAt' = initAt + 1
    /\ UNCHANGED <<kind, checker, exec, outcome, call>>

ToStep(c, i, pc) == checker' = [checker EXCEPT ![c] = [at |-> i, pc |-> pc]]

\* validateRoutine: sleep, try to take the transaction, or move on.
Scan(c) ==
    LET i == checker[c].at
    IN  /\ checker[c].pc = "scan" /\ i <= BlockTxs
        /\ CASE txStatus[i] = "none" -> UNCHANGED <<checker, txStatus>>
             [] txStatus[i] = "init" -> /\ txStatus' = [txStatus EXCEPT ![i] = "checking"]
                                        /\ ToStep(c, i, "swapped")
             [] OTHER -> ToStep(c, i + 1, "scan") /\ UNCHANGED txStatus
        /\ UNCHANGED <<kind, txErr, txReady, initAt, exec, outcome, call>>

\* A mistake: a decoding error is not looked at.
BugNoErrCheck(c) ==
    LET i == checker[c].at
        bad == kind[i] = "unsigned"
    IN  /\ checker[c].pc = "swapped"
        /\ txStatus' = [txStatus EXCEPT ![i] = IF bad THEN "failed" ELSE "checked"]
        /\ ToStep(c, i, IF bad THEN "fail" ELSE "done")
        /\ UNCHANGED <<kind, txErr, txReady, initAt, exec, outcome, call>>

\* tryValidate after the swap: the status is stored first, ...
StoreStatus(c) ==
    LET i == checker[c].at
    IN  /\ checker[c].pc = "swapped"
        /\ txStatus' = [txStatus EXCEPT ![i] = IF txErr[i] \/ kind[i] = "unsigned" THEN "failed" ELSE "checked"]
        /\ ToStep(c, i, IF ~txErr[i] /\ kind[i] = "unsigned" THEN "fail" ELSE "done")
        /\ UNCHANGED <<kind, txErr, txReady, initAt, exec, outcome, call>>

\* ... then the error of Sender, ...
StoreErr(c) ==
    /\ checker[c].pc = "fail"
    /\ txErr' = [txErr EXCEPT ![checker[c].at] = TRUE]
    /\ ToStep(c, checker[c].at, "done")
    /\ UNCHANGED <<kind, txStatus, txReady, initAt, exec, outcome, call>>

\* A mistake: nobody is told.
BugNotReady(c) ==
    /\ checker[c].pc = "done"
    /\ ToStep(c, checker[c].at + 1, "scan")
    /\ UNCHANGED <<kind, txStatus, txErr, txReady, initAt, exec, outcome, call>>

\* ... and the deferred Done.
Ready(c) ==
    /\ checker[c].pc = "done"
    /\ txReady' = [txReady EXCEPT ![checker[c].at] = @ - 1]
    /\ ToStep(c, checker[c].at + 1, "scan")
    /\ UNCHANGED <<kind, txStatus, txErr, initAt, exec, outcome, call>>

-----------------------------------------------------------------------------
(* The executing goroutine.                                                *)

\* end: the receipt and the state are kept or reverted, and the next one begins.
End(valid, executed) ==
    /\ outcome' = Append(outcome, [valid |-> valid, executed |-> executed])
    /\ exec' = [at |-> exec.at + 1, pc |-> IF exec.at = BlockTxs THEN "executed" ELSE "poll"]

\* INNERFOR: a checked transaction is executed, of a failed one the error is
\* looked at next, otherwise ready.Wait, which returns when its counter is zero.
Poll ==
    /\ exec.pc = "poll"
    /\ CASE txStatus[exec.at] = "checked" ->
              End(kind[exec.at] # "rejected", TRUE)
         [] txStatus[exec.at] = "failed" ->
              exec' = [exec EXCEPT !.pc = "failed"] /\ UNCHANGED outcome
         [] OTHER ->
              exec' = [exec EXCEPT !.pc = "wait"] /\ UNCHANGED outcome
    /\ UNCHANGED <<kind, txStatus, txErr, txReady, initAt, checker, call>>

WaitReady ==
    /\ exec.pc = "wait" /\ txReady[exec.at] = 0
    /\ exec' = [exec EXCEPT !.pc = "poll"]
    /\ UNCHANGED <<kind, txStatus, txErr, txReady, initAt, checker, outcome, call>>

ReadErr ==
    /\ exec.pc = "failed"
    /\ End(~txErr[exec.at], FALSE)
    /\ UNCHANGED <<kind, txStatus, txErr, txReady, initAt, checker, call>>

-----------------------------------------------------------------------------
(* Events and the caller.                                                  *)

\* BroadcastTxCommit registers its listener after the pool took the transaction.
Listen ==
    /\ call = "received" /\ call' = "listening"
    /\ UNCHANGED <<kind, txStatus, txErr, txReady, initAt, checker, exec, outcome>>

\* The goroutine of execBlockOnApp: the events of all transactions.
FireEvents ==
    /\ exec.pc = "executed" /\ exec' = [exec EXCEPT !.pc = "fired"]
    /\ call' = IF call # "listening" THEN call ELSE IF outcome[1].valid THEN "ok" ELSE "error"
    /\ UNCHANGED <<kind, txStatus, txErr, txReady, initAt, checker, outcome>>

\* Two minutes have passed.
CallTimeout ==
    /\ call = "listening" /\ call' = "timeout"
    /\ UNCHANGED <<kind, txStatus, txErr, txReady, initAt, checker, exec, outcome>>

Check(c) == Scan(c) \/ StoreStatus(c) \/ StoreErr(c) \/ Ready(c)
Execute  == Poll \/ WaitReady \/ ReadErr \/ FireEvents

ExecNext == InitTx \/ (\E c \in ValidateRoutines : Check(c)) \/ Execute \/ Listen \/ CallTimeout

\* The Go scheduler runs every goroutine, and timers fire.
ExecFairness ==
    /\ WF_execVars(InitTx) /\ WF_execVars(Execute) /\ WF_execVars(Listen) /\ WF_execVars(CallTimeout)
    /\ \A c \in ValidateRoutines : WF_execVars(Check(c))

ExecSpec == ExecInit /\ [][ExecNext]_execVars /\ ExecFairness

-----------------------------------------------------------------------------
\* Types; a WaitGroup counter below zero would be a panic.
ExecTypeOK ==
    /\ kind \in [Txn -> Kinds] /\ txErr \in [Txn -> BOOLEAN] /\ txReady \in [Txn -> 0 .. 1]
    /\ txStatus \in [Txn -> {"none", "init", "checking", "checked", "failed"}]
    /\ \A c \in ValidateRoutines : checker[c].at \in 1 .. BlockTxs + 1
    /\ exec.at \in 1 .. BlockTxs + 1 /\ Len(outcome) = exec.at - 1
    /\ call \in {"received", "listening", "ok", "error", "timeout"}

\* However the goroutines interleave, only transactions that decode and are
\* signed are executed, each once and in the order of the block, and what was
\* executed is reported as what the EVM made of it; a good one is executed however
\* long its check takes, and a caller that is told of an error sent one that is not.
OnlyCheckedExecute ==
    /\ ExecTypeOK
    /\ \A i \in DOMAIN outcome :
          /\ outcome[i].executed =>
                kind[i] \in {"good", "rejected"} /\ outcome[i].valid = (kind[i] = "good")
          /\ kind[i] = "good" => outcome[i].executed
    /\ call = "error" => kind[1] # "good"

\* The block is executed to its end, whoever is faster: the executing goroutine
\* never waits for a WaitGroup that nobody will release.
Executed == exec.pc = "fired"
BlockIsExecuted == []<>Executed

\* BroadcastTxCommit returns, also when the block was executed before it listened.
Returned == call \in {"ok", "error", "timeout"}
CallReturns == []<>Returned

=============================================================================
