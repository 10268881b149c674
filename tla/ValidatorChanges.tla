-------------------------- MODULE ValidatorChanges --------------------------
(***************************************************************************)
(* The validator set (gemmill/types/validator_set.go), the rotation of the *)
(* proposer by accumulated voting power, and the admin plugin              *)
(* (gemmill/plugin/admin_op.go) whose commands change the set at the end   *)
(* of a block, on replicas that execute the same blocks, crash, restart,   *)
(* change rounds and answer queries.                                       *)
(***************************************************************************)
EXTENDS Integers, Sequences, SequencesExt, FiniteSetsExt, Absent

CONSTANTS Replicas,
          ValScenarios  \* [genesis, ops, opsPerBlock, heights, rounds, crashes, queries]

VARIABLES
    scenario,  \* the scenario of this behaviour
    blocks,    \* the decided blocks: sequences of admin commands
    replica,   \* per replica, see ValInit
    turns      \* per validator: heights it was to propose at, since genesis

valVars == <<scenario, blocks, replica, turns>>

-----------------------------------------------------------------------------
(* The set: validators [addr, power, accum] in the order of their address. *)

TotalVotingPower(vals) == FoldLeft(LAMBDA sum, v : sum + v.power, 0, vals)

HasAddress(vals, a) == \E i \in DOMAIN vals : vals[i].addr = a
IndexOf(vals, a)    == CHOOSE i \in DOMAIN vals : vals[i].addr = a

\* Add: sort.Search finds the place of the address.
AddVal(vals, v) ==
    LET before == SelectSeq(vals, LAMBDA w : w.addr < v.addr)
    IN  before \o <<v>> \o SubSeq(vals, Len(before) + 1, Len(vals))

UpdateVal(vals, a, power) == [vals EXCEPT ![IndexOf(vals, a)].power = power]
RemoveVal(vals, a) == SelectSeq(vals, LAMBDA w : w.addr # a)

(* container/heap on [at, accum] items, the largest accum in front.        *)
Less(h, i, j) == h[i].accum > h[j].accum
Swap(h, i, j) == [h EXCEPT ![i] = h[j], ![j] = h[i]]

RECURSIVE Up(_, _)
Up(h, j) == IF j = 1 \/ ~Less(h, j, j \div 2) THEN h ELSE Up(Swap(h, j, j \div 2), j \div 2)

RECURSIVE Down(_, _)
Down(h, i) ==
    LET left  == 2 * i
        child == IF left + 1 <= Len(h) /\ Less(h, left + 1, left) THEN left + 1 ELSE left
    IN  IF left > Len(h) \/ ~Less(h, child, i) THEN h ELSE Down(Swap(h, i, child), child)

HeapPush(h, item) == Up(Append(h, item), Len(h) + 1)

\* Heap.Update: always of the front.
HeapUpdate(h, accum) == Down([h EXCEPT ![1].accum = accum], 1)

\* A mistake: the proposer pays with its own power only.
BugPayOwnPower(vals, times) ==
    LET raised == [i \in DOMAIN vals |-> [vals[i] EXCEPT !.accum = @ + vals[i].power * times]]
        top == CHOOSE i \in DOMAIN vals : \A j \in DOMAIN vals : raised[i].accum >= raised[j].accum
    IN  [vals |-> [raised EXCEPT ![top].accum = @ - raised[top].power * times], proposer |-> vals[top].addr]

\* IncrementAccum(times): all are raised times-fold at once, then the front pays
\* the total power, times times; the last to pay is the proposer.
IncrementAccum(vals, times) ==
    LET raised == [i \in DOMAIN vals |-> [vals[i] EXCEPT !.accum = @ + vals[i].power * times]]
        heap == FoldLeft(LAMBDA h, i : HeapPush(h, [at |-> i, accum |-> raised[i].accum]),
                         <<>>, [i \in DOMAIN vals |-> i])
        Pay(s, k) == [vals |-> [s.vals EXCEPT ![s.heap[1].at].accum = @ - TotalVotingPower(vals)],
                      heap |-> HeapUpdate(s.heap, s.heap[1].accum - TotalVotingPower(vals)),
                      proposer |-> vals[s.heap[1].at].addr]
        end == FoldLeft(Pay, [vals |-> raised, heap |-> heap, proposer |-> None], [k \in 1 .. times |-> k])
    IN  [vals |-> end.vals, proposer |-> end.proposer]

\* Proposer of a set whose cached proposer is nil: the largest accum, then the
\* smallest address.
ProposerOf(vals) ==
    vals[CHOOSE i \in DOMAIN vals : \A j \in DOMAIN vals :
            vals[i].accum > vals[j].accum \/ (vals[i].accum = vals[j].accum /\ i <= j)].addr

-----------------------------------------------------------------------------
(* The admin plugin.  A command is [cmd, node, power, signers].            *)

\* CheckMajor23: the power of the signers that are validators (SInfos has every
\* signer once).
CheckMajor23(vals, signers) ==
    FoldLeft(LAMBDA sum, v : sum + (IF v.addr \in signers THEN v.power ELSE 0), 0, vals)
        > (TotalVotingPower(vals) * 2) \div 3

\* ProcessAdminOP: whether the command is noted for the end of the block.
Noted(vals, op) ==
    CASE op.cmd = "add"    -> ~HasAddress(vals, op.node)
      [] op.cmd = "update" -> HasAddress(vals, op.node) /\ vals[IndexOf(vals, op.node)].power # op.power
      [] op.cmd = "remove" -> HasAddress(vals, op.node)

\* ExecTX: the plugin's list, which only the end of a block empties.
ExecTX(r, op) ==
    IF CheckMajor23(r.vals, op.signers) /\ Noted(r.vals, op) THEN Append(r.changed, op) ELSE r.changed

\* updateValidators; None is the error of a removal that finds nobody.
UpdateOne(vals, op) ==
    IF vals = None THEN None
    ELSE CASE op.cmd = "remove" -> IF HasAddress(vals, op.node) THEN RemoveVal(vals, op.node) ELSE None
           [] HasAddress(vals, op.node) -> UpdateVal(vals, op.node, op.power)
           [] OTHER -> AddVal(vals, [addr |-> op.node, power |-> op.power, accum |-> 0])

updateValidators(vals, changed) == FoldLeft(UpdateOne, vals, changed)

NodesOf(changed, cmds) == {changed[i].node : i \in {j \in DOMAIN changed : changed[j].cmd \in cmds}}

\* EndBlock: first the new keys, then the deleted ones.
Refused(refused, changed) ==
    (refused \cup NodesOf(changed, {"remove"})) \ NodesOf(changed, {"add", "update"})

-----------------------------------------------------------------------------
Genesis(powers) ==
    LET addrs == SetToSortSeq(DOMAIN powers, <)
    IN  [i \in DOMAIN addrs |-> [addr |-> addrs[i], power |-> powers[addrs[i]], accum |-> 0]]

\* NewValidatorSet ends with IncrementAccum(1).
ValInit ==
    /\ scenario \in ValScenarios /\ blocks = <<>>
    /\ LET first == IncrementAccum(Genesis(scenario.genesis), 1)
       IN  /\ replica = [r \in Replicas |->
                 [height   |-> 0,            \* blocks executed
                  vals     |-> first.vals,   \* state.Validators
                  at       |-> 0,            \* commands executed of the next block
                  changed  |-> <<>>,         \* AdminOp.ChangedValidators
                  refused  |-> {},           \* the refuse list
                  round    |-> 0,            \* cs.Round
                  view     |-> first.vals,   \* cs.Validators
                  proposer |-> first.proposer,
                  cold     |-> FALSE,        \* restarted, and in its first round since
                  skipped  |-> FALSE,        \* skipped a round at this height
                  queried  |-> FALSE,        \* a query ran a command
                  halted   |-> FALSE]]
           /\ turns = [a \in DOMAIN scenario.genesis |-> IF a = first.proposer THEN 1 ELSE 0]

\* Consensus decides the next block.
Decide ==
    /\ Len(blocks) < scenario.heights
    /\ \E n \in 0 .. scenario.opsPerBlock : \E b \in [1 .. n -> scenario.ops] : blocks' = Append(blocks, b)
    /\ UNCHANGED <<scenario, replica, turns>>

HasBlock(r) == replica[r].height < Len(blocks) /\ ~replica[r].halted
BlockOf(r)  == blocks[replica[r].height + 1]

\* The EVM runs the admin contract for a transaction of the block.
ExecuteTx(r) ==
    /\ HasBlock(r) /\ replica[r].at < Len(BlockOf(r))
    /\ replica' = [replica EXCEPT ![r].at = @ + 1,
                                  ![r].changed = ExecTX(replica[r], BlockOf(r)[replica[r].at + 1])]
    /\ UNCHANGED <<scenario, blocks, turns>>

\* The replica after a block: inc is the rotation of the set the plugin made.
AfterBlock(r, inc) ==
    [r EXCEPT !.height = @ + 1, !.vals = inc.vals, !.at = 0, !.changed = <<>>,
              !.refused = Refused(r.refused, r.changed), !.round = 0, !.view = inc.vals,
              !.proposer = inc.proposer, !.cold = FALSE, !.skipped = FALSE]

\* EndBlock, IncrementAccum(1), the save of the state and the next height.  An
\* error, or an empty set (the heap has no front), ends the process.
EndBlock(r) ==
    /\ HasBlock(r) /\ replica[r].at = Len(BlockOf(r))
    /\ LET next == updateValidators(replica[r].vals, replica[r].changed)
       IN  IF next \in {None, <<>>}
           THEN replica' = [replica EXCEPT ![r].halted = TRUE, ![r].changed = <<>>] /\ UNCHANGED turns
           ELSE LET inc == IncrementAccum(next, 1)
                IN  /\ replica' = [replica EXCEPT ![r] = AfterBlock(@, inc)]
                    /\ turns' = IF \A k \in Replicas : replica[k].height <= replica[r].height
                                THEN [a \in DOMAIN turns |-> turns[a] + (IF a = inc.proposer THEN 1 ELSE 0)]
                                ELSE turns
    /\ UNCHANGED <<scenario, blocks>>

\* A mistake: the cached proposer outlives the rotation.
BugProposerKept(r, round) ==
    /\ ~replica[r].halted /\ replica[r].round < round
    /\ LET inc == IncrementAccum(replica[r].view, round - replica[r].round)
       IN  replica' = [replica EXCEPT ![r].view = inc.vals, ![r].round = round, ![r].cold = FALSE,
                                      ![r].skipped = @ \/ round > replica[r].round + 1]
    /\ UNCHANGED <<scenario, blocks, turns>>

\* A mistake: the set of the state itself is rotated, not a copy.
BugNoCopy(r, round) ==
    /\ ~replica[r].halted /\ replica[r].round < round
    /\ LET inc == IncrementAccum(replica[r].view, round - replica[r].round)
       IN  replica' = [replica EXCEPT ![r].view = inc.vals, ![r].vals = inc.vals, ![r].proposer = inc.proposer,
                                      ![r].round = round, ![r].cold = FALSE,
                                      ![r].skipped = @ \/ round > replica[r].round + 1]
    /\ UNCHANGED <<scenario, blocks, turns>>

\* enterNewRound, possibly over several rounds.
EnterNewRound(r, round) ==
    /\ ~replica[r].halted /\ replica[r].round < round
    /\ LET inc == IncrementAccum(replica[r].view, round - replica[r].round)
       IN  replica' = [replica EXCEPT ![r].view = inc.vals, ![r].proposer = inc.proposer, ![r].round = round,
                                      ![r].cold = FALSE,
                                      ![r].skipped = @ \/ round > replica[r].round + 1]
    /\ UNCHANGED <<scenario, blocks, turns>>

\* The process ends and starts again, from the state of the last block; the
\* cached proposer is not among what was saved.
Restart(r) ==
    /\ scenario.crashes > 0 /\ scenario' = [scenario EXCEPT !.crashes = @ - 1]
    /\ replica' = [replica EXCEPT ![r].at = 0, ![r].changed = <<>>, ![r].round = 0,
                                  ![r].view = replica[r].vals, ![r].proposer = ProposerOf(replica[r].vals),
                                  ![r].cold = TRUE, ![r].skipped = FALSE, ![r].halted = FALSE]
    /\ UNCHANGED <<blocks, turns>>

\* A read-only call of the admin contract runs the same callback.
QueryContract(r, op) ==
    /\ scenario.queries > 0 /\ scenario' = [scenario EXCEPT !.queries = @ - 1]
    /\ replica' = [replica EXCEPT ![r].changed = ExecTX(replica[r], op), ![r].queried = TRUE]
    /\ UNCHANGED <<blocks, turns>>

ValNext ==
    \/ Decide
    \/ \E r \in Replicas :
          \/ ExecuteTx(r) \/ EndBlock(r) \/ Restart(r)
          \/ \E round \in 1 .. scenario.rounds : EnterNewRound(r, round)
          \/ \E op \in scenario.ops : QueryContract(r, op)

ValSpec == ValInit /\ [][ValNext]_valVars

-----------------------------------------------------------------------------
\* Types, and the order binary search relies on: addresses increase strictly.
ValTypeOK ==
    \A r \in Replicas :
        /\ replica[r].height \in 0 .. Len(blocks) /\ replica[r].round \in 0 .. scenario.rounds
        /\ \A s \in {replica[r].vals, replica[r].view} :
              /\ \A i \in 1 .. Len(s) - 1 : s[i].addr < s[i + 1].addr
              /\ \A i \in DOMAIN s : s[i].power \in Nat /\ s[i].accum \in Int
        /\ HasAddress(replica[r].view, replica[r].proposer)

\* Replicas at one height have the same validators with the same accumulated
\* power, and refuse the same keys, none of them a validator's, wherever they
\* crashed and whatever rounds they went through; and the end of a block stops one
\* only if the block removes a validator twice, or all.  A read-only query that
\* has run a command on one of them voids this.
ReplicasAgree ==
    \A r, k \in {n \in Replicas : ~replica[n].queried} :
        /\ replica[r].height = replica[k].height =>
              replica[r].vals = replica[k].vals /\ replica[r].refused = replica[k].refused
        /\ \A i \in DOMAIN replica[r].vals : replica[r].vals[i].addr \notin replica[r].refused
        /\ replica[r].halted =>
              LET b == BlockOf(r)
                  Removes(i, a) == b[i].cmd = "remove" /\ b[i].node = a
              IN  \/ \E i, j \in DOMAIN b : i # j /\ \E a \in {b[i].node} : Removes(i, a) /\ Removes(j, a)
                  \/ \A i \in DOMAIN replica[r].vals : \E j \in DOMAIN b : Removes(j, replica[r].vals[i].addr)

\* They expect the same proposer in a round they both reached one by one; one
\* that restarted, and has lost the cached proposer, from its next round on.
ProposersAgree ==
    \A r, k \in {n \in Replicas : ~replica[n].cold /\ ~replica[n].skipped /\ ~replica[n].queried} :
        replica[r].height = replica[k].height /\ replica[r].round = replica[k].round
            => replica[r].proposer = replica[k].proposer

\* Without changes a validator's turns never differ by more than one from its
\* share of the voting power.
TurnsFollowPower ==
    ValTypeOK /\ \A r \in Replicas :
        LET genesis == scenario.genesis
            total == FoldFunction(+, 0, genesis)
            k == Len(blocks) + 1
        IN  (\A i \in DOMAIN blocks : blocks[i] = <<>>) /\ replica[r].height = Len(blocks) /\ ~replica[r].queried =>
                \A a \in DOMAIN genesis :
                    /\ turns[a] * total <= k * genesis[a] + total
                    /\ turns[a] * total >= k * genesis[a] - total

=============================================================================
