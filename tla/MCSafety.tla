------------------------------ MODULE MCSafety ------------------------------
(***************************************************************************)
(* The components of which only safety is checked, for TLC, one of them at *)
(* a time: a behaviour chooses its part in the initial state and moves     *)
(* only that.  Bounds that a module chooses in its initial state vary only *)
(* in the behaviours of that part.                                         *)
(***************************************************************************)
EXTENDS EthTxPool, ValidatorChanges, EvmState

CONSTANTS op1,    \* EthTxPool: an admin operation
          k1, k2  \* EvmState: a contract with code, and an address without

VARIABLE part

(***************************************************************************)
(* EthTxPool: an account with rival transactions of one nonce and a        *)
(* possible gap, and a second account.                                     *)
(***************************************************************************)
Tx(a, n, i) == [from |-> a, nonce |-> n, id |-> i]
MCTxs == {Tx("x", 0, 1), Tx("x", 0, 2), Tx("x", 1, 1), Tx("x", 1, 2), Tx("x", 2, 1), Tx("y", 0, 1)}
MCBlocks == {{Tx("x", 0, 1)}, {Tx("x", 0, 2), Tx("x", 1, 2)}, {Tx("x", 1, 1)}, {Tx("y", 0, 1), op1}}

(***************************************************************************)
(* ValidatorChanges: commands over two heights; commands, a crash and a    *)
(* query; seven heights of every small set of three; rounds and a crash.   *)
(***************************************************************************)
Op(cmd, n, power, signers) == [cmd |-> cmd, node |-> n, power |-> power, signers |-> signers]
ChangeOps == LET all == {1, 2, 3}
             IN  {Op("add", 2, 1, all), Op("update", 3, 3, all), Op("update", 1, 0, {3}),
                  Op("remove", 3, 0, all), Op("remove", 1, 0, {1}), Op("remove", 2, 0, all)}
Scenario(genesis, ops, n, heights, rounds, crashes, queries) ==
    [genesis |-> genesis, ops |-> ops, opsPerBlock |-> n, heights |-> heights, rounds |-> rounds,
     crashes |-> crashes, queries |-> queries]
MCScenarios ==
    {Scenario(1 :> 1 @@ 3 :> 1, ChangeOps, 2, 2, 1, 0, 0),
     Scenario(1 :> 1 @@ 3 :> 2, ChangeOps, 2, 1, 1, 1, 1)}
    \cup {Scenario(g, {}, 0, 7, 0, 0, 0) : g \in [1 .. 3 -> 1 .. 3]}
    \cup {Scenario(1 :> 1 @@ 2 :> 3 @@ 3 :> 2, {}, 0, 2, 3, 1, 0)}

(***************************************************************************)
(* EvmState: the rules of four ranges of heights; the contract creates     *)
(* with a salt, again and again, or the account does, with its nonce.      *)
(***************************************************************************)
EthAccount(n, b, c, r) == [nonce |-> n, balance |-> b, code |-> c, root |-> r]
EvmGenesis == [a \in Addrs |-> CASE a = Sender -> EthAccount(0, 1, None, 0)
                                [] a = k1     -> EthAccount(1, 1, "code", 1)
                                [] OTHER      -> None]
Salted == [caller |-> k1, nonce |-> None, address |-> k2]
Nonced == [caller |-> Sender, nonce |-> 1, address |-> k2]
EvmWorld(homestead, eip158, byzantium, creation, n) ==
    [homestead |-> homestead, eip158 |-> eip158, byzantium |-> byzantium,
     trie |-> EvmGenesis, creations |-> {creation}, txs |-> 2, ops |-> n]
MCEvmWorlds ==
    {EvmWorld(FALSE, FALSE, FALSE, Salted, 3), EvmWorld(TRUE, FALSE, FALSE, Salted, 2)}
    \cup {EvmWorld(TRUE, TRUE, e, Salted, 2) : e \in BOOLEAN}
    \cup {EvmWorld(e, e, e, Nonced, 2) : e \in BOOLEAN}

-----------------------------------------------------------------------------
Only(p, choice, choices) == part = p \/ choice = CHOOSE c \in choices : TRUE

SafetyInit ==
    /\ part \in {"tx pool", "validators", "evm"}
    /\ TxPoolInit
    /\ ValInit /\ Only("validators", scenario, ValScenarios)
    /\ EvmInit /\ Only("evm", world, EvmWorlds)

SafetyNext ==
    /\ UNCHANGED part
    /\ \/ part = "tx pool" /\ TxPoolNext /\ UNCHANGED <<valVars, evmVars>>
       \/ part = "validators" /\ ValNext /\ UNCHANGED <<txPoolVars, evmVars>>
       \/ part = "evm" /\ EvmNext /\ UNCHANGED <<txPoolVars, valVars>>

SafetySpec == SafetyInit /\ [][SafetyNext]_<<part, txPoolVars, valVars, evmVars>>

=============================================================================
