---------------------------- MODULE VotingPower ----------------------------
(***************************************************************************)
(* Validators and their voting power (types/validator_set.go).  A          *)
(* ValidatorSet fixes, for one height, who may vote and with which power.  *)
(* Every threshold of the consensus code is a comparison of a sum of       *)
(* powers with TotalVotingPower()*2/3, so a set of validators enters the   *)
(* models only through Power(S), the summed power of its members.          *)
(***************************************************************************)
EXTENDS Integers

CONSTANTS
    Validators,    \* the members of the ValidatorSet
    Power(_)       \* Power(S): the summed VotingPower of the validators in S

(***************************************************************************)
(* Power is a sum over the members of a set, of powers that are not        *)
(* negative: nothing for nobody, and inclusion-exclusion for two sets.     *)
(***************************************************************************)
ASSUME PowerAssumption ==
    /\ Power({}) = 0
    /\ \A S \in SUBSET Validators : Power(S) \in Nat
    /\ \A S, T \in SUBSET Validators :
          Power(S \cup T) + Power(S \cap T) = Power(S) + Power(T)

\* ValidatorSet.TotalVotingPower: the cached sum over all validators.
TotalVotingPower == Power(Validators)

\* The least power that is more than two thirds of the total.
Quorum == ((TotalVotingPower * 2) \div 3) + 1

=============================================================================
