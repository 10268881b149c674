----------------------------- MODULE VoteValues -----------------------------
(***************************************************************************)
(* What a vote can be for; the zero BlockID of a nil vote is one of them.  *)
(* None is Go's nil: no vote, no majority, no claim, no decision.          *)
(***************************************************************************)
EXTENDS Absent

CONSTANT BlockIDs
=============================================================================
