---------------------------- MODULE MCHumanRound ----------------------------
(* HumanRound for TLC: interchangeable workers and interactions.            *)
EXTENDS HumanRound, TLC

MCSymmetry == Permutations(Workers) \cup Permutations(Interactions)
=============================================================================
