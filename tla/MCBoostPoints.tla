---------------------------- MODULE MCBoostPoints ----------------------------
(***************************************************************************)
(* Instances of BoostPoints for TLC.                                       *)
(***************************************************************************)
EXTENDS BoostPoints, TLC

(* Amounts around the 50 points of the STANDARD plan: a boost that takes   *)
(* what one plan gives, and one that takes more.                           *)
MCPointsUsed == {50, 70}
MCOnePrice == {50}

(* The price that leaves nothing of 50 points and one order of STANDARD.   *)
MCAllPoints == {50, 100}

(* Jobs and calls of the same kind are interchangeable.                    *)
MCSymmetry == Permutations(Jobs) \cup Permutations(Boosts)
=============================================================================
