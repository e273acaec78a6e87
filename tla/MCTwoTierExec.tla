----------------------------- MODULE MCTwoTierExec -----------------------------
(****************************************************************************)
(* TwoTierExec for TLC.  Fronts are model values: they are interchangeable, *)
(* and the safety runs use that symmetry.                                   *)
(****************************************************************************)
EXTENDS TwoTierExec, TLC

FrontSymmetry == Permutations(Front)

===============================================================================
