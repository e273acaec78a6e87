----------------------------- MODULE MCExecutorStore -----------------------------
(*************************************************************************)
(* Instances of ExecutorStore for TLC.                                   *)
(*************************************************************************)
EXTENDS ExecutorStore, TLC

CONSTANTS v1, v2

\* Contents of one and of two pages.
MCValue == {v1, v2}
MCPages == (v1 :> 1) @@ (v2 :> 2)

\* Entry addresses and keys that fit are interchangeable.
StoreSymmetry == Permutations(Obj) \cup Permutations(Key \ LongKey)

===============================================================================
