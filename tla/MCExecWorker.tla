------------------------------ MODULE MCExecWorker ------------------------------
(*************************************************************************)
(* Instances of ExecWorker for TLC.                                      *)
(*************************************************************************)
EXTENDS ExecWorker, TLC

CONSTANTS v1, v2

\* Contents of one and of two pages.
MCValue == {v1, v2}
MCPages == (v1 :> 1) @@ (v2 :> 2)

\* One content, where a run is not about which version is served.
OneValue == {v1}
OnePages == (v1 :> 1)

\* Entry addresses and jobs are interchangeable.
WorkerSymmetry == Permutations(Obj) \cup Permutations(Job)

\* Bound: a stop and a built-in are followed only while the store is as it was at first.
StoresElseStops ==
    (stops > 0 \/ \E j \in Job : job[j].module \in Builtin)
        => \A k \in Key : writing[k] = Absent /\ rados[k] = v1

===============================================================================
