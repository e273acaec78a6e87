------------------------------- MODULE DptrLease -------------------------------
(****************************************************************************)
(* What a KV Exec promises the tenant about its buffer (the DPTR), whatever *)
(* happens between the two tiers: the buffer is lent to the target when the *)
(* command is submitted, remote transfers touch it only while it is lent,   *)
(* it is returned once, and what a success in the sink reports is a buffer  *)
(* that was written to its end.                                             *)
(****************************************************************************)
CONSTANT Call
VARIABLES lease,    \* per call: idle, lent or returned
          touching, \* the calls whose buffer a remote transfer is using
          filled    \* the calls whose sink was written to its end

leaseVars == <<lease, touching, filled>>

LeaseInit ==
    /\ lease = [c \in Call |-> "idle"]
    /\ touching = {}
    /\ filled = {}

Lend(c) ==
    /\ lease[c] = "idle"
    /\ lease' = [lease EXCEPT ![c] = "lent"]
    /\ UNCHANGED <<touching, filled>>

\* A transfer on the buffer of c starts.
Touch(c) ==
    /\ lease[c] = "lent"
    /\ touching' = touching \cup {c}
    /\ UNCHANGED <<lease, filled>>

\* A transfer ends, having filled the sink or not.
Untouch(c) ==
    /\ c \in touching
    /\ touching' = touching \ {c}
    /\ filled' \in {filled, filled \cup {c}}
    /\ UNCHANGED lease

\* The executor dies with all its transfers.
UntouchAll ==
    /\ touching' = {}
    /\ UNCHANGED <<lease, filled>>

\* The command completes; a success in the sink needs a filled sink.
Return(c, st) ==
    /\ lease[c] \in {"idle", "lent"}
    /\ c \notin touching
    /\ st = "SINK" => c \in filled
    /\ lease' = [lease EXCEPT ![c] = st]
    /\ UNCHANGED <<touching, filled>>

LeaseNext ==
    \/ \E c \in Call : \/ Lend(c) \/ Touch(c) \/ Untouch(c)
                       \/ \E st \in {"INLINE", "SINK", "FAILED", "ABORTED"} :
                             Return(c, st)
    \/ UntouchAll

LeaseSpec == LeaseInit /\ [][LeaseNext]_leaseVars

===============================================================================
