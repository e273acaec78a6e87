------------------------------- MODULE MCExecTier -------------------------------
(******************************************************************************)
(* Five machines around the executor that share no state, checked in one run: *)
(* the store with its object cache, the module gate, the result cache, key    *)
(* listing and the inter-tier codec.  A behaviour is one of them; the others  *)
(* stay in their initial state.                                               *)
(******************************************************************************)
EXTENDS MCExecutorStore, ModuleGate, ResultCache, KeyListing, WireCodec

CONSTANTS ca, cb, cc

VARIABLE part

tierVars == <<part, exVars, mgVars, rcVars, lsVars, wcVars>>

\* Serialized codes: two fit the byte cap together, one only alone.
MCMgSize == (ca :> 1) @@ (cb :> 2) @@ (cc :> 3)

\* A named module with a hash and a built-in whose name starts like both together.
MCRcModule == {[name |-> <<0>>, sha256 |-> <<0>>], [name |-> <<0, 1>>, sha256 |-> <<>>]}
MCRcInput == {<<>>}

\* Keys whose successors carry, and one with none; an object of another owner.
MCLsKey == {<<0>>, <<0, 3, 3>>, <<1>>, <<1, 3, 3>>, <<3, 3, 3>>}
MCLsForeign == {<<0, 2>>, <<1>>}

TierSymmetry == StoreSymmetry \cup Permutations(MgThread) \cup Permutations(RcConsumer)

TierInit ==
    /\ part \in {"store", "gate", "result", "list", "wire"}
    /\ ExInit /\ MgInit /\ RcInit /\ LsInit /\ WcInit
    /\ part # "gate" => mgBinding = [n \in MgName |-> ca]
    /\ part # "result" => rcObject = 0
    /\ part # "list" => lsObjects = {}

TierNext ==
    /\ UNCHANGED part
    /\ \/ part = "store" /\ ExNext /\ UNCHANGED <<mgVars, rcVars, lsVars, wcVars>>
       \/ part = "gate" /\ MgNext /\ UNCHANGED <<exVars, rcVars, lsVars, wcVars>>
       \/ part = "result" /\ RcNext /\ UNCHANGED <<exVars, mgVars, lsVars, wcVars>>
       \/ part = "list" /\ LsNext /\ UNCHANGED <<exVars, mgVars, rcVars, wcVars>>
       \/ part = "wire" /\ WcNext /\ UNCHANGED <<exVars, mgVars, rcVars, lsVars>>

TierSpec == TierInit /\ [][TierNext]_tierVars

===============================================================================
