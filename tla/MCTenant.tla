-------------------------------- MODULE MCTenant --------------------------------
(**********************************************************************************)
(* Six machines of the client's and the tenant's side that share no state,        *)
(* checked in one run: the front's bulk cache, the vfio-user queue, a KV payload  *)
(* from client to bdev, the life of a bdev, the weight catalog and the host shim. *)
(* A behaviour is one of them; the others stay in their initial state.            *)
(**********************************************************************************)
EXTENDS BulkCache, KvPayload, BdevDisk, WeightCatalog, KvHostShim

VARIABLE part

sideVars == <<part, bcVars, vfuVars, kpVars, bdVars, wtVars, shVars>>

\* An allowlist entry with all of its fields absent.
BdBlank == [op |-> 1, binding |-> BdNone, runtime |-> BdNone, ns |-> BdNone, key |-> BdNone,
            sha |-> BdNone, caps |-> 0]
Legacy(cls, method) == [BdBlank EXCEPT !.binding = [cls |-> cls, method |-> method]]
Wasm(sha, caps) == [BdBlank EXCEPT !.op = 2, !.runtime = "wasm", !.ns = "mods", !.key = "sum",
                                   !.sha = sha, !.caps = caps]
MCBdLists ==
    {<<>>,
     <<Legacy("nkvx", "inputlen"), Wasm("hex", 1)>>,
     <<Legacy("nkvx", ""), Wasm("nothex", 0)>>,
     <<[Legacy("rgw", "get") EXCEPT !.caps = 1], Wasm(BdNone, 4)>>,
     <<Legacy("rgw", "get"), Legacy("nkvx", "bytecount"), Wasm("hex", 3)>>}
\* Sizes below, at and above the defaults.
MCBdOpts ==
    {[max |-> max, gran |-> 0, ro |-> ro, endpoint |-> ro, list |-> <<>>] : max \in {0, 1}, ro \in BOOLEAN}
      \cup {[max |-> 0, gran |-> 5, ro |-> FALSE, endpoint |-> FALSE, list |-> <<>>],
            [max |-> 1, gran |-> 5, ro |-> FALSE, endpoint |-> FALSE, list |-> <<>>]}
      \cup {[max |-> 5, gran |-> 1, ro |-> FALSE, endpoint |-> e, list |-> list] :
               e \in BOOLEAN, list \in MCBdLists}
MCBdDefault == [max |-> 4, gran |-> 2]
MCBdAuto == <<"d0">>

\* A precision of two tensors that are packed into one Value, and one whose only tensor
\* takes two Values, the first of them the same.
MCWtSource == [p1 |-> << <<1>>, <<2>> >>, p2 |-> << <<1, 2, 3>> >>]

TenantInit ==
    /\ part \in {"bulk", "queue", "payload", "bdev", "weights", "shim"}
    /\ BcInit /\ VfuInit /\ KpInit /\ BdInit /\ WtInit /\ ShInit

TenantNext ==
    /\ UNCHANGED part
    /\ \/ part = "bulk" /\ BcNext /\ UNCHANGED <<vfuVars, kpVars, bdVars, wtVars, shVars>>
       \/ part = "queue" /\ VfuNext /\ UNCHANGED <<bcVars, kpVars, bdVars, wtVars, shVars>>
       \/ part = "payload" /\ KpNext /\ UNCHANGED <<bcVars, vfuVars, bdVars, wtVars, shVars>>
       \/ part = "bdev" /\ BdNext /\ UNCHANGED <<bcVars, vfuVars, kpVars, wtVars, shVars>>
       \/ part = "weights" /\ WtNext /\ UNCHANGED <<bcVars, vfuVars, kpVars, bdVars, shVars>>
       \/ part = "shim" /\ ShNext /\ UNCHANGED <<bcVars, vfuVars, kpVars, bdVars, wtVars>>

TenantSpec == TenantInit /\ [][TenantNext]_sideVars

===============================================================================
