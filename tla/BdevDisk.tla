-------------------------------- MODULE BdevDisk --------------------------------
(**********************************************************************************)
(* The life of a kvrados bdev (target/bdev_kvrados.c, bdev_kvrados_rpc.c):        *)
(* created over JSON-RPC with an allowlist of Exec operations, opened by          *)
(* channels, saved to the target's configuration and replayed from it after a     *)
(* restart, deleted once its channels are gone; and the gate every KV Exec        *)
(* passes.  The verbs themselves are KvForward's and FrontClient's.               *)
(**********************************************************************************)
EXTENDS Integers, Sequences, FiniteSetsExt

CONSTANTS
    BdName,      \* names of bdevs
    BdAuto,      \* the names given to unnamed bdevs, in order (bounds their number)
    BdOpts,      \* create parameters: max and gran (0: not given), ro, endpoint, list
    BdDefault,   \* KVRADOS_DEFAULT_MAX_VALUE_SIZE, _OPTIMAL_VALUE_GRANULARITY
    BdOp,        \* op_ids a host may send
    BdTierMax,   \* SPDK_KV_EXEC_CAPS_TIER_MAX
    BdMaxChan,   \* bound on the channels of a bdev
    BdNone       \* an absent field, an absent bdev

\* The allowlists, and the values a create's parameters and a disk are among.
BdList == {opts.list : opts \in BdOpts}
BdParams == [max : Nat, gran : Nat, ro : BOOLEAN, endpoint : BOOLEAN, list : BdList]
BdDisks == [max : Nat \ {0}, gran : Nat \ {0}, ro : BOOLEAN, endpoint : BOOLEAN,
            list : BdList, going : BOOLEAN]

ASSUME BdAssumption ==
    /\ BdAuto \in Seq(BdName) /\ BdTierMax \in Nat /\ BdMaxChan \in Nat
    /\ BdDefault \in [max : Nat \ {0}, gran : Nat \ {0}]
    /\ BdOpts \subseteq BdParams
    /\ \A list \in BdList :
          DOMAIN list \subseteq Nat /\ \A i \in DOMAIN list : list[i].caps \in Nat
    /\ BdNone \notin BdName /\ BdNone \notin BdParams /\ BdNone \notin BdDisks

VARIABLES
    bdDisk,    \* name -> the disk, with `going' set once it is being deleted
    bdCount,   \* g_kvrados_disk_count
    bdChan,    \* name -> open channels
    bdHeld,    \* memory a failed create left allocated
    bdSaved,   \* the saved configuration: name -> create parameters
    bdBoot,    \* parity of the target's restarts
    bdExec     \* the KV Exec just handled, and what became of it

bdVars == <<bdDisk, bdCount, bdChan, bdHeld, bdSaved, bdBoot, bdExec>>

NoExec == [outcome |-> "none"]

BdInit ==
    /\ bdDisk = [n \in BdName |-> BdNone]
    /\ bdCount = 0
    /\ bdChan = [n \in BdName |-> 0]
    /\ bdHeld = {}
    /\ bdSaved = [n \in BdName |-> BdNone]
    /\ bdBoot = 0
    /\ bdExec = NoExec

Live(n) == bdDisk[n] # BdNone /\ ~bdDisk[n].going

--------------------------------------------------------------------------------
(**********************************************************************************)
(* Create, save and replay.                                                       *)
(**********************************************************************************)
\* The checks come before the defaults.
create_kvrados_disk_Accepts(opts) == ~(opts.max > 0 /\ opts.gran > opts.max)

Or(given, default) == IF given > 0 THEN given ELSE default

create_kvrados_disk_Disk(opts) ==
    [max |-> Or(opts.max, BdDefault.max), gran |-> Or(opts.gran, BdDefault.gran),
     ro |-> opts.ro, endpoint |-> opts.endpoint, list |-> opts.list, going |-> FALSE]

\* What is written for a disk: the settings in force, those at their default of zero and
\* FALSE left out.
kvrados_write_json_config_Writable(disk) ==
    [max |-> disk.max, gran |-> disk.gran, ro |-> FALSE, endpoint |-> disk.endpoint,
     list |-> disk.list]
kvrados_write_json_config(disk) ==
    [max |-> disk.max, gran |-> disk.gran, ro |-> disk.ro, endpoint |-> disk.endpoint,
     list |-> disk.list]

\* The allocations of a create, in order, and those a failing one frees again; a failed
\* bdev registration frees them all.
Allocations(opts) ==
    <<"disk", "name">> \o (IF opts.endpoint THEN <<"endpoint">> ELSE <<>>)
       \o (IF opts.list = <<>> THEN <<>> ELSE <<"list", "strings">>)
kvrados_free_exec_allowlist(held) == held \cap {"list", "strings"}
Unwound(held) == kvrados_free_exec_allowlist(held) \cup (held \cap {"disk", "name", "endpoint"})

\* A name given, or the next automatic one.
Chosen(name) == IF name # BdNone THEN name ELSE BdAuto[bdCount + 1]
CountAfter(name) == IF name # BdNone THEN bdCount ELSE bdCount + 1

rpc_bdev_kvrados_create(name, opts) ==
    /\ name = BdNone => bdCount < Len(BdAuto)
    /\ create_kvrados_disk_Accepts(opts)
    /\ bdCount' = CountAfter(name)
    /\ LET n == Chosen(name)
       IN  \/ /\ bdDisk[n] = BdNone
              /\ bdDisk' = [bdDisk EXCEPT ![n] = create_kvrados_disk_Disk(opts)]
              /\ UNCHANGED bdHeld
           \/ /\ bdDisk[n] # BdNone                                     \* registration fails
              /\ bdHeld' = Range(Allocations(opts)) \ Unwound(Range(Allocations(opts)))
              /\ UNCHANGED bdDisk
           \/ /\ \E k \in DOMAIN Allocations(opts) :                    \* out of memory
                    LET held == {Allocations(opts)[i] : i \in 1..(k - 1)}
                                  \cup (IF Allocations(opts)[k] = "strings" THEN {"strings"} ELSE {})
                    IN  bdHeld' = held \ Unwound(held)
              /\ UNCHANGED bdDisk
    /\ UNCHANGED <<bdChan, bdSaved, bdBoot>> /\ bdExec' = NoExec

\* The target saves its configuration: one create for each registered bdev.
SaveConfig ==
    /\ bdSaved' = [n \in BdName |-> IF Live(n) THEN kvrados_write_json_config(bdDisk[n]) ELSE BdNone]
    /\ UNCHANGED <<bdDisk, bdCount, bdChan, bdHeld, bdBoot>> /\ bdExec' = NoExec

\* The target stops and a new one replays the configuration.
ReplayConfig ==
    /\ \A n \in BdName : bdChan[n] = 0
    /\ bdDisk' = [n \in BdName |->
                     IF bdSaved[n] # BdNone /\ create_kvrados_disk_Accepts(bdSaved[n])
                     THEN create_kvrados_disk_Disk(bdSaved[n]) ELSE BdNone]
    /\ bdCount' = 0 /\ bdHeld' = {} /\ bdExec' = NoExec
    /\ bdBoot' = 1 - bdBoot
    /\ UNCHANGED <<bdChan, bdSaved>>

--------------------------------------------------------------------------------
(**********************************************************************************)
(* Channels and deletion.                                                         *)
(**********************************************************************************)
kvrados_get_io_channel(n) ==
    /\ Live(n) /\ bdChan[n] < BdMaxChan
    /\ bdChan' = [bdChan EXCEPT ![n] = @ + 1]
    /\ UNCHANGED <<bdDisk, bdCount, bdHeld, bdSaved, bdBoot>> /\ bdExec' = NoExec

PutChannel(n) ==
    /\ bdChan[n] > 0
    /\ bdChan' = [bdChan EXCEPT ![n] = @ - 1]
    /\ UNCHANGED <<bdDisk, bdCount, bdHeld, bdSaved, bdBoot>> /\ bdExec' = NoExec

\* bdev_kvrados_delete: the bdev layer unregisters the bdev and calls kvrados_destruct,
\* which unregisters the io_device.
delete_kvrados_disk(n) ==
    /\ Live(n)
    /\ bdDisk' = [bdDisk EXCEPT ![n] = [bdDisk[n] EXCEPT !.going = TRUE]]
    /\ UNCHANGED <<bdCount, bdChan, bdHeld, bdSaved, bdBoot>> /\ bdExec' = NoExec

\* The disk's memory is freed when its last channel is gone.
kvrados_disk_unregister_done_Now(n) ==
    /\ bdDisk[n] # BdNone /\ bdDisk[n].going
    /\ bdDisk' = [bdDisk EXCEPT ![n] = BdNone]
    /\ UNCHANGED <<bdCount, bdChan, bdHeld, bdSaved, bdBoot>> /\ bdExec' = NoExec
kvrados_disk_unregister_done(n) ==
    /\ bdDisk[n] # BdNone /\ bdDisk[n].going /\ bdChan[n] = 0
    /\ bdDisk' = [bdDisk EXCEPT ![n] = BdNone]
    /\ UNCHANGED <<bdCount, bdChan, bdHeld, bdSaved, bdBoot>> /\ bdExec' = NoExec

--------------------------------------------------------------------------------
(**********************************************************************************)
(* KV Exec: the allowlist, the binding, the native built-ins.                     *)
(**********************************************************************************)
HasStructured(e) ==
    e.runtime # BdNone \/ e.ns # BdNone \/ e.key # BdNone \/ e.sha # BdNone \/ e.caps > 0

\* kvrados_exec_op_allowed: the first entry with the op_id.
kvrados_exec_op_allowed(list, op) ==
    LET at == {i \in DOMAIN list : list[i].op = op}
    IN  IF at = {} THEN BdNone ELSE list[Min(at)]

kvrados_runtime_from_name(name) ==
    IF name \in {"nkvx", "wasm"} THEN "nkvx" ELSE IF name = "cls" THEN "cls" ELSE "none"

\* kvrados_resolve_binding: a legacy class:method or the structured fields, not both.
WellFormed(binding) == binding.cls # "" /\ binding.method # ""
kvrados_resolve_binding(e) ==
    IF e.binding # BdNone
    THEN [ok |-> ~HasStructured(e) /\ WellFormed(e.binding),
          runtime |-> IF e.binding.cls = "nkvx" THEN "nkvx" ELSE "cls",
          ns |-> e.binding.cls, key |-> e.binding.method, sha |-> BdNone]
    ELSE [ok |-> e.sha \in {BdNone, "hex"}, runtime |-> kvrados_runtime_from_name(e.runtime),
          ns |-> e.ns, key |-> e.key, sha |-> e.sha]

kvrados_native_builtin_exec(key) == key \in {"inputlen", "inputecho"}

kvrados_handle_exec_Outcome_Unchecked(disk, e) ==
    IF e = BdNone THEN "denied"
    ELSE IF kvrados_resolve_binding(e).runtime = "nkvx" /\ kvrados_resolve_binding(e).ns = "nkvx"
            /\ kvrados_native_builtin_exec(kvrados_resolve_binding(e).key)
    THEN "native"
    ELSE IF disk.endpoint THEN "forwarded" ELSE "unsupported"
kvrados_handle_exec_Outcome(disk, e) ==
    IF e = BdNone THEN "denied"
    ELSE LET b == kvrados_resolve_binding(e)
         IN  IF ~b.ok \/ e.caps > BdTierMax THEN "invalid"
             ELSE IF b.runtime = "nkvx" /\ b.ns = "nkvx" /\ kvrados_native_builtin_exec(b.key)
             THEN "native"
             ELSE IF disk.endpoint THEN "forwarded" ELSE "unsupported"

\* An Exec without a key is refused first; an allocation or the forward itself may fail once
\* the gates are passed.
kvrados_handle_exec(n, op, keyed, fails) ==
    /\ bdDisk[n] # BdNone /\ bdChan[n] > 0
    /\ LET e == kvrados_exec_op_allowed(bdDisk[n].list, op)
           gate == IF keyed THEN kvrados_handle_exec_Outcome(bdDisk[n], e) ELSE "unkeyed"
           outcome == IF fails /\ gate \in {"native", "forwarded"} THEN "error" ELSE gate
       IN  bdExec' = IF outcome \in {"unkeyed", "denied"}
                     THEN [outcome |-> outcome, name |-> n, op |-> op]
                     ELSE [outcome |-> outcome, name |-> n, op |-> op, entry |-> e,
                           bound |-> kvrados_resolve_binding(e)]
    /\ UNCHANGED <<bdDisk, bdCount, bdChan, bdHeld, bdSaved, bdBoot>>

--------------------------------------------------------------------------------
BdNext ==
    \/ \E name \in BdName \cup {BdNone}, opts \in BdOpts : rpc_bdev_kvrados_create(name, opts)
    \/ SaveConfig \/ ReplayConfig
    \/ \E n \in BdName :
          \/ kvrados_get_io_channel(n) \/ PutChannel(n)
          \/ delete_kvrados_disk(n) \/ kvrados_disk_unregister_done(n)
          \/ \E op \in BdOp, keyed, fails \in BOOLEAN : kvrados_handle_exec(n, op, keyed, fails)

BdSpec == BdInit /\ [][BdNext]_bdVars

--------------------------------------------------------------------------------
(**********************************************************************************)
(* rkv's check of a policy entry (clients/rkv/src/policy.rs), before it is sent.  *)
(**********************************************************************************)
validate(e) ==
    /\ ~(e.binding # BdNone /\ HasStructured(e))
    /\ e.binding # BdNone \/ e.runtime # BdNone
    /\ e.binding # BdNone => WellFormed(e.binding)
    /\ e.sha # BdNone => e.sha = "hex"

\* What a host is told of a disk.
kvrados_handle_admin_identify(disk) == [novg |-> disk.gran, kvvml |-> disk.max]

(**********************************************************************************)
(* A module runs only for an op_id of the disk's allowlist, with the binding of   *)
(* that entry: a well-formed one, in a known tier, with its hash pinned.          *)
(**********************************************************************************)
BdExecAsConfigured ==
    bdExec.outcome \in {"native", "forwarded"} =>
        LET e == bdExec.entry
        IN  /\ e.op = bdExec.op /\ e.caps <= BdTierMax
            /\ e.binding # BdNone => ~HasStructured(e) /\ WellFormed(e.binding)
            /\ e.sha # BdNone => e.sha = "hex" /\ bdExec.bound.sha = e.sha

(**********************************************************************************)
(* A policy entry that rkv accepts is refused as invalid by the target only for   *)
(* its tier, which rkv does not know the range of.                                *)
(**********************************************************************************)
BdPolicyAgrees ==
    bdExec.outcome = "invalid" => ~validate(bdExec.entry) \/ bdExec.entry.caps > BdTierMax

(**********************************************************************************)
(* The Exec gate: what runs is what was configured, and what rkv let the operator *)
(* configure is not refused, but for its tier.                                    *)
(**********************************************************************************)
BdExecGate == BdExecAsConfigured /\ BdPolicyAgrees

(**********************************************************************************)
(* The memory of a disk outlives its channels, and a failed create leaves none.   *)
(**********************************************************************************)
BdNothingDangles == bdHeld = {} /\ \A n \in BdName : bdChan[n] > 0 => bdDisk[n] # BdNone

(**********************************************************************************)
(* A restart replays every saved disk with the settings it had: read-only stays   *)
(* read-only, the host is told the same limits and the same operations are        *)
(* allowed.  The exception is a disk whose granularity is above its value size,   *)
(* which create allows when one of them is a default: its saved configuration     *)
(* is refused, and the disk is gone.                                              *)
(**********************************************************************************)
BdRestartKeepsDisks ==
    [][bdBoot' # bdBoot =>
          \A n \in BdName : Live(n) /\ bdSaved[n] = kvrados_write_json_config(bdDisk[n]) =>
              IF bdDisk[n].gran > bdDisk[n].max THEN bdDisk'[n] = BdNone
              ELSE /\ bdDisk'[n].ro = bdDisk[n].ro /\ bdDisk'[n].list = bdDisk[n].list
                   /\ kvrados_handle_admin_identify(bdDisk'[n])
                        = kvrados_handle_admin_identify(bdDisk[n])]_bdVars

================================================================================
