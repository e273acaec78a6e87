-------------------------------- MODULE VfuQueue --------------------------------
(*********************************************************************************)
(* The vfio-user NVMe-KV driver of the clients                                   *)
(* (clients/nvme-kv/kv/vfu_host/nkv_vfu.h) under the rkv shim                    *)
(* (clients/rkv/csrc/nkvx_shim.c): one queue pair, one command at a time,        *)
(* polled with a deadline, its payload described by region-bounded SGLs.         *)
(* The admin queue follows the same discipline as the IO queue and is not        *)
(* kept; addresses and lengths are scaled down.                                  *)
(*********************************************************************************)
EXTENDS Integers, Sequences, FiniteSetsExt

CONSTANTS
    VfuDepth,   \* entries of SQ and CQ
    VfuCids,    \* command identifiers before they wrap
    VfuRegion,  \* NVFU_DMA_REGION
    VfuPage,    \* least size of a staging buffer
    VfuHead,    \* length of the [u16 key_len][key] head
    VfuIova,    \* addresses a DMA buffer may have
    VfuLen,     \* lengths of values, inputs and outputs
    VfuNone     \* an empty slot

ASSUME VfuAssumption ==
    /\ VfuDepth \in Nat \ {0, 1} /\ VfuCids \in Nat \ {0} /\ VfuRegion \in Nat \ {0}
    /\ VfuPage \in Nat /\ VfuHead \in Nat \ {0}
    /\ VfuIova \subseteq Nat /\ VfuLen \subseteq Nat

VARIABLES
    vfuOpen,   \* how far nvfu_open came
    vfuQ,      \* struct nvfu_queue: sq_tail, cq_head, cq_phase, cid
    vfuSq,     \* the SQ slots, as cids
    vfuCq,     \* the CQ slots: cid and phase
    vfuCall,   \* the call in progress
    vfuHeld,   \* DMA memory the call has allocated
    vfuCtrl,   \* the controller: doorbells, its own indexes, commands it works on
    vfuLate    \* history: a command of this session timed out

vfuVars == <<vfuOpen, vfuQ, vfuSq, vfuCq, vfuCall, vfuHeld, vfuCtrl, vfuLate>>

VfuSlots == 0..(VfuDepth - 1)
VfuIdle == [pc |-> "idle", cid |-> VfuNone, got |-> VfuNone, segs |-> <<>>, iova |-> 0, size |-> 0]
VfuFresh == [db_tail |-> 0, head |-> 0, db_head |-> 0, tail |-> 0, phase |-> 1, work |-> {}]

\* nvfu_queue_init_db, and the zeroed rings of nvfu_dma_alloc.
nvfu_queue_init_db == [sq_tail |-> 0, cq_head |-> 0, cq_phase |-> 1, cid |-> 0]

VfuInit ==
    /\ vfuOpen = "closed"
    /\ vfuQ = nvfu_queue_init_db
    /\ vfuSq = [s \in VfuSlots |-> VfuNone]
    /\ vfuCq = [s \in VfuSlots |-> [cid |-> VfuNone, phase |-> 0]]
    /\ vfuCall = VfuIdle /\ vfuHeld = {}
    /\ vfuCtrl = VfuFresh
    /\ vfuLate = FALSE

--------------------------------------------------------------------------------
(*********************************************************************************)
(* Payloads.                                                                     *)
(*********************************************************************************)
Larger(a, b) == IF a > b THEN a ELSE b

\* The size of the staging buffer and the bytes of it the SGL describes.
nvfu_kv_store_lk(value) == [size |-> Larger(VfuHead + value, VfuPage), xfer |-> VfuHead + value]
nvfu_kv_retrieve_lk(out) == [size |-> Larger(VfuHead + out, VfuPage), xfer |-> VfuHead + out]
nvfu_kv_op_lk == [size |-> Larger(VfuHead, VfuPage), xfer |-> VfuHead]
nvfu_kv_exec(input, out) ==
    [size |-> Larger(out, VfuPage), xfer |-> Larger(VfuHead + input, out)]

\* The input must fit the buffer that is sized for the output.
nvfu_kv_exec_Accepts(input, out) == VfuHead + input <= Larger(out, VfuPage)

\* Bytes from an address to the end of its region.
first_chunk_Whole(iova) == VfuRegion
first_chunk(iova) == VfuRegion - (iova % VfuRegion)

Nseg(iova, len) ==
    IF len <= first_chunk(iova) THEN 1
    ELSE 1 + (len - first_chunk(iova) + VfuRegion - 1) \div VfuRegion

\* nvfu_sgl_set_dptr: one data block for each region touched.
nvfu_sgl_set_dptr(iova, len) ==
    LET off(i) == IF i = 1 THEN 0 ELSE first_chunk(iova) + (i - 2) * VfuRegion
        chunk(i) == IF i = 1 THEN first_chunk(iova) ELSE VfuRegion
    IN  [i \in 1..Nseg(iova, len) |->
            [at |-> iova + off(i),
             len |-> IF off(i) + chunk(i) > len THEN len - off(i) ELSE chunk(i)]]

\* nvfu_sgl_set_dptr_kv: the blocks of the value behind the head, none for an empty one.
nvfu_sgl_set_dptr_kv(iova, len) == IF len = 0 THEN <<>> ELSE nvfu_sgl_set_dptr(iova, len)

\* What a call allocates, in order, and what it has freed when the last of `held' could
\* not be allocated.  The rkv shim's store and retrieve keep value and head apart.
Allocates(apart, iova, len) ==
    <<"buf">> \o (IF apart THEN <<"head">> ELSE <<>>)
              \o (IF apart \/ Nseg(iova, len) > 1 THEN <<"segs">> ELSE <<>>)
nvfu_kv_xfer_sgl_Unwinds_Leaky(held) == IF held = {"buf", "head"} THEN {"buf"} ELSE held
nvfu_kv_xfer_sgl_Unwinds(held) == held

--------------------------------------------------------------------------------
(*********************************************************************************)
(* nvfu_open and nvfu_close.                                                     *)
(*********************************************************************************)
\* Attach, enable the controller, identify it, create CQ and SQ: any of it may fail, and
\* a failed open is not closed again.
OpenStep == [closed |-> "attached", attached |-> "enabled", enabled |-> "identified",
             identified |-> "cq", cq |-> "open"]
nvfu_open ==
    /\ vfuOpen \in DOMAIN OpenStep
    /\ \/ vfuOpen' = OpenStep[vfuOpen]
       \/ vfuOpen' = "closed"
    /\ UNCHANGED <<vfuQ, vfuSq, vfuCq, vfuCall, vfuHeld, vfuCtrl, vfuLate>>

\* The rings are freed, and the controller drops what it was doing.
nvfu_close ==
    /\ vfuOpen = "open" /\ vfuCall.pc = "idle"
    /\ vfuOpen' = "closed"
    /\ vfuQ' = nvfu_queue_init_db
    /\ vfuSq' = [s \in VfuSlots |-> VfuNone]
    /\ vfuCq' = [s \in VfuSlots |-> [cid |-> VfuNone, phase |-> 0]]
    /\ vfuCall' = VfuIdle
    /\ vfuCtrl' = VfuFresh
    /\ vfuLate' = FALSE
    /\ UNCHANGED vfuHeld

--------------------------------------------------------------------------------
(*********************************************************************************)
(* A call.                                                                       *)
(*********************************************************************************)
\* An allocation fails: the call returns with nothing.
NoMemory(apart, iova, len) ==
    /\ vfuOpen = "open" /\ vfuCall.pc = "idle"
    /\ \E n \in DOMAIN Allocates(apart, iova, len) :
          LET held == {Allocates(apart, iova, len)[i] : i \in 1..(n - 1)}
          IN  vfuHeld' = held \ nvfu_kv_xfer_sgl_Unwinds(held)
    /\ UNCHANGED <<vfuOpen, vfuQ, vfuSq, vfuCq, vfuCall, vfuCtrl, vfuLate>>

\* nvfu_submit_poll, up to the doorbell: the slot at the tail is taken as free.
nvfu_produce(apart, iova, plan) ==
    /\ vfuOpen = "open" /\ vfuCall.pc = "idle"
    /\ vfuHeld' = {Allocates(apart, iova, plan.xfer)[i] :
                      i \in DOMAIN Allocates(apart, iova, plan.xfer)}
    /\ vfuCall' = [pc |-> "poll", cid |-> vfuQ.cid, got |-> VfuNone,
                   segs |-> IF apart THEN nvfu_sgl_set_dptr_kv(iova, plan.xfer)
                            ELSE nvfu_sgl_set_dptr(iova, plan.xfer),
                   iova |-> iova, size |-> plan.size]
    /\ vfuSq' = [vfuSq EXCEPT ![vfuQ.sq_tail] = vfuQ.cid]
    /\ vfuQ' = [vfuQ EXCEPT !.cid = (@ + 1) % VfuCids, !.sq_tail = (@ + 1) % VfuDepth]
    /\ vfuCtrl' = [vfuCtrl EXCEPT !.db_tail = (vfuQ.sq_tail + 1) % VfuDepth]
    /\ UNCHANGED <<vfuOpen, vfuCq, vfuLate>>

\* The calls: those that stage head and value in one buffer, and those of the shim that
\* keep them apart, whose buffer has at least one byte.
VfuStages(iova, input, out) ==
    \/ nvfu_produce(FALSE, iova, nvfu_kv_store_lk(input))
    \/ nvfu_produce(FALSE, iova, nvfu_kv_retrieve_lk(out))
    \/ nvfu_produce(FALSE, iova, nvfu_kv_op_lk)
    \/ nvfu_kv_exec_Accepts(input, out) /\ nvfu_produce(FALSE, iova, nvfu_kv_exec(input, out))
nkvx_store(iova, len) == nvfu_produce(TRUE, iova, [size |-> Larger(len, 1), xfer |-> len])
nkvx_retrieve(iova, out) == nvfu_produce(TRUE, iova, [size |-> Larger(out, 1), xfer |-> out])
nkvx_exec(iova, input, out) ==
    nvfu_kv_exec_Accepts(input, out) /\ nvfu_produce(FALSE, iova, nvfu_kv_exec(input, out))

\* The entry at the head has the phase that is waited for: whatever its cid, it is the
\* completion; the head moves on, and the phase turns at the end of the ring.
Advanced_Stuck(q) == [q EXCEPT !.cq_head = (@ + 1) % VfuDepth]
Advanced(q) ==
    LET head == (q.cq_head + 1) % VfuDepth
    IN  [q EXCEPT !.cq_head = head, !.cq_phase = IF head = 0 THEN 1 - @ ELSE @]

\* The call returns: its DMA memory is freed.
nvfu_submit_poll_Completed ==
    /\ vfuCall.pc = "poll"
    /\ vfuCq[vfuQ.cq_head].phase = vfuQ.cq_phase
    /\ vfuCall' = [VfuIdle EXCEPT !.cid = vfuCall.cid, !.got = vfuCq[vfuQ.cq_head].cid]
    /\ vfuHeld' = {}
    /\ vfuQ' = Advanced(vfuQ)
    /\ vfuCtrl' = [vfuCtrl EXCEPT !.db_head = Advanced(vfuQ).cq_head]
    /\ UNCHANGED <<vfuOpen, vfuSq, vfuCq, vfuLate>>

\* The deadline: the call returns and frees its memory; the head stays where it is.
nvfu_submit_poll_Timeout ==
    /\ vfuCall.pc = "poll"
    /\ vfuCq[vfuQ.cq_head].phase # vfuQ.cq_phase
    /\ vfuCall' = VfuIdle
    /\ vfuHeld' = {}
    /\ vfuLate' = TRUE
    /\ UNCHANGED <<vfuOpen, vfuQ, vfuSq, vfuCq, vfuCtrl>>

--------------------------------------------------------------------------------
(*********************************************************************************)
(* The controller: it fetches commands in order and completes them in any.       *)
(*********************************************************************************)
CtrlFetch ==
    /\ vfuCtrl.head # vfuCtrl.db_tail
    /\ vfuCtrl' = [vfuCtrl EXCEPT !.work = @ \cup {vfuSq[vfuCtrl.head]},
                                  !.head = (@ + 1) % VfuDepth]
    /\ UNCHANGED <<vfuOpen, vfuQ, vfuSq, vfuCq, vfuCall, vfuHeld, vfuLate>>

CtrlComplete(cid) ==
    /\ cid \in vfuCtrl.work
    /\ (vfuCtrl.tail + 1) % VfuDepth # vfuCtrl.db_head
    /\ vfuCq' = [vfuCq EXCEPT ![vfuCtrl.tail] = [cid |-> cid, phase |-> vfuCtrl.phase]]
    /\ vfuCtrl' = [vfuCtrl EXCEPT !.work = @ \ {cid}, !.tail = (@ + 1) % VfuDepth,
                                  !.phase = IF (vfuCtrl.tail + 1) % VfuDepth = 0 THEN 1 - @ ELSE @]
    /\ UNCHANGED <<vfuOpen, vfuQ, vfuSq, vfuCall, vfuHeld, vfuLate>>

--------------------------------------------------------------------------------
VfuNext ==
    \/ nvfu_open \/ nvfu_close
    \/ \E iova \in VfuIova, input, out \in VfuLen :
          \/ VfuStages(iova, input, out)
          \/ nkvx_exec(iova, input, out)
          \/ \E apart \in BOOLEAN : NoMemory(apart, iova, out)
    \/ \E iova \in VfuIova, len \in VfuLen : nkvx_store(iova, len) \/ nkvx_retrieve(iova, len)
    \/ nvfu_submit_poll_Completed \/ nvfu_submit_poll_Timeout
    \/ CtrlFetch \/ \E cid \in 0..(VfuCids - 1) : CtrlComplete(cid)

VfuSpec == VfuInit /\ [][VfuNext]_vfuVars

--------------------------------------------------------------------------------
(*********************************************************************************)
(* A call returns the completion of its own command, over every wrap of the      *)
(* rings and of the phase, as long as no command of the session has timed out.   *)
(* The driver does not compare the cid, so afterwards a late completion is       *)
(* taken for the next command's.                                                 *)
(*********************************************************************************)
VfuOwnCompletion == vfuLate \/ vfuCall.got \in {VfuNone, vfuCall.cid}

(*********************************************************************************)
(* The controller works only on commands whose buffers are still allocated, as   *)
(* long as none has timed out: a call frees its buffers on return.               *)
(*********************************************************************************)
VfuNoDmaAfterFree ==
    vfuLate \/ \A cid \in vfuCtrl.work : /\ vfuCall.pc = "poll" /\ vfuCall.cid = cid
                                         /\ "buf" \in vfuHeld

(*********************************************************************************)
(* The data blocks of a command are its buffer, in order and without a gap;      *)
(* none is empty or crosses a DMA region, which the target maps one by one, and  *)
(* none lies outside of what was allocated.                                      *)
(*********************************************************************************)
VfuDescribesBuffer ==
    LET segs == vfuCall.segs
    IN  \A i \in DOMAIN segs :
            /\ segs[i].len > 0
            /\ segs[i].at \div VfuRegion = (segs[i].at + segs[i].len - 1) \div VfuRegion
            /\ segs[i].at = IF i = 1 THEN vfuCall.iova ELSE segs[i - 1].at + segs[i - 1].len
            /\ segs[i].at + segs[i].len <= vfuCall.iova + vfuCall.size

(*********************************************************************************)
(* Whatever allocation fails, a call that has returned holds no DMA memory.      *)
(*********************************************************************************)
VfuNothingLeaks == vfuCall.pc = "idle" => vfuHeld = {}

(*********************************************************************************)
(* The DMA memory of a command is held from its submission to its completion and *)
(* no longer: never freed under the controller before the first time-out, and    *)
(* never kept by a call that has returned, whichever allocation failed.          *)
(*********************************************************************************)
VfuMemoryExact == VfuNoDmaAfterFree /\ VfuNothingLeaks

================================================================================
