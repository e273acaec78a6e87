----------------------------- MODULE Tenant_proofs -----------------------------
(****************************************************************************)
(* Four machines of the client's and the tenant's side, which share no      *)
(* state: the registrations of the tenant's buffers, the vfio-user queue    *)
(* pair, the SPDK host shim and the weight catalog.                         *)
(****************************************************************************)
EXTENDS BulkCache, VfuQueue, KvHostShim, WeightCatalog, TLAPS

\* A leaf that names no backend goes to Zenon.
USE ZenonT(60)

(****************************************************************************)
(* The queue pair completes what it was given, for any depth, any number of *)
(* command identifiers, any region size and any payload.                    *)
(****************************************************************************)
VfuCid == 0..(VfuCids - 1) \cup {VfuNone}
VfuQType == [sq_tail : VfuSlots, cq_head : VfuSlots, cq_phase : {0, 1}, cid : VfuCid]
VfuCtrlType == [db_tail : VfuSlots, head : VfuSlots, db_head : VfuSlots, tail : VfuSlots,
                phase : {0, 1}, work : SUBSET VfuCid]

\* The slot after a slot.
VfuAfter(s) == IF s = VfuDepth - 1 THEN 0 ELSE s + 1

VfuTypes ==
    /\ vfuQ \in VfuQType /\ vfuQ.cid \in 0..(VfuCids - 1)
    /\ vfuSq \in [VfuSlots -> VfuCid]
    /\ vfuCq \in [VfuSlots -> [cid : VfuCid, phase : {0, 1}]]
    /\ vfuCtrl \in VfuCtrlType
    /\ vfuCall.pc \in {"idle", "poll"}

\* A slot of the CQ has the phase of the lap that last wrote it.
InPhase(s) ==
    vfuCq[s].phase = IF s < vfuQ.cq_head THEN vfuQ.cq_phase ELSE 1 - vfuQ.cq_phase

\* Before the first time-out the doorbells are those of the driver's own indexes, and ...
VfuDoorbells == vfuCtrl.db_tail = vfuQ.sq_tail /\ vfuCtrl.db_head = vfuQ.cq_head

\* ... both sides agree on where the next completion goes, and with which phase, unless
\* the one of this call is written: then the controller is one slot ahead.
VfuNoneWritten ==
    /\ vfuCtrl.tail = vfuQ.cq_head /\ vfuCtrl.phase = vfuQ.cq_phase
    /\ \A s \in VfuSlots : InPhase(s)
VfuWritten ==
    /\ vfuCtrl.head = vfuCtrl.db_tail /\ vfuCtrl.work = {}
    /\ vfuCtrl.tail = VfuAfter(vfuQ.cq_head)
    /\ vfuCtrl.phase = IF vfuCtrl.tail = 0 THEN 1 - vfuQ.cq_phase ELSE vfuQ.cq_phase
    /\ vfuCq[vfuQ.cq_head] = [cid |-> vfuCall.cid, phase |-> vfuQ.cq_phase]
    /\ \A s \in VfuSlots \ {vfuQ.cq_head} : InPhase(s)

\* The command of the call is in the SQ, in work, or completed; between calls there is none.
VfuInSq ==
    /\ VfuAfter(vfuCtrl.head) = vfuCtrl.db_tail /\ vfuSq[vfuCtrl.head] = vfuCall.cid
    /\ vfuCtrl.work = {} /\ VfuNoneWritten
VfuInWork == vfuCtrl.head = vfuCtrl.db_tail /\ vfuCtrl.work = {vfuCall.cid} /\ VfuNoneWritten
VfuNoCommand == vfuCtrl.head = vfuCtrl.db_tail /\ vfuCtrl.work = {} /\ VfuNoneWritten

VfuRings ==
    ~ vfuLate =>
        /\ VfuDoorbells
        /\ vfuCall.pc = "idle" => VfuNoCommand
        /\ vfuCall.pc = "poll" => VfuInSq \/ VfuInWork \/ VfuWritten
        /\ vfuCall.got \in {VfuNone, vfuCall.cid}

VfuHolds ==
    /\ vfuCall.pc = "idle" => vfuHeld = {}
    /\ vfuCall.pc = "poll" => "buf" \in vfuHeld

\* The inductive invariant.
VfuIInv == VfuTypes /\ VfuRings /\ VfuHolds /\ VfuDescribesBuffer

\* An index moves on by one, and to 0 at the end of its ring.
LEMMA NextSlot ==
    ASSUME NEW s \in VfuSlots
    PROVE  (s + 1) % VfuDepth = VfuAfter(s) /\ VfuAfter(s) \in VfuSlots /\ VfuAfter(s) # s
  BY VfuAssumption, SMT DEF VfuSlots, VfuAfter

LEMMA NextCid ==
    ASSUME NEW c \in 0..(VfuCids - 1)
    PROVE  (c + 1) % VfuCids \in 0..(VfuCids - 1)
  BY VfuAssumption, SMT

\* Block i of segs belongs to a gapless description of len bytes from iova.
BlockOf(segs, i, iova, len) ==
    /\ segs[i].at \in Nat /\ segs[i].len \in Nat /\ segs[i].len > 0
    /\ segs[i].at \div VfuRegion = (segs[i].at + segs[i].len - 1) \div VfuRegion
    /\ segs[i].at = IF i = 1 THEN iova ELSE segs[i - 1].at + segs[i - 1].len
    /\ segs[i].at + segs[i].len <= iova + len

\* The blocks of a buffer, one for each region it touches.
LEMMA BlocksDescribe ==
    ASSUME NEW iova \in Nat, NEW len \in Nat \ {0}, NEW i \in 1..Nseg(iova, len)
    PROVE  BlockOf(nvfu_sgl_set_dptr(iova, len), i, iova, len)
<1> DEFINE R == VfuRegion
           f == first_chunk(iova)
           n == Nseg(iova, len)
           off(j) == IF j = 1 THEN 0 ELSE f + (j - 2) * R
           chunk(j) == IF j = 1 THEN f ELSE R
           at(j) == iova + off(j)
           size(j) == IF off(j) + chunk(j) > len THEN len - off(j) ELSE chunk(j)
           segs == nvfu_sgl_set_dptr(iova, len)
           q == iova \div R
           m == iova % R
<1>1. R \in Nat \ {0}
  BY VfuAssumption
<1>2. q \in Nat /\ m \in 0..(R - 1) /\ iova = R * q + m
  BY <1>1, SMT
<1>3. f \in 1..R /\ iova + f = R * q + R
  BY <1>1, <1>2, SMT DEF first_chunk
<1>4. n = IF len <= f THEN 1 ELSE 1 + (len - f + R - 1) \div R
  BY DEF Nseg
<1>5. DOMAIN segs = 1..n /\ \A j \in 1..n : segs[j] = [at |-> at(j), len |-> size(j)]
  BY DEF nvfu_sgl_set_dptr
<1> HIDE DEF R, f, n, segs, q, m
<1>6. n \in Nat \ {0}
  BY <1>1, <1>3, <1>4, SMT
<1>7. ASSUME NEW j \in 1..n PROVE off(j) \in Nat /\ off(j) < len
  <2>1. CASE j = 1
    BY <2>1, SMT
  <2>2. CASE j # 1
    <3>1. len > f /\ n = 1 + (len - f + R - 1) \div R
      BY <1>4, <1>3, <2>2, SMT
    <3> DEFINE x == len - f + R - 1
    <3>2. x \in Nat /\ x \div R = n - 1
      BY <1>1, <1>3, <1>6, <3>1, SMT
    <3> HIDE DEF x
    <3>3. R * (n - 1) <= x
      BY <1>1, <3>2, SMT
    <3>4. (j - 2) * R <= R * (n - 1) - R /\ (j - 2) * R \in Nat
      BY <1>1, <1>6, <2>2, SMT
    <3> QED BY <1>1, <1>3, <2>2, <3>2, <3>3, <3>4, SMT DEF x
  <2> QED BY <2>1, <2>2
<1>8. \A j \in 1..n : chunk(j) \in 1..R /\ at(j) \in Nat
  BY <1>1, <1>3, <1>7, SMT
<1>9. \A j \in 1..n : size(j) \in 1..R /\ size(j) <= chunk(j) /\ off(j) + size(j) <= len
  BY <1>1, <1>3, <1>7, <1>8, SMT
<1>10. ASSUME NEW j \in 2..n PROVE off(j - 1) + chunk(j - 1) = off(j)
  BY <1>1, <1>3, <1>6, SMT
<1>11. ASSUME NEW j \in 2..n PROVE at(j) = at(j - 1) + size(j - 1)
  <2>1. j \in 1..n /\ j - 1 \in 1..n
    BY <1>6, SMT
  <2>2. off(j - 1) + chunk(j - 1) < len
    BY <1>7, <1>10, <2>1
  <2> HIDE DEF off, chunk
  <2>3. size(j - 1) = chunk(j - 1)
    BY <1>7, <1>8, <2>1, <2>2, SMT
  <2> QED BY <1>7, <1>8, <1>10, <2>1, <2>3, SMT
<1>12. ASSUME NEW j \in 1..n PROVE at(j) \div R = (at(j) + size(j) - 1) \div R
  <2>1. CASE j = 1
    <3>1. at(j) = iova /\ size(j) \in 1..f
      BY <1>3, <1>9, <2>1, SMT
    <3> HIDE DEF size, at
    <3>2. R * q \in Int /\ m \in Int /\ size(j) \in Int
      BY <1>1, <1>2, <1>3, <3>1, SMT
    <3>3. /\ m + size(j) - 1 \in 0..(R - 1)
          /\ iova + size(j) - 1 = R * q + (m + size(j) - 1)
      <4>1. iova = R * q + m /\ iova + f = R * q + R
        BY <1>2, <1>3
      <4> QED BY <1>1, <1>2, <1>3, <3>1, <3>2, <4>1, SMT
    <3>4. (iova + size(j) - 1) \div R = q
      BY <1>1, <1>2, <3>3, SMT
    <3> QED BY <3>1, <3>4 DEF q
  <2>2. CASE j # 1
    <3>1. at(j) = R * (q + j - 1) /\ q + j - 1 \in Nat
      BY <1>1, <1>2, <1>3, <1>6, <2>2, SMT
    <3>2. size(j) - 1 \in 0..(R - 1)
      BY <1>1, <1>9, SMT
    <3> HIDE DEF size, at
    <3>3. (R * (q + j - 1) + (size(j) - 1)) \div R = q + j - 1
      BY <1>1, <3>1, <3>2, SMT
    <3>4. (R * (q + j - 1)) \div R = q + j - 1
      BY <1>1, <3>1, SMT
    <3>5. size(j) \in Int
      BY <1>9, SMT
    <3> QED BY <1>1, <3>1, <3>3, <3>4, <3>5
  <2> QED BY <2>1, <2>2
<1>13. i \in 1..n
  BY DEF n
<1> HIDE DEF at, size
<1>14. at(1) = iova
  BY <1>6, SMT DEF at
<1>15. segs[i].at = IF i = 1 THEN iova ELSE segs[i - 1].at + segs[i - 1].len
  BY <1>5, <1>6, <1>11, <1>13, <1>14, SMT
<1>16. at(i) + size(i) <= iova + len
  <2> HIDE DEF off
  <2> QED BY <1>7, <1>9, <1>13, SMT DEF at
<1>17. /\ segs[i].at \in Nat /\ segs[i].len \in Nat /\ segs[i].len > 0
       /\ segs[i].at \div R = (segs[i].at + segs[i].len - 1) \div R
       /\ segs[i].at + segs[i].len <= iova + len
  BY <1>5, <1>8, <1>9, <1>12, <1>13, <1>16, SMT
<1> QED BY <1>15, <1>17 DEF BlockOf, segs, R

\* Rings and controller as after nvfu_queue_init_db, with no call.
VfuFreshState ==
    /\ vfuQ = nvfu_queue_init_db
    /\ vfuSq = [s \in VfuSlots |-> VfuNone]
    /\ vfuCq = [s \in VfuSlots |-> [cid |-> VfuNone, phase |-> 0]]
    /\ vfuCall = VfuIdle /\ vfuHeld = {}
    /\ vfuCtrl = VfuFresh

LEMMA FreshStateOK == VfuFreshState => VfuIInv
<1> SUFFICES ASSUME VfuFreshState PROVE VfuIInv
  OBVIOUS
<1>1. 0 \in VfuSlots /\ 0 \in 0..(VfuCids - 1) /\ 0 \in VfuCid /\ VfuNone \in VfuCid
  BY VfuAssumption, SMT DEF VfuSlots, VfuCid
<1>2. vfuQ \in VfuQType /\ vfuCtrl \in VfuCtrlType
  BY <1>1 DEF VfuFreshState, nvfu_queue_init_db, VfuFresh, VfuQType, VfuCtrlType
<1>3. VfuTypes
  BY <1>1, <1>2 DEF VfuFreshState, nvfu_queue_init_db, VfuIdle, VfuTypes
<1>4. /\ VfuDoorbells /\ vfuCall.pc = "idle" /\ vfuCall.got = VfuNone
      /\ vfuCtrl.head = vfuCtrl.db_tail /\ vfuCtrl.work = {}
      /\ vfuCtrl.tail = vfuQ.cq_head /\ vfuCtrl.phase = vfuQ.cq_phase
  BY DEF VfuFreshState, nvfu_queue_init_db, VfuFresh, VfuIdle, VfuDoorbells
<1>5. \A s \in VfuSlots : InPhase(s)
  BY VfuAssumption, SMT DEF VfuFreshState, nvfu_queue_init_db, InPhase, VfuSlots
<1>6. VfuRings
  BY <1>4, <1>5 DEF VfuRings, VfuNoCommand, VfuNoneWritten
<1>7. VfuHolds /\ VfuDescribesBuffer
  BY SMT DEF VfuFreshState, VfuIdle, VfuHolds, VfuDescribesBuffer
<1> QED BY <1>3, <1>6, <1>7 DEF VfuIInv

\* What a call holds: its buffer first.
LEMMA AllocatesBuffer ==
    ASSUME NEW apart, NEW iova, NEW len
    PROVE  "buf" \in {Allocates(apart, iova, len)[i] : i \in DOMAIN Allocates(apart, iova, len)}
<1> DEFINE A == {"buf", "head", "segs"}
           h == IF apart THEN <<"head">> ELSE <<>>
           g == IF apart \/ Nseg(iova, len) > 1 THEN <<"segs">> ELSE <<>>
<1>1. <<"buf">> \in Seq(A) /\ <<"head">> \in Seq(A) /\ <<"segs">> \in Seq(A) /\ <<>> \in Seq(A)
  BY SMT
<1> HIDE DEF A
<1>2. h \in Seq(A) /\ g \in Seq(A)
  BY <1>1
<1> HIDE DEF h, g
<1>3. (<<"buf">> \o h) \o g \in Seq(A) /\ 1 \in DOMAIN ((<<"buf">> \o h) \o g)
        /\ ((<<"buf">> \o h) \o g)[1] = "buf"
  BY <1>1, <1>2, SMT
<1>4. Allocates(apart, iova, len) = (<<"buf">> \o h) \o g
  BY DEF Allocates, h, g
<1> QED BY <1>3, <1>4

\* A submission keeps the invariant: the buffer is allocated and described, the command is
\* in the SQ.
LEMMA ProduceKept ==
    ASSUME VfuIInv, NEW apart \in BOOLEAN, NEW iova \in Nat,
           NEW plan \in [size : Nat, xfer : Nat], plan.xfer <= plan.size,
           ~ apart => plan.xfer # 0, nvfu_produce(apart, iova, plan)
    PROVE  VfuIInv'
<1> DEFINE segs == IF apart THEN nvfu_sgl_set_dptr_kv(iova, plan.xfer)
                   ELSE nvfu_sgl_set_dptr(iova, plan.xfer)
           after == (vfuQ.sq_tail + 1) % VfuDepth
           next == (vfuQ.cid + 1) % VfuCids
<1>a. VfuTypes /\ VfuRings /\ VfuHolds /\ VfuDescribesBuffer
  BY DEF VfuIInv
<1>1. /\ vfuCall.pc = "idle"
      /\ vfuHeld' = {Allocates(apart, iova, plan.xfer)[i] :
                        i \in DOMAIN Allocates(apart, iova, plan.xfer)}
      /\ vfuCall' = [pc |-> "poll", cid |-> vfuQ.cid, got |-> VfuNone, segs |-> segs,
                     iova |-> iova, size |-> plan.size]
      /\ vfuSq' = [vfuSq EXCEPT ![vfuQ.sq_tail] = vfuQ.cid]
      /\ vfuQ' = [vfuQ EXCEPT !.cid = next, !.sq_tail = after]
      /\ vfuCtrl' = [vfuCtrl EXCEPT !.db_tail = after]
      /\ UNCHANGED <<vfuCq, vfuLate>>
  BY DEF nvfu_produce
<1>2. /\ vfuQ.sq_tail \in VfuSlots /\ after = VfuAfter(vfuQ.sq_tail) /\ after \in VfuSlots
      /\ after # vfuQ.sq_tail /\ next \in 0..(VfuCids - 1) /\ next \in VfuCid
  BY <1>a, NextSlot, NextCid DEF VfuTypes, VfuQType, VfuCid
<1>3. /\ DOMAIN segs \subseteq Nat
      /\ \A i \in DOMAIN segs :
            /\ segs[i].len > 0
            /\ segs[i].at \div VfuRegion = (segs[i].at + segs[i].len - 1) \div VfuRegion
            /\ segs[i].at = IF i = 1 THEN iova ELSE segs[i - 1].at + segs[i - 1].len
            /\ segs[i].at + segs[i].len <= iova + plan.size
  <2>1. CASE plan.xfer = 0
    <3>1. segs = <<>>
      BY <2>1 DEF nvfu_sgl_set_dptr_kv
    <3> QED BY <3>1, SMT
  <2>2. CASE plan.xfer # 0
    <3> DEFINE blocks == nvfu_sgl_set_dptr(iova, plan.xfer)
               n == Nseg(iova, plan.xfer)
    <3>1. segs = blocks
      BY <2>2 DEF nvfu_sgl_set_dptr_kv
    <3>2. DOMAIN blocks = 1..n
      BY DEF nvfu_sgl_set_dptr
    <3>3. ASSUME NEW i \in 1..n
          PROVE  /\ blocks[i].at \in Nat /\ blocks[i].len \in Nat /\ blocks[i].len > 0
                 /\ blocks[i].at \div VfuRegion
                      = (blocks[i].at + blocks[i].len - 1) \div VfuRegion
                 /\ blocks[i].at = IF i = 1 THEN iova ELSE blocks[i - 1].at + blocks[i - 1].len
                 /\ blocks[i].at + blocks[i].len <= iova + plan.xfer
      <4>1. plan.xfer \in Nat \ {0}
        BY <2>2
      <4>2. BlockOf(blocks, i, iova, plan.xfer)
        BY <4>1, BlocksDescribe
      <4> HIDE DEF blocks, n
      <4> QED BY <4>2 DEF BlockOf
    <3>4. ASSUME NEW i \in 1..n
          PROVE  blocks[i].at + blocks[i].len <= iova + plan.size
      <4>1. blocks[i].at \in Nat /\ blocks[i].len \in Nat
        BY <3>3
      <4>2. plan.xfer \in Nat /\ plan.size \in Nat
        OBVIOUS
      <4>3. blocks[i].at + blocks[i].len <= iova + plan.xfer
        BY <3>3
      <4> HIDE DEF blocks, n
      <4> QED BY <4>1, <4>2, <4>3, SMT
    <3>5. 1..n \subseteq Nat
      BY SMT
    <3> HIDE DEF blocks, n, segs
    <3> QED BY <3>1, <3>2, <3>3, <3>4, <3>5
  <2> QED BY <2>1, <2>2
<1> HIDE DEF segs, after, next
<1>4. VfuDescribesBuffer'
  BY <1>1, <1>3 DEF VfuDescribesBuffer
<1>5. VfuHolds'
  BY <1>1, AllocatesBuffer, SMT DEF VfuHolds
<1>6. VfuTypes'
  <2>1. vfuQ' \in VfuQType /\ vfuQ'.cid = next
    BY <1>a, <1>1, <1>2 DEF VfuTypes, VfuQType
  <2>2. vfuCtrl' \in VfuCtrlType
    BY <1>a, <1>1, <1>2 DEF VfuTypes, VfuCtrlType
  <2>3. vfuSq' \in [VfuSlots -> VfuCid]
    BY <1>a, <1>1, <1>2 DEF VfuTypes, VfuQType
  <2> QED BY <1>a, <1>1, <1>2, <2>1, <2>2, <2>3 DEF VfuTypes
<1>7. VfuRings'
  <2> SUFFICES ASSUME ~ vfuLate' PROVE VfuDoorbells' /\ VfuInSq' /\ vfuCall'.got = VfuNone
    BY <1>1 DEF VfuRings
  <2>1. VfuDoorbells /\ VfuNoCommand
    BY <1>a, <1>1 DEF VfuRings
  <2>2. /\ vfuQ'.sq_tail = after /\ vfuQ'.cq_head = vfuQ.cq_head
        /\ vfuQ'.cq_phase = vfuQ.cq_phase
    BY <1>a, <1>1 DEF VfuTypes, VfuQType
  <2>3. /\ vfuCtrl'.db_tail = after /\ vfuCtrl'.head = vfuCtrl.head
        /\ vfuCtrl'.db_head = vfuCtrl.db_head /\ vfuCtrl'.tail = vfuCtrl.tail
        /\ vfuCtrl'.phase = vfuCtrl.phase /\ vfuCtrl'.work = vfuCtrl.work
    BY <1>a, <1>1 DEF VfuTypes, VfuCtrlType
  <2>4. VfuNoneWritten'
    BY <1>1, <2>1, <2>2, <2>3 DEF VfuNoCommand, VfuNoneWritten, InPhase
  <2>5. VfuDoorbells'
    BY <2>1, <2>2, <2>3 DEF VfuDoorbells
  <2>6. vfuCtrl.head = vfuQ.sq_tail /\ vfuCtrl.work = {}
    BY <2>1 DEF VfuDoorbells, VfuNoCommand
  <2>7. VfuInSq'
    BY <1>a, <1>1, <1>2, <2>3, <2>4, <2>6 DEF VfuInSq, VfuTypes
  <2> QED BY <1>1, <2>5, <2>7
<1> QED BY <1>4, <1>5, <1>6, <1>7 DEF VfuIInv

\* The completion at the head of the CQ is taken.
LEMMA CompletedKept ==
    ASSUME VfuIInv, nvfu_submit_poll_Completed
    PROVE  VfuIInv'
<1> DEFINE head == VfuAfter(vfuQ.cq_head)
           phase == IF head = 0 THEN 1 - vfuQ.cq_phase ELSE vfuQ.cq_phase
<1>a. VfuTypes /\ VfuRings /\ VfuHolds
  BY DEF VfuIInv
<1>1. /\ vfuCall.pc = "poll" /\ vfuCq[vfuQ.cq_head].phase = vfuQ.cq_phase
      /\ vfuCall' = [VfuIdle EXCEPT !.cid = vfuCall.cid, !.got = vfuCq[vfuQ.cq_head].cid]
      /\ vfuHeld' = {} /\ vfuQ' = Advanced(vfuQ)
      /\ vfuCtrl' = [vfuCtrl EXCEPT !.db_head = Advanced(vfuQ).cq_head]
      /\ UNCHANGED <<vfuSq, vfuCq, vfuLate>>
  BY DEF nvfu_submit_poll_Completed
<1>2. /\ vfuQ \in VfuQType /\ vfuQ.cq_head \in VfuSlots /\ vfuQ.cq_phase \in {0, 1}
      /\ vfuCtrl \in VfuCtrlType /\ vfuQ.cid \in 0..(VfuCids - 1)
  BY <1>a DEF VfuTypes, VfuQType
<1>3. head \in VfuSlots /\ head = (vfuQ.cq_head + 1) % VfuDepth /\ phase \in {0, 1}
  BY <1>2, NextSlot, SMT
<1> HIDE DEF head
<1>4. vfuQ' = [vfuQ EXCEPT !.cq_head = head, !.cq_phase = phase]
  BY <1>1, <1>2, <1>3 DEF Advanced
<1> HIDE DEF phase
<1>5. /\ vfuQ' \in VfuQType /\ vfuQ'.cid = vfuQ.cid /\ vfuQ'.sq_tail = vfuQ.sq_tail
      /\ vfuQ'.cq_head = head /\ vfuQ'.cq_phase = phase
  BY <1>2, <1>3, <1>4 DEF VfuQType
<1>6. vfuCtrl' = [vfuCtrl EXCEPT !.db_head = head]
  BY <1>1, <1>5
<1>7. /\ vfuCtrl' \in VfuCtrlType /\ vfuCtrl'.db_tail = vfuCtrl.db_tail
      /\ vfuCtrl'.head = vfuCtrl.head /\ vfuCtrl'.db_head = head
      /\ vfuCtrl'.tail = vfuCtrl.tail /\ vfuCtrl'.phase = vfuCtrl.phase
      /\ vfuCtrl'.work = vfuCtrl.work
  BY <1>2, <1>3, <1>6 DEF VfuCtrlType
<1>8. /\ vfuCall'.pc = "idle" /\ vfuCall'.cid = vfuCall.cid /\ vfuCall'.segs = <<>>
      /\ vfuCall'.got = vfuCq[vfuQ.cq_head].cid
  BY <1>1 DEF VfuIdle
<1>9. VfuTypes' /\ VfuHolds' /\ VfuDescribesBuffer'
  BY <1>a, <1>1, <1>2, <1>5, <1>7, <1>8, SMT DEF VfuTypes, VfuHolds, VfuDescribesBuffer
<1>10. VfuRings'
  <2> SUFFICES ASSUME ~ vfuLate'
               PROVE  VfuDoorbells' /\ VfuNoCommand' /\ vfuCall'.got = vfuCall'.cid
    BY <1>8 DEF VfuRings
  <2>1. VfuDoorbells /\ (VfuInSq \/ VfuInWork \/ VfuWritten)
    BY <1>a, <1>1 DEF VfuRings
  <2>2. ~ VfuNoneWritten
    BY <1>1, <1>2, SMT DEF VfuNoneWritten, InPhase, VfuSlots
  <2>3. VfuWritten
    BY <2>1, <2>2 DEF VfuInSq, VfuInWork
  <2>4. \A s \in VfuSlots : InPhase(s)'
    <3> SUFFICES ASSUME NEW s \in VfuSlots
                 PROVE  vfuCq[s].phase = IF s < head THEN phase ELSE 1 - phase
      BY <1>1, <1>5 DEF InPhase
    <3>1. CASE s = vfuQ.cq_head
      BY <1>1, <1>2, <3>1, SMT DEF head, phase, VfuAfter, VfuSlots
    <3>2. CASE s # vfuQ.cq_head
      <4>1. vfuCq[s].phase = IF s < vfuQ.cq_head THEN vfuQ.cq_phase ELSE 1 - vfuQ.cq_phase
        BY <2>3, <3>2 DEF VfuWritten, InPhase
      <4> QED BY <1>2, <3>2, <4>1, SMT DEF head, phase, VfuAfter, VfuSlots
    <3> QED BY <3>1, <3>2
  <2>5. vfuCtrl.tail = head /\ vfuCtrl.phase = phase
    BY <2>3 DEF VfuWritten, head, phase
  <2>6. VfuNoCommand'
    BY <1>5, <1>7, <2>3, <2>4, <2>5 DEF VfuNoCommand, VfuNoneWritten, VfuWritten
  <2>7. VfuDoorbells'
    BY <1>5, <1>7, <2>1 DEF VfuDoorbells
  <2>8. vfuCq[vfuQ.cq_head].cid = vfuCall.cid
    BY <2>3, SMT DEF VfuWritten
  <2> QED BY <1>8, <2>6, <2>7, <2>8
<1> QED BY <1>9, <1>10 DEF VfuIInv

\* The controller takes a command from the SQ.
LEMMA FetchKept ==
    ASSUME VfuIInv, CtrlFetch
    PROVE  VfuIInv'
<1>a. VfuTypes /\ VfuRings /\ VfuHolds /\ VfuDescribesBuffer
  BY DEF VfuIInv
<1> DEFINE work == vfuCtrl.work \cup {vfuSq[vfuCtrl.head]}
           head == VfuAfter(vfuCtrl.head)
<1>1. vfuCtrl \in VfuCtrlType /\ vfuCtrl.head \in VfuSlots /\ vfuCtrl.work \in SUBSET VfuCid
  BY <1>a DEF VfuTypes, VfuCtrlType
<1>2. /\ head \in VfuSlots /\ head = (vfuCtrl.head + 1) % VfuDepth
      /\ vfuSq[vfuCtrl.head] \in VfuCid /\ work \in SUBSET VfuCid
  BY <1>a, <1>1, NextSlot, SMT DEF VfuTypes
<1>3. /\ vfuCtrl.head # vfuCtrl.db_tail
      /\ vfuCtrl' = [vfuCtrl EXCEPT !.work = work, !.head = head]
      /\ UNCHANGED <<vfuQ, vfuSq, vfuCq, vfuCall, vfuHeld, vfuLate>>
  BY <1>2 DEF CtrlFetch
<1> HIDE DEF work, head
<1>4. /\ vfuCtrl' \in VfuCtrlType /\ vfuCtrl'.db_tail = vfuCtrl.db_tail
      /\ vfuCtrl'.head = head /\ vfuCtrl'.db_head = vfuCtrl.db_head
      /\ vfuCtrl'.tail = vfuCtrl.tail /\ vfuCtrl'.phase = vfuCtrl.phase
      /\ vfuCtrl'.work = work
  BY <1>1, <1>2, <1>3 DEF VfuCtrlType
<1>5. VfuTypes' /\ VfuHolds' /\ VfuDescribesBuffer'
  BY <1>a, <1>3, <1>4 DEF VfuTypes, VfuHolds, VfuDescribesBuffer
<1>6. VfuRings'
  <2> SUFFICES ASSUME ~ vfuLate
               PROVE  /\ VfuDoorbells' /\ vfuCall.pc = "poll" /\ VfuInWork'
                      /\ vfuCall.got \in {VfuNone, vfuCall.cid}
    BY <1>3 DEF VfuRings
  <2>1. /\ VfuDoorbells /\ vfuCall.pc = "poll" /\ VfuInSq
        /\ vfuCall.got \in {VfuNone, vfuCall.cid}
    BY <1>a, <1>3 DEF VfuRings, VfuTypes, VfuNoCommand, VfuInWork, VfuWritten
  <2>2. VfuDoorbells'
    BY <1>3, <1>4, <2>1 DEF VfuDoorbells
  <2>3. VfuNoneWritten'
    BY <1>3, <1>4, <2>1 DEF VfuInSq, VfuNoneWritten, InPhase
  <2>4. VfuInWork'
    BY <1>3, <1>4, <2>1, <2>3 DEF VfuInSq, VfuInWork, work, head
  <2> QED BY <2>1, <2>2, <2>4
<1> QED BY <1>5, <1>6 DEF VfuIInv

\* The controller writes a completion.
LEMMA CompleteKept ==
    ASSUME VfuIInv, NEW cid \in 0..(VfuCids - 1), CtrlComplete(cid)
    PROVE  VfuIInv'
<1>a. VfuTypes /\ VfuRings /\ VfuHolds /\ VfuDescribesBuffer
  BY DEF VfuIInv
<1> DEFINE work == vfuCtrl.work \ {cid}
           tail == VfuAfter(vfuCtrl.tail)
           phase == IF tail = 0 THEN 1 - vfuCtrl.phase ELSE vfuCtrl.phase
           entry == [cid |-> cid, phase |-> vfuCtrl.phase]
<1>1. /\ vfuCtrl \in VfuCtrlType /\ vfuCtrl.tail \in VfuSlots
      /\ vfuCtrl.phase \in {0, 1} /\ vfuCtrl.work \in SUBSET VfuCid
  BY <1>a DEF VfuTypes, VfuCtrlType
<1>2. /\ tail \in VfuSlots /\ tail = (vfuCtrl.tail + 1) % VfuDepth /\ tail # vfuCtrl.tail
      /\ phase \in {0, 1} /\ work \in SUBSET VfuCid
  BY <1>1, NextSlot, SMT
<1> HIDE DEF tail
<1>3. /\ cid \in vfuCtrl.work
      /\ vfuCq' = [vfuCq EXCEPT ![vfuCtrl.tail] = entry]
      /\ vfuCtrl' = [vfuCtrl EXCEPT !.work = work, !.tail = tail, !.phase = phase]
      /\ UNCHANGED <<vfuQ, vfuSq, vfuCall, vfuHeld, vfuLate>>
  BY <1>1, <1>2 DEF CtrlComplete
<1> HIDE DEF work, phase
<1>4. /\ vfuCtrl' \in VfuCtrlType /\ vfuCtrl'.db_tail = vfuCtrl.db_tail
      /\ vfuCtrl'.head = vfuCtrl.head /\ vfuCtrl'.db_head = vfuCtrl.db_head
      /\ vfuCtrl'.tail = tail /\ vfuCtrl'.phase = phase /\ vfuCtrl'.work = work
  BY <1>1, <1>2, <1>3 DEF VfuCtrlType
<1>5. entry \in [cid : VfuCid, phase : {0, 1}]
  BY <1>1 DEF VfuCid
<1>6. vfuCq' \in [VfuSlots -> [cid : VfuCid, phase : {0, 1}]]
  <2> HIDE DEF entry
  <2> QED BY <1>a, <1>1, <1>3, <1>5 DEF VfuTypes
<1>7. VfuTypes' /\ VfuHolds' /\ VfuDescribesBuffer'
  BY <1>a, <1>3, <1>4, <1>6 DEF VfuTypes, VfuHolds, VfuDescribesBuffer
<1>8. VfuRings'
  <2> SUFFICES ASSUME ~ vfuLate
               PROVE  /\ VfuDoorbells' /\ vfuCall.pc = "poll" /\ VfuWritten'
                      /\ vfuCall.got \in {VfuNone, vfuCall.cid}
    BY <1>3 DEF VfuRings
  <2>1. /\ VfuDoorbells /\ vfuCall.pc = "poll" /\ VfuInWork
        /\ vfuCall.got \in {VfuNone, vfuCall.cid}
    BY <1>a, <1>3 DEF VfuRings, VfuTypes, VfuNoCommand, VfuInSq, VfuWritten
  <2>2. VfuDoorbells'
    BY <1>3, <1>4, <2>1 DEF VfuDoorbells
  <2>3. /\ vfuCtrl.head = vfuCtrl.db_tail /\ vfuCtrl.work = {vfuCall.cid}
        /\ vfuCtrl.tail = vfuQ.cq_head /\ vfuCtrl.phase = vfuQ.cq_phase
        /\ \A s \in VfuSlots : InPhase(s)
    BY <2>1 DEF VfuInWork, VfuNoneWritten
  <2>4. cid = vfuCall.cid /\ work = {}
    BY <1>3, <2>3 DEF work
  <2>5. /\ vfuCq'[vfuQ.cq_head] = [cid |-> vfuCall.cid, phase |-> vfuQ.cq_phase]
        /\ \A s \in VfuSlots \ {vfuQ.cq_head} : vfuCq'[s] = vfuCq[s]
    BY <1>a, <1>1, <1>3, <2>3, <2>4 DEF VfuTypes
  <2>6. \A s \in VfuSlots \ {vfuQ.cq_head} : InPhase(s)'
    BY <1>3, <2>3, <2>5 DEF InPhase
  <2>7. VfuWritten'
    BY <1>3, <1>4, <2>3, <2>4, <2>5, <2>6 DEF VfuWritten, tail, phase
  <2> QED BY <2>1, <2>2, <2>7
<1> QED BY <1>7, <1>8 DEF VfuIInv

\* The inductive invariant is kept by every step.
LEMMA VfuStepKept == VfuIInv /\ [VfuNext]_vfuVars => VfuIInv'
<1> SUFFICES ASSUME VfuIInv, [VfuNext]_vfuVars PROVE VfuIInv'
  OBVIOUS
<1>a. VfuTypes /\ VfuRings /\ VfuHolds /\ VfuDescribesBuffer
  BY DEF VfuIInv
<1>b. ASSUME UNCHANGED <<vfuQ, vfuSq, vfuCq, vfuCall, vfuHeld, vfuCtrl, vfuLate>>
      PROVE  VfuIInv'
  BY <1>a, <1>b DEF VfuIInv, VfuTypes, VfuRings, VfuHolds, VfuDescribesBuffer, VfuDoorbells,
     VfuNoCommand, VfuInSq, VfuInWork, VfuWritten, VfuNoneWritten, InPhase
<1>1. CASE nvfu_open
  BY <1>b, <1>1 DEF nvfu_open
<1>2. CASE nvfu_close
  <2>1. VfuFreshState'
    BY <1>a, <1>2 DEF nvfu_close, VfuFreshState, VfuHolds
  <2> QED BY <2>1, FreshStateOK, PTL
<1>3. ASSUME NEW iova \in VfuIova, NEW input \in VfuLen, NEW out \in VfuLen
      PROVE  VfuStages(iova, input, out) \/ nkvx_exec(iova, input, out) => VfuIInv'
  <2>1. iova \in Nat /\ input \in Nat /\ out \in Nat
    BY VfuAssumption
  <2>2. ASSUME NEW plan \in {nvfu_kv_store_lk(input), nvfu_kv_retrieve_lk(out), nvfu_kv_op_lk}
        PROVE  /\ plan \in [size : Nat, xfer : Nat] /\ plan.xfer <= plan.size /\ plan.xfer # 0
    BY <2>1, VfuAssumption, SMT DEF nvfu_kv_store_lk, nvfu_kv_retrieve_lk, nvfu_kv_op_lk, Larger
  <2>3. nvfu_kv_exec_Accepts(input, out) =>
          LET plan == nvfu_kv_exec(input, out)
          IN  plan \in [size : Nat, xfer : Nat] /\ plan.xfer <= plan.size /\ plan.xfer # 0
    BY <2>1, VfuAssumption, SMT DEF nvfu_kv_exec, nvfu_kv_exec_Accepts, Larger
  <2>4. ASSUME NEW plan \in [size : Nat, xfer : Nat], plan.xfer <= plan.size, plan.xfer # 0,
               nvfu_produce(FALSE, iova, plan)
        PROVE  VfuIInv'
    BY <2>1, <2>4, ProduceKept
  <2> QED BY <2>2, <2>3, <2>4 DEF VfuStages, nkvx_exec
<1>4. ASSUME NEW apart \in BOOLEAN, NEW iova \in VfuIova, NEW out \in VfuLen,
             NoMemory(apart, iova, out)
      PROVE  VfuIInv'
  <2>1. /\ vfuCall.pc = "idle" /\ vfuHeld' = {}
        /\ UNCHANGED <<vfuOpen, vfuQ, vfuSq, vfuCq, vfuCall, vfuCtrl, vfuLate>>
    BY <1>4 DEF NoMemory, nvfu_kv_xfer_sgl_Unwinds
  <2>2. vfuHeld = {}
    BY <1>a, <2>1 DEF VfuHolds
  <2> QED BY <1>b, <2>1, <2>2
<1>5. ASSUME NEW iova \in VfuIova, NEW len \in VfuLen
      PROVE  nkvx_store(iova, len) \/ nkvx_retrieve(iova, len) => VfuIInv'
  <2> DEFINE plan == [size |-> Larger(len, 1), xfer |-> len]
  <2>1. iova \in Nat /\ plan \in [size : Nat, xfer : Nat] /\ plan.xfer <= plan.size
    BY VfuAssumption, SMT DEF Larger
  <2> HIDE DEF plan
  <2>2. nvfu_produce(TRUE, iova, plan) => VfuIInv'
    BY <2>1, ProduceKept
  <2> QED BY <2>2 DEF plan, nkvx_store, nkvx_retrieve
<1>6. CASE nvfu_submit_poll_Completed
  BY <1>6, CompletedKept
<1>7. CASE nvfu_submit_poll_Timeout
  BY <1>a, <1>7, SMT DEF nvfu_submit_poll_Timeout, VfuIInv, VfuTypes, VfuRings, VfuHolds,
     VfuDescribesBuffer, VfuIdle
<1>8. CASE CtrlFetch
  BY <1>8, FetchKept
<1>9. ASSUME NEW cid \in 0..(VfuCids - 1), CtrlComplete(cid)
      PROVE  VfuIInv'
  BY <1>9, CompleteKept
<1>10. CASE UNCHANGED vfuVars
  BY <1>b, <1>10 DEF vfuVars
<1> QED BY <1>1, <1>2, <1>3, <1>4, <1>5, <1>6, <1>7, <1>8, <1>9, <1>10 DEF VfuNext

\* The inductive invariant is an invariant of the queue pair.
THEOREM QueueInductive == VfuSpec => []VfuIInv
<1>1. VfuInit => VfuIInv
  BY FreshStateOK DEF VfuInit, VfuFreshState
<1> QED BY <1>1, VfuStepKept, PTL DEF VfuSpec

\* A call returns the completion of its own command over every wrap of the rings and of the
\* phase, for any depth, until a command of the session times out.
THEOREM QueueOwnCompletion == VfuSpec => []VfuOwnCompletion
<1>1. VfuIInv => VfuOwnCompletion
  BY DEF VfuIInv, VfuRings, VfuOwnCompletion
<1> QED BY <1>1, QueueInductive, PTL

\* DMA memory is held from the submission to the completion and no longer, for any depth and
\* any payload, until a command of the session times out.
THEOREM QueueMemoryExact == VfuSpec => []VfuMemoryExact
<1>1. VfuIInv => VfuMemoryExact
  <2> SUFFICES ASSUME VfuIInv PROVE VfuMemoryExact
    OBVIOUS
  <2>1. VfuNothingLeaks
    BY DEF VfuIInv, VfuHolds, VfuNothingLeaks
  <2>2. ASSUME ~ vfuLate, NEW cid \in vfuCtrl.work
        PROVE  vfuCall.pc = "poll" /\ vfuCall.cid = cid /\ "buf" \in vfuHeld
    BY <2>2 DEF VfuIInv, VfuTypes, VfuRings, VfuHolds, VfuNoCommand, VfuInSq, VfuInWork,
       VfuWritten
  <2> QED BY <2>1, <2>2 DEF VfuMemoryExact, VfuNoDmaAfterFree
<1> QED BY <1>1, QueueInductive, PTL

\* The data blocks of a command are its buffer, without a gap, within it and none across a DMA
\* region, for any region size, address and length.
THEOREM QueueDescribesBuffer == VfuSpec => []VfuDescribesBuffer
<1>1. VfuIInv => VfuDescribesBuffer
  BY DEF VfuIInv
<1> QED BY <1>1, QueueInductive, PTL

--------------------------------------------------------------------------------
(****************************************************************************)
(* The host shim tells calls and contexts apart, for any number of          *)
(* addresses and of time-outs.                                              *)
(****************************************************************************)
\* The state of the shim's tokens: a request's number is not above the count, what is armed
\* or recorded during a call is the call's own, and between calls nothing is armed.
ShTokens ==
    /\ \A r \in shOut : r.req <= shHost.next
    /\ shCall.pc # "idle" => "qpair" \in shHeld
    /\ shCall.pc # "poll" => shHost.armed = 0
    /\ shCall.pc = "poll" => /\ shCall.req = shHost.next
                             /\ shHost.armed \in {0, shCall.req}
                             /\ shHost.done => shHost.last = shCall.req /\ shHost.armed = 0
    /\ shCall.got \in {0, shCall.req}


\* ShContextsExact, pointwise.
ShCtxOf ==
    /\ \A r \in shOut : shCtx[r.ctx] = r.req
    /\ \A a \in ShAddr : shCtx[a] # 0 => \E r \in shOut : r.ctx = a

ShHostType == [next : 0..ShMaxOps, armed : 0..ShMaxOps, done : BOOLEAN,
               last : 0..ShMaxOps, failed : BOOLEAN]

\* The inductive invariant.
ShIInv == ShTypeOK /\ ShCtxOf /\ ShClosedHoldsNothing /\ ShTokens

\* A context is freed where a request of the set has it, and kept elsewhere.
LEMMA FreedContexts ==
    ASSUME ShTypeOK, ShCtxOf, NEW rs \in SUBSET shOut,
           shOut' = shOut \ rs, shCtx' = CtxFreed(shCtx, rs)
    PROVE  /\ shCtx' \in [ShAddr -> 0..ShMaxOps]
           /\ shOut' \subseteq [req : 1..ShMaxOps, ctx : ShAddr]
           /\ ShCtxOf'
<1> USE ShAssumption
<1>1. \A r, q \in shOut : r.ctx = q.ctx => r = q
  BY SMT DEF ShTypeOK, ShCtxOf
<1>2. /\ shCtx' \in [ShAddr -> 0..ShMaxOps]
      /\ shOut' \subseteq [req : 1..ShMaxOps, ctx : ShAddr]
  BY SMT DEF ShTypeOK, CtxFreed
<1>3. ASSUME NEW r \in shOut' PROVE shCtx'[r.ctx] = r.req
  <2>1. r \in shOut /\ r.ctx \in ShAddr /\ ~ \E q \in rs : q.ctx = r.ctx
    BY <1>1 DEF ShTypeOK
  <2> QED BY <2>1 DEF ShCtxOf, CtxFreed
<1>4. ASSUME NEW a \in ShAddr, shCtx'[a] # 0
      PROVE  \E r \in shOut' : r.ctx = a
  <2>1. shCtx[a] # 0 /\ ~ \E r \in rs : r.ctx = a
    BY <1>4 DEF CtxFreed
  <2> QED BY <2>1 DEF ShCtxOf
<1> QED BY <1>2, <1>3, <1>4 DEF ShCtxOf

\* The inductive invariant is kept by every step.
LEMMA ShStepKept == ShIInv /\ [ShNext]_shVars => ShIInv'
<1> SUFFICES ASSUME ShIInv, [ShNext]_shVars PROVE ShIInv'
  OBVIOUS
<1> USE ShAssumption
<1>a. ShTypeOK /\ ShCtxOf /\ ShClosedHoldsNothing /\ ShTokens
  BY DEF ShIInv
<1>b. /\ ShFresh \in ShHostType
      /\ disarm_op(shHost) \in ShHostType
      /\ [disarm_op(shHost) EXCEPT !.failed = TRUE] \in ShHostType
      /\ [disarm_op(shHost) EXCEPT !.failed = FALSE] \in ShHostType
  <2>1. 0 \in 0..ShMaxOps
    BY SMT
  <2>2. shHost \in ShHostType
    BY <1>a DEF ShTypeOK, ShHostType
  <2> QED BY <2>1, <2>2 DEF ShHostType, ShFresh, disarm_op
<1>c. /\ disarm_op(shHost).next = shHost.next /\ disarm_op(shHost).armed = 0
      /\ [disarm_op(shHost) EXCEPT !.failed = TRUE].next = shHost.next
      /\ [disarm_op(shHost) EXCEPT !.failed = TRUE].armed = 0
      /\ [disarm_op(shHost) EXCEPT !.failed = FALSE].next = shHost.next
      /\ [disarm_op(shHost) EXCEPT !.failed = FALSE].armed = 0
  BY <1>a DEF ShTypeOK, disarm_op
<1>1. ASSUME NEW init_env \in BOOLEAN, NEW failing \in {"env", "probe", "ns", "qpair", "none"},
             kv_host_shim_open(init_env, failing)
      PROVE  ShIInv'
  <2>1. shOut = {} /\ shOut' = {} /\ shCtx' = shCtx
    BY <1>a, <1>1 DEF kv_host_shim_open, ShClosedHoldsNothing
  <2>2. /\ shHeld' \subseteq {"shim", "env", "ctrlr", "qpair"}
        /\ "qpair" \notin shHeld' => shHeld' = {}
    BY <1>1 DEF kv_host_shim_open, Acquired, OpenUnwinds
  <2>3. shHost' = ShFresh /\ shCall' = ShIdle
    BY <1>1 DEF kv_host_shim_open
  <2> QED BY <1>a, <1>b, <2>1, <2>2, <2>3 DEF ShIInv, ShTypeOK, ShHostType, ShCtxOf,
        ShClosedHoldsNothing, ShTokens, ShFresh, ShIdle
<1>2. CASE kv_host_shim_close
  <2>1. shOut' = {} /\ shHeld' = {} /\ shHost' = ShFresh /\ shCall' = ShIdle
    BY <1>2 DEF kv_host_shim_close
  <2>2. shCtx' \in [ShAddr -> 0..ShMaxOps] /\ ShCtxOf'
    <3>1. shOut' = shOut \ shOut /\ shCtx' = CtxFreed(shCtx, shOut)
      BY <1>2 DEF kv_host_shim_close
    <3> QED BY <1>a, <3>1, FreedContexts
  <2> QED BY <1>b, <2>1, <2>2 DEF ShIInv, ShTypeOK, ShHostType,
        ShClosedHoldsNothing, ShTokens, ShFresh, ShIdle
<1>3. ASSUME NEW ready \in SUBSET shOut, ensure_connected(ready)
      PROVE  ShIInv'
  <2>0. shHeld' = shHeld /\ "qpair" \in shHeld /\ shCall.pc = "idle"
    BY <1>3 DEF ensure_connected
  <2>1. CASE UNCHANGED <<shHost, shCtx, shOut>>
    <3>1. shCall' \in {ShIdle, [ShIdle EXCEPT !.pc = "ready"]}
      BY <1>3 DEF ensure_connected
    <3> QED BY <1>a, <2>0, <2>1, <3>1, SMT DEF ShIInv, ShTypeOK, ShCtxOf,
          ShClosedHoldsNothing, ShTokens, ShIdle
  <2>2. CASE /\ shHost' = [disarm_op(shHost) EXCEPT !.failed = FALSE]
             /\ shCtx' = CtxFreed(shCtx, ready)
             /\ shOut' = shOut \ ready
             /\ shCall' = [ShIdle EXCEPT !.pc = "ready"]
    <3>1. /\ shCtx' \in [ShAddr -> 0..ShMaxOps] /\ ShCtxOf'
          /\ shOut' \subseteq [req : 1..ShMaxOps, ctx : ShAddr]
      BY <1>a, <2>2, FreedContexts
    <3>2. ShTypeOK'
      BY <1>a, <1>b, <2>0, <2>2, <3>1, SMT DEF ShTypeOK, ShHostType, ShIdle
    <3>3. ShTokens' /\ ShClosedHoldsNothing'
      BY <1>a, <1>c, <2>0, <2>2 DEF ShTypeOK, ShTokens, ShIdle, ShClosedHoldsNothing
    <3> QED BY <3>1, <3>2, <3>3 DEF ShIInv
  <2> QED BY <1>3, <2>1, <2>2 DEF ensure_connected
<1>4. ASSUME NEW a \in ShAddr, NEW queued \in BOOLEAN, kv_host_shim_op(a, queued)
      PROVE  ShIInv'
  <2> DEFINE op_id == shHost.next + 1
  <2>1. /\ shCall.pc = "ready" /\ shHost.next < ShMaxOps /\ shCtx[a] = 0
        /\ shHeld' = shHeld
    BY <1>4 DEF kv_host_shim_op, FreshCtx
  <2>2. /\ op_id \in 1..ShMaxOps
        /\ arm_op(op_id) \in ShHostType /\ disarm_op(arm_op(op_id)) \in ShHostType
        /\ arm_op(op_id).next = op_id /\ arm_op(op_id).armed = op_id /\ ~ arm_op(op_id).done
        /\ disarm_op(arm_op(op_id)).next = op_id /\ disarm_op(arm_op(op_id)).armed = 0
    <3>1. op_id \in 1..ShMaxOps /\ op_id \in 0..ShMaxOps /\ 0 \in 0..ShMaxOps
      BY <1>a, <2>1, SMT DEF ShTypeOK
    <3>2. shHost \in ShHostType
      BY <1>a DEF ShTypeOK, ShHostType
    <3> HIDE DEF op_id
    <3>3. arm_op(op_id) \in ShHostType /\ disarm_op(arm_op(op_id)) \in ShHostType
      BY <3>1, <3>2 DEF ShHostType, arm_op, disarm_op
    <3>4. /\ arm_op(op_id).next = op_id /\ arm_op(op_id).armed = op_id /\ ~ arm_op(op_id).done
          /\ disarm_op(arm_op(op_id)).next = op_id /\ disarm_op(arm_op(op_id)).armed = 0
      BY <3>2 DEF ShHostType, arm_op, disarm_op
    <3> QED BY <3>1, <3>3, <3>4
  <2>3. "qpair" \in shHeld
    BY <1>a, <2>1 DEF ShTokens
  <2> HIDE DEF op_id
  <2>4. CASE queued
    <3>1. /\ shHost' = arm_op(op_id)
          /\ shCtx' = [shCtx EXCEPT ![a] = op_id]
          /\ shOut' = shOut \cup {[req |-> op_id, ctx |-> a]}
          /\ shCall' = [pc |-> "poll", req |-> op_id, got |-> 0]
      BY <1>4, <2>4 DEF kv_host_shim_op, op_id
    <3>2. ShTypeOK'
      BY <1>a, <2>1, <2>2, <3>1, SMT DEF ShTypeOK, ShHostType
    <3>3. \A r \in shOut : r.ctx # a /\ r.ctx \in ShAddr
      BY <1>a, <2>1, SMT DEF ShTypeOK, ShCtxOf
    <3>4. ShCtxOf'
      <4>1. ASSUME NEW r \in shOut' PROVE shCtx'[r.ctx] = r.req
        <5>1. CASE r \in shOut
          BY <1>a, <3>1, <3>3, <5>1 DEF ShTypeOK, ShCtxOf
        <5>2. CASE r = [req |-> op_id, ctx |-> a]
          BY <1>a, <3>1, <5>2 DEF ShTypeOK
        <5> QED BY <3>1, <5>1, <5>2
      <4>2. ASSUME NEW b \in ShAddr, shCtx'[b] # 0 PROVE \E r \in shOut' : r.ctx = b
        <5>1. CASE b = a
          <6>1. [req |-> op_id, ctx |-> a] \in shOut'
            BY <3>1
          <6> QED BY <5>1, <6>1
        <5>2. CASE b # a
          <6>1. shCtx[b] # 0
            BY <1>a, <3>1, <4>2, <5>2 DEF ShTypeOK
          <6>2. \E r \in shOut : r.ctx = b
            BY <1>a, <6>1 DEF ShCtxOf
          <6> QED BY <3>1, <6>2
        <5> QED BY <5>1, <5>2
      <4> QED BY <4>1, <4>2 DEF ShCtxOf
    <3>5. ShTokens' /\ ShClosedHoldsNothing'
      <4>1. \A r \in shOut' : r.req <= op_id
        BY <1>a, <2>2, <3>1, SMT DEF ShTokens, ShTypeOK, op_id
      <4> QED BY <2>1, <2>2, <2>3, <3>1, <4>1 DEF ShTokens, ShClosedHoldsNothing
    <3> QED BY <3>2, <3>4, <3>5 DEF ShIInv
  <2>5. CASE ~ queued
    <3>1. /\ shHost' = disarm_op(arm_op(op_id)) /\ shCall' = ShIdle
          /\ UNCHANGED <<shCtx, shOut>>
      BY <1>4, <2>5 DEF kv_host_shim_op, op_id
    <3>2. \A r \in shOut : r.req <= op_id
      BY <1>a, SMT DEF ShTokens, ShTypeOK, op_id
    <3> QED BY <1>a, <2>1, <2>2, <2>3, <3>1, <3>2, SMT DEF ShIInv, ShTypeOK, ShHostType, ShCtxOf,
          ShClosedHoldsNothing, ShTokens, ShIdle
  <2> QED BY <2>4, <2>5
<1>5. CASE kv_host_shim_op_NoMemory
  BY <1>a, <1>5 DEF kv_host_shim_op_NoMemory, ShIInv, ShTypeOK, ShCtxOf,
     ShClosedHoldsNothing, ShTokens, ShIdle
<1>6. ASSUME NEW r \in shOut, poll_to_completion_Callback(r)
      PROVE  ShIInv'
  <2>1. /\ shCall.pc = "poll" /\ UNCHANGED <<shCall, shHeld>>
        /\ shCtx' = CtxFreed(shCtx, {r}) /\ shOut' = shOut \ {r}
        /\ shHost' = io_complete(shHost, r.req, r)
    BY <1>a, <1>6 DEF poll_to_completion_Callback, ShCtxOf
  <2>2. r.req \in 1..ShMaxOps /\ {r} \in SUBSET shOut /\ "qpair" \in shHeld
    BY <1>a, <2>1 DEF ShTypeOK, ShTokens
  <2>3. /\ shCtx' \in [ShAddr -> 0..ShMaxOps] /\ ShCtxOf'
        /\ shOut' \subseteq [req : 1..ShMaxOps, ctx : ShAddr]
    BY <1>a, <2>1, <2>2, FreedContexts
  <2>4. CASE r.req = shHost.armed
    <3>1. shHost' = [shHost EXCEPT !.armed = 0, !.last = r.req, !.done = TRUE]
      BY <2>1, <2>4 DEF io_complete
    <3>2. /\ shHost' \in ShHostType /\ shHost'.next = shHost.next /\ shHost'.armed = 0
          /\ shHost'.last = r.req
      <4>1. 0 \in 0..ShMaxOps /\ r.req \in 0..ShMaxOps
        BY <2>2, SMT
      <4>2. shHost \in ShHostType
        BY <1>a DEF ShTypeOK, ShHostType
      <4> QED BY <3>1, <4>1, <4>2 DEF ShHostType
    <3>3. ShTypeOK'
      BY <1>a, <2>1, <2>3, <3>2 DEF ShTypeOK, ShHostType
    <3>4. ShTokens' /\ ShClosedHoldsNothing'
      BY <1>a, <2>1, <2>2, <2>4, <3>2, SMT DEF ShTypeOK, ShTokens, ShClosedHoldsNothing
    <3> QED BY <2>3, <3>3, <3>4 DEF ShIInv
  <2>5. CASE r.req # shHost.armed
    <3>1. shHost' = shHost
      BY <2>1, <2>5 DEF io_complete
    <3> QED BY <1>a, <2>1, <2>2, <2>3, <3>1 DEF ShIInv, ShTypeOK, ShTokens, ShClosedHoldsNothing
  <2> QED BY <2>4, <2>5
<1>7. CASE poll_to_completion_Done
  <2>1. /\ shCall.pc = "poll" /\ shHost.done /\ UNCHANGED <<shHost, shCtx, shOut, shHeld>>
        /\ shCall' = [pc |-> "idle", req |-> shCall.req, got |-> shHost.last]
    BY <1>7 DEF poll_to_completion_Done
  <2>2. shHost.last = shCall.req
    BY <1>a, <2>1 DEF ShTokens
  <2>3. shHost.armed = 0
    BY <1>a, <2>1 DEF ShTokens
  <2> QED BY <1>a, <2>1, <2>2, <2>3 DEF ShIInv, ShTypeOK, ShCtxOf, ShClosedHoldsNothing, ShTokens
<1>8. ASSUME NEW unsent \in SUBSET shOut, poll_to_completion_Fails(unsent)
      PROVE  ShIInv'
  <2>1. /\ shHost' = [disarm_op(shHost) EXCEPT !.failed = TRUE]
        /\ shCtx' = CtxFreed(shCtx, unsent) /\ shOut' = shOut \ unsent
        /\ shCall.pc = "poll" /\ shCall' = ShIdle /\ UNCHANGED shHeld
    BY <1>8 DEF poll_to_completion_Fails
  <2>2. /\ shCtx' \in [ShAddr -> 0..ShMaxOps] /\ ShCtxOf'
        /\ shOut' \subseteq [req : 1..ShMaxOps, ctx : ShAddr]
    BY <1>a, <2>1, FreedContexts
  <2>3. ShTypeOK'
    BY <1>a, <1>b, <2>1, <2>2, SMT DEF ShTypeOK, ShHostType, ShIdle
  <2>4. ShTokens' /\ ShClosedHoldsNothing'
    BY <1>a, <1>c, <2>1 DEF ShTypeOK, ShTokens, ShIdle, ShClosedHoldsNothing
  <2> QED BY <2>2, <2>3, <2>4 DEF ShIInv
<1>9. CASE UNCHANGED shVars
  BY <1>a, <1>9 DEF shVars, ShIInv, ShTypeOK, ShCtxOf, ShClosedHoldsNothing, ShTokens
<1> QED BY <1>1, <1>2, <1>3, <1>4, <1>5, <1>6, <1>7, <1>8, <1>9 DEF ShNext

\* The inductive invariant is an invariant of the shim.
THEOREM ShimInductive == ShSpec => []ShIInv
<1>1. ShInit => ShIInv
  BY ShAssumption, SMT DEF ShInit, ShIInv, ShTypeOK, ShCtxOf, ShClosedHoldsNothing,
     ShTokens, ShFresh, ShIdle
<1> QED BY <1>1, ShStepKept, PTL DEF ShSpec

\* A call of the shim returns the status of its own request or none, however many requests
\* were given up before and call back during it, and whichever addresses are used again.
THEOREM ShimOwnResult == ShSpec => []ShOwnResult
<1>1. ShIInv => ShOwnResult
  BY DEF ShIInv, ShTokens, ShOwnResult
<1> QED BY <1>1, ShimInductive, PTL

\* A context lives exactly as long as its request is owed a callback, and a closed shim holds
\* nothing and is owed nothing.
THEOREM ShimMemoryExact == ShSpec => []ShMemoryExact
<1>1. ShIInv => ShMemoryExact
  <2> SUFFICES ASSUME ShIInv PROVE ShContextsExact
    BY DEF ShIInv, ShMemoryExact
  <2>1. \A r \in shOut : r.ctx \in ShAddr /\ shCtx[r.ctx] = r.req /\ shCtx[r.ctx] # 0
    BY ShAssumption, SMT DEF ShIInv, ShTypeOK, ShCtxOf
  <2>2. \A a \in ShAddr : shCtx[a] # 0 => \E r \in shOut : r.ctx = a
    BY DEF ShIInv, ShCtxOf
  <2> QED BY <2>1, <2>2, SMT DEF ShContextsExact
<1> QED BY <1>1, ShimInductive, PTL

--------------------------------------------------------------------------------
(****************************************************************************)
(* The weight catalog is safe for any publishers, revisions, precisions and *)
(* tensors, given what the builder makes of one model.                      *)
(****************************************************************************)


\* A manifest records, for each of its precisions, the slices of the publish of it.
Manifest(P) == [p \in P |-> Built[p].slices]
Manifests == {Manifest(P) : P \in SUBSET Precision}

WtJob == [pc : {"storing"}, revision : WtRevision, precision : Precision, next : Nat \ {0},
          merge : BOOLEAN, base : Manifests, stale : BOOLEAN, across : BOOLEAN]

WtTypes ==
    /\ wtManifest \in [WtRevision -> Manifests]
    /\ wtPub \in [WtPublisher -> WtJob \cup {WtIdle}]
    /\ wtGc # WtIdle =>
          /\ wtGc = [pc |-> "sweep", values |-> wtGc.values, manifests |-> wtGc.manifests]
          /\ wtGc.manifests \subseteq WtRevision

\* No collection runs beside a publish that is not marked so, and the base that a merge has
\* read is the manifest, until another publisher or a collection comes between.
WtBaseInForce ==
    \A u \in WtPublisher : wtPub[u] # WtIdle /\ ~ wtPub[u].across =>
        /\ wtGc = WtIdle
        /\ wtPub[u].merge /\ ~ wtPub[u].stale => wtPub[u].base = wtManifest[wtPub[u].revision]

\* The inductive invariant of the merges.
WtIInv == WtTypes /\ WtBaseInForce

\* An idle record is no job.
LEMMA IdleIsNoJob == WtIdle \notin WtJob
  BY DEF WtIdle, WtJob

\* The manifests are closed under what a publish and a sweep make of them.
LEMMA ManifestClosure ==
    /\ NoManifest \in Manifests
    /\ \A m \in Manifests : DOMAIN m \subseteq Precision
                              /\ \A p \in DOMAIN m : m[p] = Built[p].slices
    /\ \A m \in Manifests, q \in Precision :
          [p \in DOMAIN m \cup {q} |-> IF p = q THEN Built[q].slices ELSE m[p]] \in Manifests
<1>1. NoManifest \in Manifests
  <2>1. NoManifest = Manifest({})
    BY DEF NoManifest, Manifest
  <2> QED BY <2>1 DEF Manifests
<1>2. ASSUME NEW m \in Manifests
      PROVE  DOMAIN m \subseteq Precision /\ \A p \in DOMAIN m : m[p] = Built[p].slices
  <2>1. PICK P \in SUBSET Precision : m = Manifest(P)
    BY DEF Manifests
  <2> QED BY <2>1 DEF Manifest
<1>3. ASSUME NEW m \in Manifests, NEW q \in Precision
      PROVE  [p \in DOMAIN m \cup {q} |-> IF p = q THEN Built[q].slices ELSE m[p]] \in Manifests
  <2> DEFINE f == [p \in DOMAIN m \cup {q} |-> IF p = q THEN Built[q].slices ELSE m[p]]
  <2>1. f = Manifest(DOMAIN m \cup {q})
    BY <1>2 DEF Manifest
  <2>2. DOMAIN m \cup {q} \in SUBSET Precision
    BY <1>2
  <2> QED BY <2>1, <2>2 DEF Manifests
<1> QED BY <1>1, <1>2, <1>3

\* What a job's fields are among.
LEMMA JobFields ==
    ASSUME NEW job \in WtJob
    PROVE  /\ job.pc = "storing" /\ job.revision \in WtRevision /\ job.precision \in Precision
           /\ job.next \in Nat \ {0} /\ job.merge \in BOOLEAN /\ job.base \in Manifests
           /\ job.stale \in BOOLEAN /\ job.across \in BOOLEAN
           /\ [job EXCEPT !.stale = TRUE] \in WtJob
           /\ [job EXCEPT !.across = TRUE] \in WtJob
           /\ [job EXCEPT !.next = @ + 1] \in WtJob
<1>1. job.next + 1 \in Nat \ {0}
  BY SMT DEF WtJob
<1>2. [job EXCEPT !.next = @ + 1] \in WtJob
  BY <1>1 DEF WtJob
<1> QED BY <1>2 DEF WtJob

\* The types and the bases are kept by every step.
LEMMA WtStepKept == WtIInv /\ [WtNext]_wtVars => WtIInv'
<1> SUFFICES ASSUME WtIInv, [WtNext]_wtVars PROVE WtIInv'
  OBVIOUS
<1>a. WtTypes /\ WtBaseInForce
  BY DEF WtIInv
<1>b. ASSUME UNCHANGED <<wtManifest, wtPub>>, UNCHANGED wtGc \/ wtGc' = WtIdle PROVE WtIInv'
  BY <1>a, <1>b DEF WtIInv, WtTypes, WtBaseInForce
<1>1. ASSUME NEW u \in WtPublisher, NEW r \in WtRevision, NEW p \in Precision,
             NEW merge \in BOOLEAN, publish(u, r, p, merge)
      PROVE  WtIInv'
  <2> DEFINE job == [pc |-> "storing", revision |-> r, precision |-> p, next |-> 1,
                     merge |-> merge, base |-> IF merge THEN wtManifest[r] ELSE NoManifest,
                     stale |-> FALSE, across |-> wtGc # WtIdle \/ (merge /\ r \in wtUnsafe)]
  <2>1. wtPub' = [wtPub EXCEPT ![u] = job] /\ UNCHANGED <<wtManifest, wtGc>>
    BY <1>1 DEF publish
  <2>2. job \in WtJob
    <3>1. (IF merge THEN wtManifest[r] ELSE NoManifest) \in Manifests
      BY <1>a, ManifestClosure DEF WtTypes
    <3>2. 1 \in Nat \ {0}
      BY SMT
    <3>3. (wtGc # WtIdle \/ (merge /\ r \in wtUnsafe)) \in BOOLEAN
      OBVIOUS
    <3> QED BY <3>1, <3>2, <3>3 DEF WtJob
  <2>3. /\ job.across = (wtGc # WtIdle \/ (merge /\ r \in wtUnsafe))
        /\ job.merge => job.base = wtManifest[job.revision]
    OBVIOUS
  <2> HIDE DEF job
  <2> QED BY <1>a, <2>1, <2>2, <2>3 DEF WtIInv, WtTypes, WtBaseInForce
<1>2. ASSUME NEW u \in WtPublisher, _store_value(u)
      PROVE  WtIInv'
  <2>1. /\ wtPub[u] \in WtJob /\ UNCHANGED <<wtManifest, wtGc>>
        /\ wtPub' = [wtPub EXCEPT ![u] = [wtPub[u] EXCEPT !.next = @ + 1]]
    BY <1>a, <1>2, SMT DEF _store_value, WtTypes, WtIdle
  <2>2. [wtPub[u] EXCEPT !.next = @ + 1] \in WtJob
    BY <2>1, JobFields
  <2>3. wtPub' \in [WtPublisher -> WtJob \cup {WtIdle}]
    BY <1>a, <2>1, <2>2 DEF WtTypes
  <2>4. ASSUME NEW v \in WtPublisher
        PROVE  /\ wtPub'[v] = WtIdle <=> wtPub[v] = WtIdle
               /\ wtPub[v] # WtIdle =>
                     /\ wtPub'[v].across = wtPub[v].across /\ wtPub'[v].merge = wtPub[v].merge
                     /\ wtPub'[v].stale = wtPub[v].stale /\ wtPub'[v].base = wtPub[v].base
                     /\ wtPub'[v].revision = wtPub[v].revision
    <3>1. CASE v = u
      BY <1>a, <2>1, <2>2, <3>1, IdleIsNoJob DEF WtTypes, WtJob
    <3>2. CASE v # u
      BY <1>a, <2>1, <3>2 DEF WtTypes
    <3> QED BY <3>1, <3>2
  <2> QED BY <1>a, <2>1, <2>3, <2>4, SMT DEF WtIInv, WtTypes, WtBaseInForce
<1>3. ASSUME NEW u \in WtPublisher, finalize(u)
      PROVE  WtIInv'
  <2> DEFINE job == wtPub[u]
  <2>1. job \in WtJob
    BY <1>a, <1>3, SMT DEF finalize, WtTypes, WtIdle
  <2>2. CASE wtPub' = [wtPub EXCEPT ![u] = WtIdle] /\ UNCHANGED <<wtManifest, wtGc>>
    BY <1>a, <2>2 DEF WtIInv, WtTypes, WtBaseInForce
  <2>3. CASE /\ wtManifest' = [wtManifest EXCEPT ![job.revision] =
                  [p \in DOMAIN job.base \cup {job.precision} |->
                      IF p = job.precision THEN Built[job.precision].slices ELSE job.base[p]]]
             /\ wtPub' = Finished(u, job.revision) /\ UNCHANGED wtGc
    <3>1. wtManifest' \in [WtRevision -> Manifests]
      BY <1>a, <2>1, <2>3, JobFields, ManifestClosure DEF WtTypes
    <3>2. \A r \in WtRevision : r # job.revision => wtManifest'[r] = wtManifest[r]
      BY <1>a, <2>3 DEF WtTypes
    <3>3. ASSUME NEW v \in WtPublisher
          PROVE  /\ wtPub'[v] \in WtJob \cup {WtIdle}
                 /\ wtPub'[v] # WtIdle =>
                      /\ wtPub[v] # WtIdle /\ wtPub'[v].across = wtPub[v].across
                      /\ wtPub'[v].merge = wtPub[v].merge /\ wtPub'[v].base = wtPub[v].base
                      /\ wtPub'[v].revision = wtPub[v].revision /\ wtPub[v] \in WtJob
                      /\ (wtPub'[v].merge /\ ~ wtPub'[v].stale) =>
                            wtPub[v].revision # job.revision /\ ~ wtPub[v].stale
      <4>1. wtPub'[v] = IF v = u THEN WtIdle
                        ELSE IF wtPub[v] # WtIdle /\ wtPub[v].revision = job.revision
                                  /\ wtPub[v].merge
                        THEN [wtPub[v] EXCEPT !.stale = TRUE] ELSE wtPub[v]
        BY <2>3 DEF Finished
      <4>2. wtPub[v] \in WtJob \cup {WtIdle}
        BY <1>a DEF WtTypes
      <4>3. CASE v = u
        BY <4>1, <4>3
      <4>4. CASE v # u /\ wtPub[v] # WtIdle /\ wtPub[v].revision = job.revision
                   /\ wtPub[v].merge
        <5>1. wtPub[v] \in WtJob /\ wtPub'[v] = [wtPub[v] EXCEPT !.stale = TRUE]
          BY <4>1, <4>2, <4>4
        <5>2. /\ wtPub'[v].across = wtPub[v].across /\ wtPub'[v].merge = wtPub[v].merge
              /\ wtPub'[v].base = wtPub[v].base /\ wtPub'[v].revision = wtPub[v].revision
              /\ wtPub'[v].stale
          BY <5>1 DEF WtJob
        <5> QED BY <4>4, <5>1, <5>2, JobFields
      <4>5. CASE v # u /\ ~ (wtPub[v] # WtIdle /\ wtPub[v].revision = job.revision
                               /\ wtPub[v].merge)
        BY <4>1, <4>2, <4>5
      <4> QED BY <4>3, <4>4, <4>5
    <3>4. wtPub' \in [WtPublisher -> WtJob \cup {WtIdle}]
      BY <2>3, <3>3 DEF Finished
    <3>5. WtBaseInForce'
      <4> SUFFICES ASSUME NEW v \in WtPublisher, wtPub'[v] # WtIdle, ~ wtPub'[v].across
                   PROVE  /\ wtGc' = WtIdle
                          /\ wtPub'[v].merge /\ ~ wtPub'[v].stale =>
                                wtPub'[v].base = wtManifest'[wtPub'[v].revision]
        BY DEF WtBaseInForce
      <4>1. wtPub[v].revision \in WtRevision
        BY <3>3, JobFields
      <4> QED BY <1>a, <2>3, <3>2, <3>3, <4>1, SMT DEF WtBaseInForce
    <3> QED BY <1>a, <2>3, <3>1, <3>4, <3>5 DEF WtIInv, WtTypes
  <2> QED BY <1>3, <2>2, <2>3 DEF finalize
<1>4. ASSUME NEW u \in WtPublisher, WtPublishFails(u)
      PROVE  WtIInv'
  BY <1>a, <1>4 DEF WtPublishFails, WtIInv, WtTypes, WtBaseInForce
<1>5. ASSUME NEW live \in SUBSET WtRevision, NEW readable \in SUBSET WtRevision,
             gc(live, readable)
      PROVE  WtIInv'
  <2>1. /\ UNCHANGED wtManifest
        /\ wtGc' = [pc |-> "sweep", values |-> wtValues \ LiveKeys(live, readable),
                    manifests |-> {r \in WtRevision \ live : wtManifest[r] # NoManifest}]
    BY <1>5 DEF gc
  <2>2. ASSUME NEW v \in WtPublisher
        PROVE  /\ wtPub'[v] \in WtJob \cup {WtIdle}
               /\ wtPub'[v] # WtIdle => wtPub'[v].across
    <3>1. wtPub'[v] = IF wtPub[v] = WtIdle THEN WtIdle ELSE [wtPub[v] EXCEPT !.across = TRUE]
      BY <1>5 DEF gc
    <3>2. CASE wtPub[v] # WtIdle
      <4>1. wtPub[v] \in WtJob
        BY <1>a, <3>2 DEF WtTypes
      <4>2. wtPub'[v] \in WtJob
        BY <3>1, <3>2, <4>1, JobFields
      <4>3. wtPub'[v].across
        BY <3>1, <3>2, <4>1 DEF WtJob
      <4> QED BY <4>2, <4>3
    <3> QED BY <3>1, <3>2
  <2>3. wtPub' \in [WtPublisher -> WtJob \cup {WtIdle}]
    BY <1>5, <2>2 DEF gc
  <2>4. WtTypes'
    BY <1>a, <2>1, <2>3 DEF WtTypes
  <2> QED BY <2>2, <2>4 DEF WtIInv, WtBaseInForce
<1>6. CASE gc_Sweep
  <2>1. wtGc # WtIdle /\ UNCHANGED wtPub
    BY <1>6 DEF gc_Sweep
  <2>2. \A v \in WtPublisher : wtPub[v] # WtIdle => wtPub[v].across
    BY <1>a, <2>1 DEF WtBaseInForce
  <2>3. \A r \in WtRevision : wtManifest'[r] \in Manifests
    BY <1>a, <1>6, ManifestClosure DEF gc_Sweep, WtTypes
  <2>4. wtManifest' \in [WtRevision -> Manifests]
    BY <1>a, <1>6, <2>3 DEF gc_Sweep, WtTypes
  <2>5. /\ wtGc' = [pc |-> "sweep", values |-> wtGc'.values, manifests |-> wtGc'.manifests]
        /\ wtGc'.manifests \subseteq WtRevision
    BY <1>a, <1>6, <2>1, SMT DEF gc_Sweep, WtTypes
  <2> QED BY <1>a, <2>1, <2>2, <2>4, <2>5 DEF WtIInv, WtTypes, WtBaseInForce
<1>7. CASE gc_Ends
  BY <1>b, <1>7 DEF gc_Ends
<1>8. ASSUME NEW r \in WtRevision, NEW p \in Precision, load(r, p)
      PROVE  WtIInv'
  BY <1>b, <1>8 DEF load
<1>9. CASE _reassemble
  BY <1>b, <1>9 DEF _reassemble
<1>10. CASE UNCHANGED wtVars
  BY <1>b, <1>10 DEF wtVars
<1> QED BY <1>1, <1>2, <1>3, <1>4, <1>5, <1>6, <1>7, <1>8, <1>9, <1>10 DEF WtNext

\* The inductive invariant of the merges is an invariant of the catalog.
THEOREM CatalogInductive == WtSpec => []WtIInv
<1>1. WtInit => WtIInv
  BY ManifestClosure, SMT DEF WtInit, WtIInv, WtTypes, WtBaseInForce
<1> QED BY <1>1, WtStepKept, PTL DEF WtSpec

\* A merge keeps the precisions on record, for any publishers, revisions and tensors, unless
\* another publisher of the revision or a collection came between its read and its write.
THEOREM CatalogMergeKeeps == WtSpec => WtMergeKeepsPrecisions
<1> DEFINE Merged(u) ==
      /\ wtPub[u] # WtIdle /\ wtPub[u].merge /\ ~ wtPub[u].stale /\ ~ wtPub[u].across
      /\ wtManifest'[wtPub[u].revision] # wtManifest[wtPub[u].revision]
      /\ wtPub'[u] = WtIdle
<1>1. WtIInv /\ [WtNext]_wtVars =>
        [\A u \in WtPublisher :
            Merged(u) => DOMAIN wtManifest[wtPub[u].revision]
                            \subseteq DOMAIN wtManifest'[wtPub[u].revision]]_wtVars
  <2> SUFFICES ASSUME WtIInv, [WtNext]_wtVars, NEW u \in WtPublisher, Merged(u)
               PROVE  DOMAIN wtManifest[wtPub[u].revision]
                        \subseteq DOMAIN wtManifest'[wtPub[u].revision]
    <3> HIDE DEF Merged
    <3> QED OBVIOUS
  <2>1. wtPub[u] \in WtJob /\ wtPub[u].base = wtManifest[wtPub[u].revision]
    BY DEF WtIInv, WtTypes, WtBaseInForce
  <2>2. finalize(u)
    <3>1. ~ UNCHANGED wtManifest /\ ~ UNCHANGED wtPub
      BY DEF WtIInv
    <3>2. \E v \in WtPublisher : finalize(v)
      BY <3>1 DEF WtNext, wtVars, publish, _store_value, WtPublishFails, gc, gc_Sweep, gc_Ends,
         load, _reassemble
    <3>3. PICK v \in WtPublisher : finalize(v)
      BY <3>2
    <3>4. wtPub' = Finished(v, wtPub[v].revision)
      BY <3>1, <3>3 DEF finalize
    <3>5. ASSUME v # u PROVE FALSE
      <4>1. wtPub'[u] \in {wtPub[u], [wtPub[u] EXCEPT !.stale = TRUE]}
        BY <3>4, <3>5 DEF Finished
      <4>2. wtPub'[u] \in WtJob
        BY <2>1, <4>1, JobFields
      <4> QED BY <4>2, IdleIsNoJob
    <3> QED BY <3>3, <3>5
  <2>3. wtManifest' = [wtManifest EXCEPT ![wtPub[u].revision] =
           [p \in DOMAIN wtPub[u].base \cup {wtPub[u].precision} |->
               IF p = wtPub[u].precision THEN Built[wtPub[u].precision].slices
               ELSE wtPub[u].base[p]]]
    BY <2>2 DEF finalize
  <2>4. wtPub[u].revision \in WtRevision /\ wtManifest \in [WtRevision -> Manifests]
    BY <2>1, JobFields DEF WtIInv, WtTypes
  <2> QED BY <2>1, <2>3, <2>4
<1> QED BY <1>1, CatalogInductive, PTL DEF WtSpec, WtMergeKeepsPrecisions

--------------------------------------------------------------------------------
\* What a publish has stored so far.
Stored(job) == {Built[job.precision].values[i] : i \in 1..(job.next - 1)}

\* The Values of a publish that no collection runs beside are there, and so are those of the
\* base it has read.
WtStoredStays ==
    \A u \in WtPublisher : wtPub[u] # WtIdle /\ ~ wtPub[u].across =>
        Stored(wtPub[u]) \subseteq wtValues /\ ManifestKeys(wtPub[u].base) \subseteq wtValues

\* A sweep has nothing of a live manifest left to delete.
WtSweepSparesLive ==
    wtGc # WtIdle =>
        \A r \in WtRevision \ wtUnsafe :
            /\ ManifestKeys(wtManifest[r]) \cap wtGc.values = {}
            /\ r \notin wtGc.manifests

\* The inductive invariant of the live manifests.
WtLiveInv == WtLiveManifestIsWhole /\ WtStoredStays /\ WtSweepSparesLive

\* The keys of a manifest are those of its precisions.
LEMMA KeysOfManifest ==
    /\ ManifestKeys(NoManifest) = {}
    /\ \A m \in Manifests, q \in Precision :
          ManifestKeys([p \in DOMAIN m \cup {q} |-> IF p = q THEN Built[q].slices ELSE m[p]])
             \subseteq ManifestKeys(m) \cup Keys(Built[q].slices)
<1>1. ManifestKeys(NoManifest) = {}
  BY DEF ManifestKeys, NoManifest
<1>2. ASSUME NEW m \in Manifests, NEW q \in Precision
      PROVE  ManifestKeys([p \in DOMAIN m \cup {q} |-> IF p = q THEN Built[q].slices ELSE m[p]])
                \subseteq ManifestKeys(m) \cup Keys(Built[q].slices)
  <2> DEFINE f == [p \in DOMAIN m \cup {q} |-> IF p = q THEN Built[q].slices ELSE m[p]]
  <2>1. \A p \in DOMAIN f : f[p] = Built[q].slices \/ (p \in DOMAIN m /\ f[p] = m[p])
    OBVIOUS
  <2> HIDE DEF f
  <2>2. ASSUME NEW k \in ManifestKeys(f) PROVE k \in ManifestKeys(m) \cup Keys(Built[q].slices)
    <3>1. PICK p \in DOMAIN f : k \in Keys(f[p])
      BY DEF ManifestKeys
    <3> QED BY <2>1, <3>1 DEF ManifestKeys
  <2> QED BY <2>2 DEF f
<1> QED BY <1>1, <1>2

\* The live manifests are kept whole by every step, given what the builder records.
LEMMA WtLiveKept ==
    ASSUME BuilderCovers, WtIInv, WtLiveInv, [WtNext]_wtVars
    PROVE  WtLiveInv'
<1>a. WtTypes /\ WtBaseInForce /\ WtLiveManifestIsWhole /\ WtStoredStays /\ WtSweepSparesLive
  BY DEF WtIInv, WtLiveInv
<1>b. ASSUME UNCHANGED <<wtValues, wtManifest, wtPub, wtUnsafe>>,
             UNCHANGED wtGc \/ wtGc' = WtIdle
      PROVE  WtLiveInv'
  BY <1>a, <1>b DEF WtLiveInv, WtLiveManifestIsWhole, WtStoredStays, WtSweepSparesLive
<1>1. ASSUME NEW u \in WtPublisher, NEW r \in WtRevision, NEW p \in Precision,
             NEW merge \in BOOLEAN, publish(u, r, p, merge)
      PROVE  WtLiveInv'
  <2> DEFINE job == [pc |-> "storing", revision |-> r, precision |-> p, next |-> 1,
                     merge |-> merge, base |-> IF merge THEN wtManifest[r] ELSE NoManifest,
                     stale |-> FALSE, across |-> wtGc # WtIdle \/ (merge /\ r \in wtUnsafe)]
  <2>1. wtPub' = [wtPub EXCEPT ![u] = job] /\ UNCHANGED <<wtValues, wtManifest, wtGc, wtUnsafe>>
    BY <1>1 DEF publish
  <2>2. ~ job.across => ManifestKeys(job.base) \subseteq wtValues
    BY <1>a, KeysOfManifest DEF WtLiveManifestIsWhole
  <2>3. Stored(job) = {}
    BY SMT DEF Stored
  <2> HIDE DEF job
  <2>4. WtStoredStays'
    BY <1>a, <2>1, <2>2, <2>3 DEF WtStoredStays, WtTypes
  <2> QED BY <1>a, <2>1, <2>4 DEF WtLiveInv, WtLiveManifestIsWhole, WtSweepSparesLive
<1>2. ASSUME NEW u \in WtPublisher, _store_value(u)
      PROVE  WtLiveInv'
  <2> DEFINE values == Built[wtPub[u].precision].values
  <2>1. /\ wtPub[u] \in WtJob /\ UNCHANGED <<wtManifest, wtGc, wtUnsafe>>
        /\ wtPub' = [wtPub EXCEPT ![u] = [wtPub[u] EXCEPT !.next = @ + 1]]
        /\ wtValues' = wtValues \cup {values[wtPub[u].next]}
    BY <1>a, <1>2, SMT DEF _store_value, WtTypes, WtIdle
  <2>2. /\ [wtPub[u] EXCEPT !.next = @ + 1].precision = wtPub[u].precision
        /\ [wtPub[u] EXCEPT !.next = @ + 1].next = wtPub[u].next + 1
        /\ [wtPub[u] EXCEPT !.next = @ + 1].across = wtPub[u].across
        /\ [wtPub[u] EXCEPT !.next = @ + 1].base = wtPub[u].base
    BY <2>1 DEF WtJob
  <2>3. Stored([wtPub[u] EXCEPT !.next = @ + 1]) \subseteq
           Stored(wtPub[u]) \cup {values[wtPub[u].next]}
    <3> DEFINE job == wtPub[u]
               after == [wtPub[u] EXCEPT !.next = @ + 1]
    <3>1. job.next \in Nat \ {0}
      BY <2>1, JobFields
    <3>2. after.precision = job.precision /\ after.next = job.next + 1
      BY <2>2
    <3> HIDE DEF job, after
    <3>3. \A i \in 1..(after.next - 1) : i \in 1..(job.next - 1) \/ i = job.next
      BY <3>1, <3>2, SMT
    <3>4. Stored(after) \subseteq Stored(job) \cup {Built[job.precision].values[job.next]}
      BY <3>2, <3>3 DEF Stored
    <3> QED BY <3>4 DEF job, after
  <2>4. WtStoredStays'
    <3> SUFFICES ASSUME NEW v \in WtPublisher, wtPub'[v] # WtIdle, ~ wtPub'[v].across
                 PROVE  /\ Stored(wtPub'[v]) \subseteq wtValues'
                        /\ ManifestKeys(wtPub'[v].base) \subseteq wtValues'
      BY DEF WtStoredStays
    <3>1. CASE v = u
      <4>1. wtPub'[u] = [wtPub[u] EXCEPT !.next = @ + 1]
        BY <1>a, <2>1 DEF WtTypes
      <4> HIDE DEF values
      <4>2. wtPub[u] # WtIdle /\ ~ wtPub[u].across
        BY <2>1, <2>2, <3>1, <4>1, IdleIsNoJob
      <4> QED BY <1>a, <2>1, <2>2, <2>3, <3>1, <4>1, <4>2, SMT DEF WtStoredStays
    <3>2. CASE v # u
      BY <1>a, <2>1, <3>2 DEF WtStoredStays, WtTypes
    <3> QED BY <3>1, <3>2
  <2>5. WtLiveManifestIsWhole'
    BY <1>a, <2>1 DEF WtLiveManifestIsWhole
  <2> QED BY <1>a, <2>1, <2>4, <2>5 DEF WtLiveInv, WtSweepSparesLive
<1>3. ASSUME NEW u \in WtPublisher, finalize(u)
      PROVE  WtLiveInv'
  <2> DEFINE job == wtPub[u]
             values == Built[job.precision].values
             merged == [p \in DOMAIN job.base \cup {job.precision} |->
                          IF p = job.precision THEN Built[job.precision].slices ELSE job.base[p]]
  <2>1. job \in WtJob /\ job.next > Len(values) /\ UNCHANGED <<wtValues, wtGc>>
    BY <1>a, <1>3, SMT DEF finalize, WtTypes, WtIdle
  <2>2. CASE wtPub' = [wtPub EXCEPT ![u] = WtIdle] /\ UNCHANGED <<wtManifest, wtUnsafe>>
    BY <1>a, <2>1, <2>2 DEF WtLiveInv, WtLiveManifestIsWhole, WtStoredStays, WtSweepSparesLive,
       WtTypes
  <2>3. CASE /\ wtManifest' = [wtManifest EXCEPT ![job.revision] = merged]
             /\ wtPub' = Finished(u, job.revision)
             /\ wtUnsafe' = IF job.across THEN wtUnsafe \cup {job.revision}
                            ELSE wtUnsafe \ {job.revision}
    <3>1. /\ job.revision \in WtRevision /\ job.precision \in Precision /\ job.base \in Manifests
          /\ job.next \in Nat \ {0} /\ job # WtIdle
      BY <2>1, JobFields, IdleIsNoJob
    <3>2. ~ job.across => wtGc = WtIdle /\ ManifestKeys(merged) \subseteq wtValues
      <4> SUFFICES ASSUME ~ job.across
                   PROVE  wtGc = WtIdle /\ ManifestKeys(merged) \subseteq wtValues
        OBVIOUS
      <4>1. wtGc = WtIdle
        BY <1>a, <3>1 DEF WtBaseInForce
      <4>2. Stored(job) \subseteq wtValues /\ ManifestKeys(job.base) \subseteq wtValues
        BY <1>a, <3>1 DEF WtStoredStays
      <4>3. /\ Len(values) \in Nat /\ DOMAIN values = 1..Len(values)
            /\ Keys(Built[job.precision].slices) \subseteq {values[i] : i \in DOMAIN values}
        BY <3>1, BuilderCovers DEF BuilderCovers
      <4>4. {values[i] : i \in DOMAIN values} \subseteq Stored(job)
        BY <2>1, <3>1, <4>3, SMT DEF Stored
      <4>5. ManifestKeys(merged) \subseteq
               ManifestKeys(job.base) \cup Keys(Built[job.precision].slices)
        BY <3>1, KeysOfManifest
      <4> HIDE DEF merged, values
      <4> QED BY <4>1, <4>2, <4>3, <4>4, <4>5
    <3> HIDE DEF merged, values
    <3>3. \A r \in WtRevision : wtManifest'[r] = IF r = job.revision THEN merged ELSE wtManifest[r]
      BY <1>a, <2>3 DEF WtTypes
    <3>4. \A r \in WtRevision \ wtUnsafe' :
             IF r = job.revision THEN ~ job.across ELSE r \notin wtUnsafe
      BY <2>3
    <3>5. WtLiveManifestIsWhole'
      <4> SUFFICES ASSUME NEW r \in WtRevision \ wtUnsafe'
                   PROVE  ManifestKeys(wtManifest'[r]) \subseteq wtValues
        BY <2>1 DEF WtLiveManifestIsWhole
      <4>1. CASE r = job.revision
        BY <3>2, <3>3, <3>4, <4>1
      <4>2. CASE r # job.revision
        BY <1>a, <3>3, <3>4, <4>2 DEF WtLiveManifestIsWhole
      <4> QED BY <4>1, <4>2
    <3>6. WtSweepSparesLive'
      <4> SUFFICES ASSUME wtGc # WtIdle, NEW r \in WtRevision \ wtUnsafe'
                   PROVE  /\ ManifestKeys(wtManifest'[r]) \cap wtGc.values = {}
                          /\ r \notin wtGc.manifests
        BY <2>1 DEF WtSweepSparesLive
      <4>1. r # job.revision /\ r \notin wtUnsafe
        BY <3>2, <3>4
      <4>2. wtManifest'[r] = wtManifest[r]
        BY <3>3, <4>1
      <4> QED BY <1>a, <4>1, <4>2 DEF WtSweepSparesLive
    <3>7. WtStoredStays'
      <4> SUFFICES ASSUME NEW v \in WtPublisher, wtPub'[v] # WtIdle, ~ wtPub'[v].across
                   PROVE  /\ Stored(wtPub'[v]) \subseteq wtValues
                          /\ ManifestKeys(wtPub'[v].base) \subseteq wtValues
        BY <2>1 DEF WtStoredStays
      <4>1. wtPub'[v] \in {wtPub[v], [wtPub[v] EXCEPT !.stale = TRUE]} /\ wtPub[v] \in WtJob
        <5>1. wtPub'[v] = IF v = u THEN WtIdle
                          ELSE IF wtPub[v] # WtIdle /\ wtPub[v].revision = job.revision
                                    /\ wtPub[v].merge
                          THEN [wtPub[v] EXCEPT !.stale = TRUE] ELSE wtPub[v]
          BY <2>3 DEF Finished
        <5>2. wtPub[v] \in WtJob \cup {WtIdle}
          BY <1>a DEF WtTypes
        <5> QED BY <5>1, <5>2
      <4>2. /\ wtPub'[v].across = wtPub[v].across /\ wtPub'[v].base = wtPub[v].base
            /\ wtPub'[v].precision = wtPub[v].precision /\ wtPub'[v].next = wtPub[v].next
        BY <4>1 DEF WtJob
      <4>3. Stored(wtPub'[v]) = Stored(wtPub[v])
        BY <4>2 DEF Stored
      <4>4. wtPub[v] # WtIdle
        BY <4>1, IdleIsNoJob
      <4> QED BY <1>a, <4>2, <4>3, <4>4 DEF WtStoredStays
    <3> QED BY <3>5, <3>6, <3>7 DEF WtLiveInv
  <2> QED BY <1>3, <2>2, <2>3 DEF finalize
<1>4. ASSUME NEW u \in WtPublisher, WtPublishFails(u)
      PROVE  WtLiveInv'
  BY <1>a, <1>4 DEF WtPublishFails, WtLiveInv, WtLiveManifestIsWhole, WtStoredStays,
     WtSweepSparesLive, WtTypes
<1>5. ASSUME NEW live \in SUBSET WtRevision, NEW readable \in SUBSET WtRevision,
             gc(live, readable)
      PROVE  WtLiveInv'
  <2> DEFINE doomed == {r \in WtRevision \ live : wtManifest[r] # NoManifest}
  <2>1. /\ UNCHANGED <<wtValues, wtManifest>> /\ wtUnsafe' = wtUnsafe \cup doomed
        /\ wtGc' = [pc |-> "sweep", values |-> wtValues \ LiveKeys(live, readable),
                    manifests |-> doomed]
        /\ wtPub' = [u \in WtPublisher |-> IF wtPub[u] = WtIdle THEN WtIdle
                                           ELSE [wtPub[u] EXCEPT !.across = TRUE]]
        /\ _mark(live, readable)
    BY <1>5 DEF gc
  <2>2. WtLiveManifestIsWhole'
    BY <1>a, <2>1 DEF WtLiveManifestIsWhole
  <2>3. WtStoredStays'
    <3> SUFFICES ASSUME NEW v \in WtPublisher, wtPub'[v] # WtIdle, ~ wtPub'[v].across
                 PROVE  FALSE
      BY DEF WtStoredStays
    <3>1. wtPub[v] \in WtJob /\ wtPub'[v] = [wtPub[v] EXCEPT !.across = TRUE]
      BY <1>a, <2>1 DEF WtTypes
    <3> QED BY <3>1 DEF WtJob
  <2>4. ASSUME NEW r \in WtRevision \ wtUnsafe'
        PROVE  /\ ManifestKeys(wtManifest[r]) \cap (wtValues \ LiveKeys(live, readable)) = {}
               /\ r \notin doomed
    <3>1. r \notin doomed
      BY <2>1
    <3>2. CASE wtManifest[r] = NoManifest
      BY <3>1, <3>2, KeysOfManifest
    <3>3. CASE r \in live
      <4>1. r \in live \cap readable
        BY <2>1, <3>3 DEF _mark
      <4>2. ManifestKeys(wtManifest[r]) \subseteq LiveKeys(live, readable)
        BY <4>1 DEF LiveKeys
      <4> QED BY <3>1, <4>2
    <3> QED BY <3>1, <3>2, <3>3
  <2>5. WtSweepSparesLive'
    BY <2>1, <2>4 DEF WtSweepSparesLive
  <2> QED BY <2>2, <2>3, <2>5 DEF WtLiveInv
<1>6. CASE gc_Sweep
  <2>1. wtGc # WtIdle /\ UNCHANGED <<wtPub, wtUnsafe>>
    BY <1>6 DEF gc_Sweep
  <2>2. WtStoredStays'
    BY <1>a, <2>1 DEF WtBaseInForce, WtStoredStays
  <2>3. ASSUME NEW value \in wtGc.values, wtValues' = wtValues \ {value},
               wtGc' = [wtGc EXCEPT !.values = @ \ {value}], UNCHANGED wtManifest
        PROVE  WtLiveManifestIsWhole' /\ WtSweepSparesLive'
    <3>1. wtGc'.values = wtGc.values \ {value} /\ wtGc'.manifests = wtGc.manifests
      BY <1>a, <2>1, <2>3 DEF WtTypes
    <3>2. WtLiveManifestIsWhole'
      BY <1>a, <2>1, <2>3 DEF WtLiveManifestIsWhole, WtSweepSparesLive
    <3> QED BY <1>a, <2>1, <2>3, <3>1, <3>2 DEF WtSweepSparesLive
  <2>4. ASSUME NEW r \in wtGc.manifests, wtManifest' = [wtManifest EXCEPT ![r] = NoManifest],
               wtGc' = [wtGc EXCEPT !.manifests = @ \ {r}], UNCHANGED wtValues
        PROVE  WtLiveManifestIsWhole' /\ WtSweepSparesLive'
    <3>1. wtGc'.values = wtGc.values /\ wtGc'.manifests = wtGc.manifests \ {r}
      BY <1>a, <2>1, <2>4 DEF WtTypes
    <3>2. \A q \in WtRevision \ wtUnsafe : wtManifest'[q] = wtManifest[q]
      BY <1>a, <2>1, <2>4 DEF WtTypes, WtSweepSparesLive
    <3> QED BY <1>a, <2>1, <2>4, <3>1, <3>2 DEF WtLiveManifestIsWhole, WtSweepSparesLive
  <2>5. WtLiveManifestIsWhole' /\ WtSweepSparesLive'
    BY <1>6, <2>3, <2>4 DEF gc_Sweep
  <2> QED BY <2>2, <2>5 DEF WtLiveInv
<1>7. CASE gc_Ends
  BY <1>b, <1>7 DEF gc_Ends
<1>8. ASSUME NEW r \in WtRevision, NEW p \in Precision, load(r, p)
      PROVE  WtLiveInv'
  BY <1>b, <1>8 DEF load
<1>9. CASE _reassemble
  BY <1>b, <1>9 DEF _reassemble
<1>10. CASE UNCHANGED wtVars
  BY <1>b, <1>10 DEF wtVars
<1> QED BY <1>1, <1>2, <1>3, <1>4, <1>5, <1>6, <1>7, <1>8, <1>9, <1>10 DEF WtNext

\* No collection deletes a Value of a live manifest, for any publishers, revisions, collections
\* and interleaving of them, as long as the builder records only keys of Values it stores.
THEOREM CatalogLiveManifests ==
    ASSUME BuilderCovers
    PROVE  WtSpec => []WtLiveManifestIsWhole
<1>1. WtInit => WtLiveInv
  BY KeysOfManifest DEF WtInit, WtLiveInv, WtLiveManifestIsWhole, WtStoredStays,
     WtSweepSparesLive
<1>2. WtIInv /\ WtLiveInv /\ [WtNext]_wtVars => WtLiveInv'
  BY BuilderCovers, WtLiveKept
<1>3. WtLiveInv => WtLiveManifestIsWhole
  BY DEF WtLiveInv
<1> QED BY <1>1, <1>2, <1>3, CatalogInductive, PTL DEF WtSpec

--------------------------------------------------------------------------------
\* The loader has the slices of a publish, and only Values that are their keys.
WtLoadInv ==
    \/ wtLoad = WtIdle
    \/ /\ wtLoad.pc = "retrieving" /\ wtLoad.precision \in Precision
       /\ wtLoad = [pc |-> "retrieving", precision |-> wtLoad.precision,
                    slices |-> wtLoad.slices, retrieved |-> wtLoad.retrieved]
       /\ wtLoad.slices = Built[wtLoad.precision].slices
       /\ \A k \in DOMAIN wtLoad.retrieved : wtLoad.retrieved[k] = k
    \/ /\ wtLoad.pc = "loaded" /\ wtLoad.tensors = WtSource[wtLoad.precision]

\* Values that are their keys are as good as the keys.
LEMMA ReassembledFromKeys ==
    ASSUME NEW slices, NEW f, \A k \in Keys(slices) : f[k] = k
    PROVE  Reassembled(slices, f) = Reassembled(slices, [k \in Keys(slices) |-> k])
<1> DEFINE g == [k \in Keys(slices) |-> k]
<1>1. \A t \in DOMAIN slices : \A i \in DOMAIN slices[t] :
         slices[t][i].key \in Keys(slices)
  <2> SUFFICES ASSUME NEW t \in DOMAIN slices, NEW i \in DOMAIN slices[t]
               PROVE  slices[t][i].key \in Keys(slices)
    OBVIOUS
  <2> DEFINE of(q) == {slices[q][j].key : j \in DOMAIN slices[q]}
  <2>1. slices[t][i].key \in of(t)
    OBVIOUS
  <2>2. of(t) \in {of(q) : q \in DOMAIN slices}
    <3> HIDE DEF of
    <3> QED OBVIOUS
  <2> QED BY <2>1, <2>2 DEF Keys
<1>2. \A k \in Keys(slices) : g[k] = k
  OBVIOUS
<1> HIDE DEF g
<1>3. ASSUME NEW t \in DOMAIN slices
      PROVE  [i \in DOMAIN slices[t] |-> Window(f[slices[t][i].key], slices[t][i])]
               = [i \in DOMAIN slices[t] |-> Window(g[slices[t][i].key], slices[t][i])]
  <2>1. ASSUME NEW i \in DOMAIN slices[t]
        PROVE  Window(f[slices[t][i].key], slices[t][i])
                 = Window(g[slices[t][i].key], slices[t][i])
    <3>1. PICK k \in Keys(slices) : k = slices[t][i].key
      BY <1>1
    <3>2. f[k] = g[k]
      BY <1>2
    <3> QED BY <3>1, <3>2
  <2> QED BY <2>1
<1> QED BY <1>3 DEF Reassembled, g

\* What is loaded is what was published, step by step.
LEMMA WtLoadKept ==
    ASSUME BuilderReassembles, WtIInv, WtLoadInv, [WtNext]_wtVars
    PROVE  WtLoadInv'
<1>1. ASSUME NEW r \in WtRevision, NEW p \in Precision, load(r, p)
      PROVE  WtLoadInv'
  <2>1. CASE p \in DOMAIN wtManifest[r]
    <3>1. wtLoad' = [pc |-> "retrieving", precision |-> p, slices |-> wtManifest[r][p],
                     retrieved |-> NoManifest]
      BY <1>1, <2>1 DEF load
    <3>2. wtManifest[r][p] = Built[p].slices
      BY <2>1, ManifestClosure DEF WtIInv, WtTypes
    <3>3. DOMAIN NoManifest = {}
      BY DEF NoManifest
    <3> QED BY <3>1, <3>2, <3>3 DEF WtLoadInv
  <2>2. CASE p \notin DOMAIN wtManifest[r]
    BY <1>1, <2>2 DEF load, WtLoadInv
  <2> QED BY <2>1, <2>2
<1>2. CASE _reassemble
  <2> DEFINE missing == Keys(wtLoad.slices) \ DOMAIN wtLoad.retrieved
             key == CHOOSE k \in missing : TRUE
             with == [k \in DOMAIN wtLoad.retrieved \cup {key} |->
                        IF k = key THEN key ELSE wtLoad.retrieved[k]]
  <2>1. /\ wtLoad.pc = "retrieving" /\ wtLoad.precision \in Precision
        /\ wtLoad = [pc |-> "retrieving", precision |-> wtLoad.precision,
                     slices |-> wtLoad.slices, retrieved |-> wtLoad.retrieved]
        /\ wtLoad.slices = Built[wtLoad.precision].slices
        /\ \A k \in DOMAIN wtLoad.retrieved : wtLoad.retrieved[k] = k
    BY <1>2, SMT DEF _reassemble, WtLoadInv, WtIdle
  <2>2. \/ wtLoad' = WtIdle
        \/ wtLoad' = [wtLoad EXCEPT !.retrieved = with]
        \/ /\ missing = {key}
           /\ wtLoad' = [pc |-> "loaded", precision |-> wtLoad.precision,
                         tensors |-> Reassembled(wtLoad.slices, with)]
    <3> DEFINE got(value) == [k \in DOMAIN wtLoad.retrieved \cup {key} |->
                                 IF k = key THEN value ELSE wtLoad.retrieved[k]]
    <3>1. PICK value \in {key, Damaged(key)} :
             wtLoad' = IF ~ (key \in wtValues /\ _get_verified(key, value)) THEN WtIdle
                       ELSE IF missing # {key} THEN [wtLoad EXCEPT !.retrieved = got(value)]
                       ELSE [pc |-> "loaded", precision |-> wtLoad.precision,
                             tensors |-> Reassembled(wtLoad.slices, got(value))]
      BY <1>2 DEF _reassemble
    <3>2. with = got(key)
      OBVIOUS
    <3> HIDE DEF with, got, missing, key
    <3>3. CASE value = key
      BY <3>1, <3>2, <3>3
    <3>4. CASE value # key
      BY <3>1, <3>4 DEF _get_verified
    <3> QED BY <3>3, <3>4
  <2>3. \A k \in DOMAIN with : with[k] = k
    BY <2>1
  <2>4. missing = {key} => \A k \in Keys(wtLoad.slices) : with[k] = k
    BY <2>1
  <2> HIDE DEF with, missing, key
  <2>5. CASE wtLoad' = [wtLoad EXCEPT !.retrieved = with]
    <3>1. wtLoad' = [pc |-> "retrieving", precision |-> wtLoad.precision,
                     slices |-> wtLoad.slices, retrieved |-> with]
      BY <2>1, <2>5
    <3> QED BY <2>1, <2>3, <3>1 DEF WtLoadInv
  <2>6. CASE /\ missing = {key}
             /\ wtLoad' = [pc |-> "loaded", precision |-> wtLoad.precision,
                           tensors |-> Reassembled(wtLoad.slices, with)]
    <3>1. Reassembled(wtLoad.slices, with)
             = Reassembled(wtLoad.slices, [k \in Keys(wtLoad.slices) |-> k])
      BY <2>4, <2>6, ReassembledFromKeys
    <3>2. Reassembled(wtLoad.slices, with) = WtSource[wtLoad.precision]
      BY <2>1, <3>1, BuilderReassembles DEF BuilderReassembles
    <3> QED BY <2>6, <3>2 DEF WtLoadInv
  <2> QED BY <2>2, <2>5, <2>6 DEF WtLoadInv
<1>3. ASSUME UNCHANGED wtLoad PROVE WtLoadInv'
  BY <1>3 DEF WtLoadInv
<1> QED BY <1>1, <1>2, <1>3 DEF WtNext, wtVars, publish, _store_value, finalize,
      WtPublishFails, gc, gc_Sweep, gc_Ends

\* A load that succeeds returns the tensors as published, whatever was swept, damaged, merged
\* or published again meanwhile, as long as the builder's slices of its Values are the tensors.
THEOREM CatalogLoads ==
    ASSUME BuilderReassembles
    PROVE  WtSpec => []WtLoadsWhatWasPublished
<1>1. WtInit => WtLoadInv
  BY DEF WtInit, WtLoadInv
<1>2. WtIInv /\ WtLoadInv /\ [WtNext]_wtVars => WtLoadInv'
  BY BuilderReassembles, WtLoadKept
<1>3. WtLoadInv => WtLoadsWhatWasPublished
  BY SMT DEF WtLoadInv, WtLoadsWhatWasPublished, WtIdle
<1> QED BY <1>1, <1>2, <1>3, CatalogInductive, PTL DEF WtSpec

--------------------------------------------------------------------------------
(**********************************************************************************)
(* The bulk cache is safe for any number of slots, handles and callers.           *)
(**********************************************************************************)
\* A used slot's handle is registered for the slot's key, and for no other slot.
SlotsAgree ==
    /\ \A i \in Slots \ EmptySlots :
          /\ bulk_cache[i].key \in Key
          /\ registered[bulk_cache[i].handle] = bulk_cache[i].key
    /\ \A i, j \in Slots \ EmptySlots :
          i # j => bulk_cache[i].handle # bulk_cache[j].handle

\* A held handle was acquired for something.
HeldIsWanted == \A x \in Holder : held[x] # NoHandle => wanted[x] \in Region

\* A handle that no slot has is one holder's own.
UncachedIsOwn ==
    \A x, y \in Holder :
        (held[x] # NoHandle /\ held[x] = held[y] /\ x # y)
            => \E i \in Slots : bulk_cache[i].handle = held[x]

\* The inductive invariant.
IInv ==
    /\ BcTypeOK
    /\ SlotsAgree
    /\ HeldIsWanted
    /\ UncachedIsOwn
    /\ HeldIsRegistered
    /\ RefsCountHolders

\* No registration is the absent one, and a cached key is a region.
LEMMA NoKeyIsNoRegion == NoKey \notin Region /\ Key \subseteq Region
<1>1. ASSUME NEW k \in Key PROVE k # NoKey
  <2>1. PICK b \in Buffer, f \in Flags : k = <<b, f>>
    BY SMT DEF Key
  <2> QED BY <2>1 DEF NoKey
<1>2. \A d \in DmaBuf : <<d>> # NoKey
  BY DEF NoKey
<1> QED BY <1>1, <1>2 DEF Region

\* A handle Mercury is not using is in no slot and held by no one.
LEMMA FreshIsFree ==
    ASSUME IInv, NEW h \in Fresh
    PROVE  /\ h \in Handle /\ h # NoHandle
           /\ \A i \in Slots : bulk_cache[i].handle # h
           /\ \A x \in Holder : held[x] # h
<1>1. h \in Handle /\ h # NoHandle /\ registered[h] = NoKey
  BY CacheAssumption DEF Fresh
<1>2. \A i \in Slots : bulk_cache[i].handle # h
  BY <1>1, NoKeyIsNoRegion DEF IInv, SlotsAgree, EmptySlots
<1>3. \A x \in Holder : held[x] # h
  BY <1>1, NoKeyIsNoRegion DEF IInv, HeldIsWanted, HeldIsRegistered
<1> QED BY <1>1, <1>2, <1>3

\* How the sets of holders are counted.  The steps take it as a hypothesis; it is
\* proved below, where the facts about finite sets are.
Counting ==
    /\ Cardinality({}) = 0
    /\ \A S \in SUBSET Holder :
          /\ Cardinality(S) \in Nat
          /\ Cardinality(S) = 0 => S = {}
          /\ \A x \in Holder \ S : Cardinality(S \cup {x}) = Cardinality(S) + 1
          /\ \A x \in S : Cardinality(S \ {x}) = Cardinality(S) - 1

\* No one holds the handle of an unreferenced slot.
LEMMA UnreferencedIsUnheld ==
    ASSUME Counting, IInv, NEW i \in Evictable
    PROVE  \A x \in Holder : held[x] # bulk_cache[i].handle
<1>1. i \in Slots \ EmptySlots /\ bulk_cache[i].refs = 0
  BY DEF Evictable
<1>2. Cardinality(HoldersOf(bulk_cache[i].handle)) = 0
  BY <1>1 DEF IInv, RefsCountHolders
<1>3. HoldersOf(bulk_cache[i].handle) = {}
  BY <1>2 DEF Counting, HoldersOf
<1> QED BY <1>3 DEF HoldersOf

\* A front starts with an empty cache and no holder.
LEMMA InitIInv == BcInit => IInv
<1> SUFFICES ASSUME BcInit PROVE IInv
  OBVIOUS
<1>1. EmptySlots = Slots
  BY DEF BcInit, EmptySlots, Slots
<1>2. BcTypeOK
  BY DEF BcInit, BcTypeOK, Entry
<1> QED BY <1>1, <1>2 DEF BcInit, IInv, SlotsAgree, HeldIsWanted, HeldIsRegistered,
                          UncachedIsOwn, RefsCountHolders

--------------------------------------------------------------------------------
\* nkvx_bulk_acquire on a slot that has the key: one more reference, one more holder.
LEMMA HitIInv ==
    ASSUME Counting, IInv, NEW x \in Holder, NEW k \in Key, AcquireHit(x, k)
    PROVE  IInv'
<1> USE DEF IInv
<1>1. PICK i \in Hits(k) :
        /\ bulk_cache' = [bulk_cache EXCEPT ![i] =
                              [key |-> @.key, handle |-> @.handle,
                               refs |-> @.refs + 1, used_seq |-> bulk_seq + 1]]
        /\ Give(x, bulk_cache[i].handle, k)
  BY DEF AcquireHit
<1>0. PICK h : h = bulk_cache[i].handle
  OBVIOUS
<1>2. /\ i \in Slots \ EmptySlots /\ h # NoHandle /\ h \in Handle
      /\ bulk_cache[i].key = k /\ registered[h] = k /\ k \in Region
  BY <1>0, NoKeyIsNoRegion DEF Hits, EmptySlots, SlotsAgree, BcTypeOK, Entry
<1>3. held[x] = NoHandle /\ bulk_seq' = bulk_seq + 1 /\ registered' = registered
  BY DEF AcquireHit
<1>4. \A j \in Slots : /\ bulk_cache'[j].handle = bulk_cache[j].handle
                       /\ bulk_cache'[j].key = bulk_cache[j].key
                       /\ bulk_cache'[j].refs =
                            IF j = i THEN bulk_cache[j].refs + 1 ELSE bulk_cache[j].refs
  BY <1>1 DEF BcTypeOK, Entry
<1>5. BcTypeOK'
  BY <1>1, <1>2, <1>3, SMT DEF BcTypeOK, Entry, Give
<1>6. EmptySlots' = EmptySlots
  BY <1>4 DEF EmptySlots
<1>7. SlotsAgree'
  BY <1>3, <1>4, <1>6, SMT DEF SlotsAgree
<1>8. held' = [held EXCEPT ![x] = h] /\ wanted' = [wanted EXCEPT ![x] = k]
  BY <1>0, <1>1 DEF Give
<1>9. HeldIsWanted' /\ HeldIsRegistered'
  BY <1>2, <1>3, <1>8 DEF HeldIsWanted, HeldIsRegistered, BcTypeOK
<1>own. UncachedIsOwn'
  BY <1>0, <1>2, <1>4, <1>8, SMT DEF UncachedIsOwn, BcTypeOK
<1>10. HoldersOf(h)' = HoldersOf(h) \cup {x} /\ x \notin HoldersOf(h)
  BY <1>2, <1>3, <1>8 DEF HoldersOf, BcTypeOK
<1>11. Cardinality(HoldersOf(h)') = Cardinality(HoldersOf(h)) + 1
  <2>1. HoldersOf(h) \in SUBSET Holder /\ x \in Holder \ HoldersOf(h)
    BY <1>10 DEF HoldersOf
  <2> QED BY <1>10, <2>1 DEF Counting
<1>12. ASSUME NEW j \in Slots \ EmptySlots, j # i
       PROVE  HoldersOf(bulk_cache[j].handle)' = HoldersOf(bulk_cache[j].handle)
  <2>1. bulk_cache[j].handle # h /\ bulk_cache[j].handle # NoHandle
    BY <1>0, <1>2, <1>12 DEF SlotsAgree, EmptySlots
  <2> QED BY <2>1, <1>3, <1>4, <1>8, <1>12 DEF HoldersOf, BcTypeOK
<1>13. RefsCountHolders'
  <2> SUFFICES ASSUME NEW j \in Slots \ EmptySlots
               PROVE  bulk_cache'[j].refs = Cardinality(HoldersOf(bulk_cache[j].handle)')
    BY <1>6 DEF RefsCountHolders, HoldersOf
  <2>1. CASE j = i
    <3>1. HoldersOf(bulk_cache[i].handle)' = HoldersOf(h)'
      BY <1>0, <1>2, <1>4 DEF HoldersOf
    <3> QED BY <2>1, <3>1, <1>0, <1>4, <1>11 DEF RefsCountHolders
  <2>2. CASE j # i
    BY <2>2, <1>4, <1>12 DEF RefsCountHolders
  <2> QED BY <2>1, <2>2
<1> QED BY <1>5, <1>7, <1>9, <1>13, <1>own

\* What a holder that held nothing and receives h changes in HoldersOf.
LEMMA GiveHolders ==
    ASSUME IInv, NEW x \in Holder, NEW h \in Handle, NEW k, held[x] = NoHandle,
           Give(x, h, k)
    PROVE  /\ HoldersOf(h)' = HoldersOf(h) \cup {x} /\ x \notin HoldersOf(h)
           /\ \A g \in Handle : g # h => HoldersOf(g)' = HoldersOf(g)
BY CacheAssumption, SMT DEF IInv, BcTypeOK, Give, HoldersOf

\* nkvx_bulk_acquire into an empty or an evicted slot: the evicted handle has no holder.
LEMMA MissIInv ==
    ASSUME Counting, IInv, NEW x \in Holder, NEW k \in Key, AcquireMiss(x, k)
    PROVE  IInv'
<1> USE DEF IInv
<1>1. PICK h \in Fresh, i \in Targets :
        /\ bulk_cache' = [bulk_cache EXCEPT ![i] =
                            [key |-> k, handle |-> h, refs |-> 1,
                             used_seq |-> bulk_seq + 1]]
        /\ registered' = [g \in Handle |->
                            IF g = h THEN k
                            ELSE IF g = bulk_cache[i].handle THEN NoKey
                            ELSE registered[g]]
        /\ Give(x, h, k)
  BY DEF AcquireMiss
<1>2. held[x] = NoHandle /\ bulk_seq' = bulk_seq + 1
  BY DEF AcquireMiss
<1>3. i \in Slots /\ (i \in EmptySlots \/ i \in Evictable)
  BY DEF Targets, Victims, EmptySlots, Evictable
<1>4. /\ h \in Handle /\ h # NoHandle
      /\ \A j \in Slots : bulk_cache[j].handle # h
      /\ \A y \in Holder : held[y] # h
  BY FreshIsFree
<1>5. k \in Region /\ k # NoKey
  BY NoKeyIsNoRegion
<1>6. BcTypeOK'
  BY <1>1, <1>2, <1>3, <1>4, <1>5, SMT DEF BcTypeOK, Entry, Give
<1>7. /\ \A j \in Slots \ {i} : bulk_cache'[j] = bulk_cache[j]
      /\ bulk_cache'[i].handle = h /\ bulk_cache'[i].key = k /\ bulk_cache'[i].refs = 1
  BY <1>1, <1>3 DEF BcTypeOK
<1>8. EmptySlots' = EmptySlots \ {i}
  BY <1>3, <1>4, <1>7 DEF EmptySlots
<1>9. ASSUME NEW j \in Slots \ EmptySlots, j # i
      PROVE  bulk_cache[j].handle \in Handle /\ bulk_cache[j].handle # bulk_cache[i].handle
  BY <1>3, <1>9 DEF SlotsAgree, EmptySlots, Evictable, BcTypeOK, Entry
<1>10. SlotsAgree'
  <2>1. ASSUME NEW j \in Slots \ EmptySlots', j # i
        PROVE  /\ bulk_cache'[j].key \in Key /\ bulk_cache'[j].handle # h
               /\ registered'[bulk_cache'[j].handle] = bulk_cache'[j].key
    BY <1>1, <1>4, <1>7, <1>8, <1>9, <2>1, SMT DEF SlotsAgree
  <2>2. registered'[h] = k
    BY <1>1, <1>4
  <2>3. \A j \in Slots \ EmptySlots' : /\ bulk_cache'[j].key \in Key
                                       /\ registered'[bulk_cache'[j].handle]
                                            = bulk_cache'[j].key
    BY <1>7, <2>1, <2>2
  <2>4. ASSUME NEW j \in Slots \ EmptySlots', NEW l \in Slots \ EmptySlots', j # l
        PROVE  bulk_cache'[j].handle # bulk_cache'[l].handle
    BY <1>7, <1>8, <2>1, <2>4, SMT DEF SlotsAgree
  <2> QED BY <2>3, <2>4 DEF SlotsAgree
<1>11. \A y \in Holder : held[y] # NoHandle => held[y] # bulk_cache[i].handle
  BY <1>3, UnreferencedIsUnheld DEF EmptySlots
<1>12. HeldIsWanted' /\ HeldIsRegistered'
  BY <1>1, <1>2, <1>4, <1>5, <1>11, SMT DEF HeldIsWanted, HeldIsRegistered, BcTypeOK, Give
<1>own. UncachedIsOwn'
  BY <1>1, <1>2, <1>3, <1>4, <1>7, <1>11, SMT DEF UncachedIsOwn, BcTypeOK, Give
<1>13. RefsCountHolders'
  <2>1. HoldersOf(h)' = {} \cup {x}
    <3>1. IInv /\ Give(x, h, k) /\ held[x] = NoHandle /\ h \in Handle
      BY <1>1, <1>2, <1>4
    <3>2. HoldersOf(h)' = HoldersOf(h) \cup {x}
      BY <3>1, GiveHolders
    <3>3. HoldersOf(h) = {}
      BY <1>4 DEF HoldersOf
    <3> QED BY <3>2, <3>3
  <2>2. Cardinality(HoldersOf(h)') = 1
    <3>1. Cardinality({} \cup {x}) = 0 + 1
      BY DEF Counting
    <3> QED BY <2>1, <3>1, SMT
  <2>3. ASSUME NEW j \in Slots \ EmptySlots', j # i
        PROVE  bulk_cache'[j].refs = Cardinality(HoldersOf(bulk_cache[j].handle)')
    <3>1. PICK g : g = bulk_cache[j].handle
      OBVIOUS
    <3>2. g \in Handle /\ g # h /\ j \in Slots \ EmptySlots
      BY <1>4, <1>8, <1>9, <2>3, <3>1
    <3>3. HoldersOf(g)' = HoldersOf(g)
      BY <3>2, <1>1, <1>2, <1>4, GiveHolders
    <3>4. HoldersOf(bulk_cache[j].handle)' = HoldersOf(g)'
      BY <3>1, <1>7, <2>3 DEF HoldersOf
    <3> QED BY <3>1, <3>2, <3>3, <3>4, <1>7, <2>3 DEF RefsCountHolders
  <2>4. HoldersOf(bulk_cache[i].handle)' = HoldersOf(h)'
    BY <1>7 DEF HoldersOf
  <2> QED BY <1>7, <2>2, <2>3, <2>4 DEF RefsCountHolders
<1> QED BY <1>6, <1>10, <1>12, <1>13, <1>own

\* An uncached handle for any region leaves the slots alone.
LEMMA UncachedIInv ==
    ASSUME IInv, NEW x \in Holder, NEW r \in Region, NEW h \in Fresh,
           held[x] = NoHandle,
           registered' = [registered EXCEPT ![h] = r],
           Give(x, h, r),
           UNCHANGED <<bulk_cache, bulk_seq>>
    PROVE  IInv'
<1> USE DEF IInv
<1>1. /\ h \in Handle /\ h # NoHandle
      /\ \A j \in Slots : bulk_cache[j].handle # h
      /\ \A y \in Holder : held[y] # h
  BY FreshIsFree
<1>2. BcTypeOK'
  BY <1>1 DEF BcTypeOK, Give
<1>3. EmptySlots' = EmptySlots
  BY DEF EmptySlots
<1>4. SlotsAgree'
  BY <1>1, <1>3 DEF SlotsAgree, EmptySlots, BcTypeOK, Entry
<1>5. HeldIsWanted' /\ HeldIsRegistered'
  BY <1>1 DEF HeldIsWanted, HeldIsRegistered, BcTypeOK, Give
<1>own. UncachedIsOwn'
  BY <1>1 DEF UncachedIsOwn, BcTypeOK, Give
<1>6. ASSUME NEW j \in Slots \ EmptySlots
      PROVE  bulk_cache'[j].refs = Cardinality(HoldersOf(bulk_cache[j].handle)')
  <2>1. PICK g : g = bulk_cache[j].handle
    OBVIOUS
  <2>2. g \in Handle /\ g # h
    BY <1>1, <1>6, <2>1 DEF EmptySlots, BcTypeOK, Entry
  <2>3. HoldersOf(g)' = HoldersOf(g)
    BY <2>2, <1>1, GiveHolders
  <2>4. HoldersOf(bulk_cache[j].handle)' = HoldersOf(g)'
    BY <2>1 DEF HoldersOf
  <2> QED BY <2>1, <2>3, <2>4 DEF RefsCountHolders
<1>7. RefsCountHolders'
  BY <1>3, <1>6 DEF RefsCountHolders
<1> QED BY <1>2, <1>4, <1>5, <1>7, <1>own

\* nkvx_bulk_release: a cached handle loses a reference, an uncached one is freed.
LEMMA ReleaseIInv ==
    ASSUME Counting, IInv, NEW x \in Holder, nkvx_bulk_release(x)
    PROVE  IInv'
<1> USE DEF IInv
<1>1. PICK h : h = held[x]
  OBVIOUS
<1>2. /\ h \in Handle /\ h # NoHandle /\ bulk_seq' = bulk_seq
      /\ held' = [held EXCEPT ![x] = NoHandle] /\ wanted' = [wanted EXCEPT ![x] = NoKey]
  BY <1>1 DEF nkvx_bulk_release, Give, BcTypeOK
<1>3. /\ HoldersOf(h)' = HoldersOf(h) \ {x} /\ x \in HoldersOf(h)
      /\ \A g \in Handle : g # h => HoldersOf(g)' = HoldersOf(g)
  BY <1>1, <1>2, CacheAssumption DEF HoldersOf, BcTypeOK
<1>4. CASE CachedIn(h) = {} /\ registered' = Unregister(h) /\ UNCHANGED bulk_cache
  <2>1. \A j \in Slots : bulk_cache[j].handle # h
    BY <1>4 DEF CachedIn
  <2>2. BcTypeOK'
    BY <1>2, <1>4 DEF BcTypeOK, Unregister
  <2>3. EmptySlots' = EmptySlots
    BY <1>4 DEF EmptySlots
  <2>4. SlotsAgree'
    BY <1>4, <2>1, <2>3 DEF SlotsAgree, Unregister, EmptySlots, BcTypeOK, Entry
  <2>5. \A y \in Holder : y # x => held[y] # h
    BY <1>1, <1>2, <2>1 DEF UncachedIsOwn
  <2>6. HeldIsWanted' /\ HeldIsRegistered' /\ UncachedIsOwn'
    BY <1>2, <1>4, <2>5, SMT
       DEF HeldIsWanted, HeldIsRegistered, UncachedIsOwn, Unregister, BcTypeOK
  <2>7. ASSUME NEW j \in Slots \ EmptySlots
        PROVE  bulk_cache'[j].refs = Cardinality(HoldersOf(bulk_cache[j].handle)')
    <3>1. PICK g : g = bulk_cache[j].handle
      OBVIOUS
    <3>2. g \in Handle /\ g # h
      BY <2>1, <2>7, <3>1 DEF EmptySlots, BcTypeOK, Entry
    <3>3. HoldersOf(bulk_cache[j].handle)' = HoldersOf(g)'
      BY <1>4, <3>1 DEF HoldersOf
    <3> QED BY <3>1, <3>2, <3>3, <1>3, <1>4 DEF RefsCountHolders
  <2> QED BY <2>2, <2>3, <2>4, <2>6, <2>7 DEF RefsCountHolders
<1>5. CASE \E i \in CachedIn(h) : bulk_cache' = DropRef(i) /\ UNCHANGED registered
  <2>1. PICK i \in CachedIn(h) : bulk_cache' = DropRef(i) /\ UNCHANGED registered
    BY <1>5
  <2>2. i \in Slots \ EmptySlots /\ bulk_cache[i].handle = h
    BY <1>2 DEF CachedIn, EmptySlots
  <2>3. /\ Cardinality(HoldersOf(h)') = Cardinality(HoldersOf(h)) - 1
        /\ Cardinality(HoldersOf(h)) \in Nat /\ Cardinality(HoldersOf(h)) # 0
    <3>1. HoldersOf(h) \in SUBSET Holder /\ x \in HoldersOf(h) /\ HoldersOf(h) # {}
      BY <1>3 DEF HoldersOf
    <3> QED BY <1>3, <3>1 DEF Counting
  <2>4. bulk_cache[i].refs = Cardinality(HoldersOf(h))
    BY <2>2 DEF RefsCountHolders
  <2>5. \A j \in Slots : /\ bulk_cache'[j].handle = bulk_cache[j].handle
                         /\ bulk_cache'[j].key = bulk_cache[j].key
                         /\ j # i => bulk_cache'[j].refs = bulk_cache[j].refs
    BY <2>1, <2>2 DEF DropRef, BcTypeOK, Entry
  <2>6. bulk_cache'[i].refs = bulk_cache[i].refs - 1
    BY <2>1, <2>2, <2>3, <2>4, SMT DEF DropRef, BcTypeOK, Entry
  <2>7. BcTypeOK'
    BY <1>2, <2>1, <2>2, SMT DEF BcTypeOK, Entry, DropRef
  <2>8. EmptySlots' = EmptySlots
    BY <2>5 DEF EmptySlots
  <2>9. SlotsAgree'
    BY <2>1, <2>5, <2>8, SMT DEF SlotsAgree
  <2>10. HeldIsWanted' /\ HeldIsRegistered' /\ UncachedIsOwn'
    BY <1>2, <2>1, <2>5, SMT DEF HeldIsWanted, HeldIsRegistered, UncachedIsOwn, BcTypeOK
  <2>11. ASSUME NEW j \in Slots \ EmptySlots
         PROVE  bulk_cache'[j].refs = Cardinality(HoldersOf(bulk_cache[j].handle)')
    <3>1. PICK g : g = bulk_cache[j].handle
      OBVIOUS
    <3>2. g \in Handle /\ (j # i => g # h) /\ (j = i => g = h)
      BY <2>2, <2>11, <3>1 DEF SlotsAgree, EmptySlots, BcTypeOK, Entry
    <3>3. HoldersOf(bulk_cache[j].handle)' = HoldersOf(g)'
      BY <2>5, <3>1 DEF HoldersOf
    <3>4. CASE j = i
      BY <3>2, <3>3, <3>4, <2>3, <2>4, <2>6
    <3>5. CASE j # i
      BY <3>1, <3>2, <3>3, <3>5, <1>3, <2>5, <2>11 DEF RefsCountHolders
    <3> QED BY <3>4, <3>5
  <2> QED BY <2>7, <2>8, <2>9, <2>10, <2>11 DEF RefsCountHolders
<1> QED BY <1>1, <1>4, <1>5 DEF nkvx_bulk_release

\* Every step of the front preserves the inductive invariant.
LEMMA StepIInv == Counting /\ IInv /\ [BcNext]_bcVars => IInv'
<1> SUFFICES ASSUME Counting, IInv, [BcNext]_bcVars PROVE IInv'
  OBVIOUS
<1>1. ASSUME NEW x \in Holder, NEW k \in Key, AcquireHit(x, k) PROVE IInv'
  BY <1>1, HitIInv
<1>2. ASSUME NEW x \in Holder, NEW k \in Key, AcquireMiss(x, k) PROVE IInv'
  BY <1>2, MissIInv
<1>3. ASSUME NEW x \in Holder, NEW k \in Key, AcquireOverflow(x, k) PROVE IInv'
  BY <1>3, UncachedIInv, NoKeyIsNoRegion DEF AcquireOverflow
<1>4. ASSUME NEW x \in Holder, NEW d \in DmaBuf, nkvx_bulk_acquire_dmabuf(x, d)
      PROVE  IInv'
  <2>1. <<d>> \in Region
    BY DEF Region
  <2> QED BY <1>4, <2>1, UncachedIInv DEF nkvx_bulk_acquire_dmabuf
<1>5. ASSUME NEW x \in Holder, nkvx_bulk_release(x) PROVE IInv'
  BY <1>5, ReleaseIInv
<1>6. CASE UNCHANGED bcVars
  BY <1>6, SMT DEF bcVars, IInv, BcTypeOK, SlotsAgree, HeldIsWanted, UncachedIsOwn,
              HeldIsRegistered, RefsCountHolders, EmptySlots, HoldersOf
<1> QED BY <1>1, <1>2, <1>3, <1>4, <1>5, <1>6 DEF BcNext

\* Every step that stops using a handle frees it.
LEMMA NextNoLeak == IInv /\ NoLeakedHandle /\ [BcNext]_bcVars => NoLeakedHandle'
<1> SUFFICES ASSUME IInv, NoLeakedHandle, [BcNext]_bcVars,
                    NEW g \in Handle, registered'[g] # NoKey
             PROVE  (\E i \in Slots : bulk_cache'[i].handle = g)
                       \/ (\E y \in Holder : held'[y] = g)
  BY DEF NoLeakedHandle, HoldersOf
<1> USE DEF IInv
<1>0. g # NoHandle
  BY CacheAssumption
<1>1. registered[g] # NoKey => (\E i \in Slots : bulk_cache[i].handle = g)
                                  \/ (\E y \in Holder : held[y] = g)
  BY DEF NoLeakedHandle, HoldersOf
<1>2. ASSUME NEW x \in Holder, NEW k \in Key, AcquireHit(x, k)
      PROVE  (\E i \in Slots : bulk_cache'[i].handle = g)
                \/ (\E y \in Holder : held'[y] = g)
  <2>1. PICK j \in Hits(k) :
          /\ bulk_cache' = [bulk_cache EXCEPT ![j] =
                              [key |-> @.key, handle |-> @.handle,
                               refs |-> @.refs + 1, used_seq |-> bulk_seq + 1]]
          /\ Give(x, bulk_cache[j].handle, k)
    BY <1>2 DEF AcquireHit
  <2>2. \A i \in Slots : bulk_cache'[i].handle = bulk_cache[i].handle
    BY <2>1 DEF Hits, BcTypeOK, Entry
  <2>3. registered' = registered /\ \A y \in Holder : held[y] = g => held'[y] = g
    BY <1>0, <1>2, <2>1 DEF AcquireHit, Give, BcTypeOK
  <2> QED BY <1>1, <2>2, <2>3
<1>3. ASSUME NEW x \in Holder, NEW k \in Key, AcquireMiss(x, k)
      PROVE  (\E i \in Slots : bulk_cache'[i].handle = g)
                \/ (\E y \in Holder : held'[y] = g)
  <2>1. PICK h \in Fresh, j \in Targets :
          /\ bulk_cache' = [bulk_cache EXCEPT ![j] =
                              [key |-> k, handle |-> h, refs |-> 1,
                               used_seq |-> bulk_seq + 1]]
          /\ registered' = [f \in Handle |->
                              IF f = h THEN k
                              ELSE IF f = bulk_cache[j].handle THEN NoKey
                              ELSE registered[f]]
          /\ Give(x, h, k)
    BY <1>3 DEF AcquireMiss
  <2>2. j \in Slots /\ held[x] = NoHandle
    BY <1>3 DEF AcquireMiss, Targets, Victims, EmptySlots, Evictable
  <2>3. /\ bulk_cache'[j].handle = h
        /\ \A i \in Slots \ {j} : bulk_cache'[i].handle = bulk_cache[i].handle
        /\ \A y \in Holder : held[y] = g => held'[y] = g
    BY <1>0, <2>1, <2>2 DEF Give, BcTypeOK
  <2>4. g = h \/ (registered[g] # NoKey /\ g # bulk_cache[j].handle)
    BY <2>1
  <2> QED BY <1>1, <2>2, <2>3, <2>4
<1>4. ASSUME NEW x \in Holder, NEW r, NEW h \in Fresh,
             held[x] = NoHandle, registered' = [registered EXCEPT ![h] = r],
             Give(x, h, r), UNCHANGED bulk_cache
      PROVE  (\E i \in Slots : bulk_cache'[i].handle = g)
                \/ (\E y \in Holder : held'[y] = g)
  <2>1. held'[x] = h /\ \A y \in Holder : held[y] = g => held'[y] = g
    BY <1>0, <1>4 DEF Give, BcTypeOK
  <2>2. g = h \/ registered[g] # NoKey
    BY <1>4 DEF BcTypeOK
  <2> QED BY <1>1, <1>4, <2>1, <2>2
<1>5. ASSUME NEW x \in Holder, nkvx_bulk_release(x)
      PROVE  (\E i \in Slots : bulk_cache'[i].handle = g)
                \/ (\E y \in Holder : held'[y] = g)
  <2>1. \A i \in Slots : bulk_cache'[i].handle = bulk_cache[i].handle
    BY <1>5, SMT DEF nkvx_bulk_release, DropRef, CachedIn, BcTypeOK, Entry
  <2>2. \A y \in Holder : y # x => held'[y] = held[y]
    BY <1>5 DEF nkvx_bulk_release, Give, BcTypeOK
  <2>3. registered[g] # NoKey
    BY <1>5 DEF nkvx_bulk_release, Unregister, BcTypeOK
  <2>4. CASE held[x] = g
    <3>1. CachedIn(g) # {}
      BY <1>5, <2>4 DEF nkvx_bulk_release, Unregister, BcTypeOK
    <3> QED BY <2>1, <3>1 DEF CachedIn
  <2> QED BY <1>1, <2>1, <2>2, <2>3, <2>4
<1>6. CASE UNCHANGED bcVars
  BY <1>1, <1>6 DEF bcVars
<1>7. ASSUME NEW x \in Holder, NEW k \in Key, AcquireOverflow(x, k)
      PROVE  (\E i \in Slots : bulk_cache'[i].handle = g)
                \/ (\E y \in Holder : held'[y] = g)
  BY <1>4, <1>7 DEF AcquireOverflow
<1>8. ASSUME NEW x \in Holder, NEW d \in DmaBuf, nkvx_bulk_acquire_dmabuf(x, d)
      PROVE  (\E i \in Slots : bulk_cache'[i].handle = g)
                \/ (\E y \in Holder : held'[y] = g)
  BY <1>4, <1>8 DEF nkvx_bulk_acquire_dmabuf
<1> QED BY <1>2, <1>3, <1>5, <1>6, <1>7, <1>8 DEF BcNext

--------------------------------------------------------------------------------
INSTANCE FiniteSetTheorems

\* The holders are finitely many.
LEMMA CountingHolds == Counting
<1>1. Cardinality({}) = 0
  BY FS_EmptySet
<1>2. ASSUME NEW S \in SUBSET Holder
      PROVE  /\ Cardinality(S) \in Nat
             /\ Cardinality(S) = 0 => S = {}
             /\ \A x \in Holder \ S : Cardinality(S \cup {x}) = Cardinality(S) + 1
             /\ \A x \in S : Cardinality(S \ {x}) = Cardinality(S) - 1
  <2>1. IsFiniteSet(S)
    BY CacheAssumption, FS_Subset
  <2>2. Cardinality(S) \in Nat
    BY <2>1, FS_CardinalityType
  <2>3. Cardinality(S) = 0 => S = {}
    BY <2>1, FS_EmptySet
  <2>4. ASSUME NEW x \in Holder \ S
        PROVE  Cardinality(S \cup {x}) = Cardinality(S) + 1
    BY <2>1, FS_AddElement
  <2>5. ASSUME NEW x \in S
        PROVE  Cardinality(S \ {x}) = Cardinality(S) - 1
    BY <2>1, FS_RemoveElement
  <2> QED BY <2>2, <2>3, <2>4, <2>5
<1> QED BY <1>1, <1>2 DEF Counting

\* The steps of the front, without the hypothesis.
LEMMA NextIInv == IInv /\ [BcNext]_bcVars => IInv'
BY CountingHolds, StepIInv

(**********************************************************************************)
(* Types are preserved.                                                           *)
(**********************************************************************************)
THEOREM BulkTypeCorrect == BcSpec => []BcTypeOK
<1>1. IInv => BcTypeOK
  BY DEF IInv
<1> QED BY <1>1, InitIInv, NextIInv, PTL DEF BcSpec

(**********************************************************************************)
(* nkvx_bulk_acquire and nkvx_bulk_release never leave an RPC with a handle       *)
(* that is unregistered or registered for something else.                         *)
(**********************************************************************************)
THEOREM HeldStaysRegistered == BcSpec => []HeldIsRegistered
<1>1. IInv => HeldIsRegistered
  BY DEF IInv
<1> QED BY <1>1, InitIInv, NextIInv, PTL DEF BcSpec

(**********************************************************************************)
(* The reference count of a slot is exactly the number of its holders.            *)
(**********************************************************************************)
THEOREM RefsAreExact == BcSpec => []RefsCountHolders
<1>1. IInv => RefsCountHolders
  BY DEF IInv
<1> QED BY <1>1, InitIInv, NextIInv, PTL DEF BcSpec

(**********************************************************************************)
(* Every registration Mercury holds for the front is in a slot or in use by       *)
(* an RPC: eviction, overflow and dma-buf handles are all freed.                  *)
(**********************************************************************************)
THEOREM NoHandleLeaks == BcSpec => []NoLeakedHandle
<1>1. BcInit => NoLeakedHandle
  BY DEF BcInit, NoLeakedHandle
<1> QED BY <1>1, InitIInv, NextIInv, NextNoLeak, PTL DEF BcSpec

(**********************************************************************************)
(* Both together: at every moment Mercury holds registrations for exactly the     *)
(* regions the slots and the RPCs in flight of nkvx_front_client.c refer to.      *)
(**********************************************************************************)
THEOREM RegistrationIsExact == BcSpec => []RegisteredExactly
  BY HeldStaysRegistered, NoHandleLeaks, PTL DEF RegisteredExactly
================================================================================
