----------------------------- MODULE Pic_proofs -----------------------------
(***************************************************************************)
(* Proofs about the interrupt controllers of module Pic, for every value   *)
(* of its constants: type correctness, the masks that follow what is in    *)
(* service, and the cached pic_pending that is never stale.                *)
(***************************************************************************)
EXTENDS Pic, TLAPS

MasterType == ChipType(SUBSET Lines)
SlaveType == ChipType(Lines)

\* The states of the initialisation sequence that the actions write.
LEMMA IcwStatesType == 0 \in 0 .. 3 /\ 1 \in 0 .. 3 /\ 2 \in 0 .. 3 /\ 3 \in 0 .. 3
  OBVIOUS

(***************************************************************************)
(* Lemmas about the helpers.                                               *)
(***************************************************************************)

\* The mask that follows what is in service is a mask.
LEMMA UpdateMaskType ==
    ASSUME NEW ins PROVE UpdateMask(ins) \in SUBSET Lines
  BY DEF UpdateMask

\* Nothing in service masks nothing.
LEMMA UpdateMaskNone == UpdateMask({}) = {}
  BY DEF UpdateMask

\* The loop over a nonempty set of inputs meets one of them.
LEMMA FirstType ==
    ASSUME NEW ls \in SUBSET Lines, ls # {} PROVE First(ls) \in ls
  <1>1. ASSUME NEW n \in Lines, n \in ls, \A k \in Lines : k < n => k \notin ls
        PROVE  \E l \in ls : \A k \in ls : l <= k
    BY <1>1 DEF Lines
  <1>2. \E n \in Lines : n \in ls /\ \A k \in Lines : k < n => k \notin ls
    <2> SUFFICES ASSUME \A n \in Lines :
                            n \in ls => \E k \in Lines : k < n /\ k \in ls
                 PROVE  FALSE
      OBVIOUS
    <2>1. 0 \notin ls
      BY DEF Lines
    <2>2. 1 \notin ls /\ 2 \notin ls
      BY <2>1 DEF Lines
    <2>3. 3 \notin ls /\ 4 \notin ls
      BY <2>1, <2>2 DEF Lines
    <2>4. 5 \notin ls /\ 6 \notin ls /\ 7 \notin ls
      BY <2>1, <2>2, <2>3 DEF Lines
    <2>5. \A n \in Lines : n \notin ls
      BY <2>1, <2>2, <2>3, <2>4 DEF Lines
    <2> QED BY <2>5
  <1>3. \E l \in ls : \A k \in ls : l <= k
    BY <1>1, <1>2
  <1> QED BY <1>3 DEF First

\* update_pending leaves the registers well typed, changes none but the
\* master's pending ones, and computes well typed requests.
LEMMA CascadeType ==
    ASSUME NEW m \in MasterType, NEW s \in SlaveType
    PROVE  /\ Cascade(m, s) \in MasterType
           /\ Cascade(m, s).mask = m.mask /\ Cascade(m, s).mask2 = m.mask2
           /\ Cascade(m, s).ins = m.ins /\ Cascade(m, s).icw = m.icw
           /\ Cascade(m, s).icw3 = m.icw3
  BY DEF Cascade, MasterType, ChipType

LEMMA PendingOfType ==
    ASSUME NEW m \in MasterType, NEW s \in SlaveType
    PROVE  PendingOf(m, s) \in SUBSET AllIrqs
  <1>1. Requests(m) \in SUBSET Lines /\ Requests(s) \in SUBSET Lines
    BY DEF Requests, MasterType, SlaveType, ChipType
  <1>2. \A l \in Lines : l \in AllIrqs /\ 8 + l \in AllIrqs
    BY DEF Lines, AllIrqs
  <1> QED BY <1>1, <1>2 DEF PendingOf

\* A handler that ends in update_pending establishes the invariant from the
\* registers it hands over.
LEMMA UpdatePendingInv ==
    ASSUME NEW m \in MasterType, NEW s \in SlaveType,
           m.mask2 = UpdateMask(m.ins),
           UpdateMask(s.ins) \subseteq s.mask2,
           m.icw # 0 => m.mask = {} /\ m.ins = {},
           m.icw3 \in {{}, {CascadeLine}},
           pic_current' \in SUBSET AllIrqs, elcr' \in SUBSET ElcrLines,
           UpdatePending(m, s)
    PROVE  PicInv'
  <1>1. pic' = Cascade(m, s) /\ pic2' = s /\ pic_pending' = PendingOf(pic', pic2')
    BY DEF UpdatePending
  <1>2. TypeOK'
    BY <1>1, CascadeType, PendingOfType DEF TypeOK, MasterType, SlaveType
  <1>3. InServiceMasked' /\ InitialisingIsIdle' /\ CascadeWired'
    BY <1>1, CascadeType DEF InServiceMasked, InitialisingIsIdle, CascadeWired
  <1>4. PendingIsFresh'
    BY <1>1 DEF PendingIsFresh
  <1> QED BY <1>2, <1>3, <1>4 DEF PicInv

LEMMA EoiMasterType ==
    ASSUME NEW m \in MasterType, NEW l \in Lines
    PROVE  /\ EoiMaster(m, l) \in MasterType
           /\ EoiMaster(m, l).mask2 = UpdateMask(EoiMaster(m, l).ins)
           /\ EoiMaster(m, l).ins = m.ins \ {l}
           /\ EoiMaster(m, l).mask = m.mask /\ EoiMaster(m, l).icw = m.icw
           /\ EoiMaster(m, l).icw3 = m.icw3
  <1>1. UpdateMask(m.ins \ {l}) \in SUBSET Lines
    BY UpdateMaskType
  <1> QED BY <1>1 DEF EoiMaster, MasterType, ChipType

LEMMA EoiSlaveType ==
    ASSUME NEW s \in SlaveType, NEW l \in Lines
    PROVE  /\ EoiSlave(s, l) \in SlaveType
           /\ EoiSlave(s, l).mask2 = UpdateMask(EoiSlave(s, l).ins)
  <1>1. UpdateMask(s.ins \ {l}) \in SUBSET Lines
    BY UpdateMaskType
  <1> QED BY <1>1 DEF EoiSlave, SlaveType, ChipType

LEMMA EoiSlaveAtMasterType ==
    ASSUME NEW m \in MasterType, NEW s \in SlaveType, NEW l
    PROVE  /\ EoiSlaveAtMaster(m, s, l) \in MasterType
           /\ EoiSlaveAtMaster(m, s, l).mask2 = m.mask2
           /\ EoiSlaveAtMaster(m, s, l).ins = m.ins
           /\ EoiSlaveAtMaster(m, s, l).mask = m.mask
           /\ EoiSlaveAtMaster(m, s, l).icw = m.icw
           /\ EoiSlaveAtMaster(m, s, l).icw3 = m.icw3
  BY DEF EoiSlaveAtMaster, MasterType, SlaveType, ChipType

(***************************************************************************)
(* Each action keeps the invariant.                                        *)
(***************************************************************************)

\* What the invariant says of the registers of each chip.
LEMMA InvRegisters ==
    ASSUME PicInv
    PROVE  /\ pic \in MasterType /\ pic2 \in SlaveType
           /\ pic.mask2 = UpdateMask(pic.ins)
           /\ UpdateMask(pic2.ins) \subseteq pic2.mask2
           /\ pic.icw # 0 => pic.mask = {} /\ pic.ins = {}
           /\ pic.icw3 \in {{}, {CascadeLine}}
           /\ pic_current \in SUBSET AllIrqs /\ elcr \in SUBSET ElcrLines
           /\ pic_pending = PendingOf(pic, pic2)
  BY DEF PicInv, TypeOK, InServiceMasked, InitialisingIsIdle, CascadeWired,
         PendingIsFresh, MasterType, SlaveType

\* A write that changes nothing update_pending looks at.
LEMMA SetChipInv ==
    ASSUME PicInv, NEW slave \in BOOLEAN, NEW d, SetChip(slave, d),
           slave => d \in SlaveType,
           ~slave => d \in MasterType,
           d.mask = Chip(slave).mask, d.mask2 = Chip(slave).mask2,
           d.ins = Chip(slave).ins, d.pend = Chip(slave).pend,
           ~slave => /\ d.icw3 \in {{}, {CascadeLine}}
                     /\ d.icw # 0 => pic.icw # 0
                     /\ d.icw3 # pic.icw3 => pic.icw # 0
    PROVE  PicInv'
  <1> USE InvRegisters
  <1>1. UNCHANGED <<pic_pending, pic_current, elcr>>
    BY DEF SetChip
  <1>2. CASE slave
    <2>1. pic' = pic /\ pic2' = d
      BY <1>2 DEF SetChip
    <2>2. PendingOf(pic, d) = PendingOf(pic, pic2)
      BY <1>2 DEF PendingOf, Requests, Chip
    <2>3. TypeOK'
      BY <1>1, <1>2, <2>1 DEF PicInv, TypeOK, SlaveType
    <2>4. (InServiceMasked /\ InitialisingIsIdle /\ CascadeWired)'
      BY <1>2, <2>1 DEF InServiceMasked, InitialisingIsIdle, CascadeWired, Chip
    <2> QED BY <1>1, <2>1, <2>2, <2>3, <2>4 DEF PicInv, PendingIsFresh
  <1>3. CASE ~slave
    <2>1. pic' = d /\ pic2' = pic2
      BY <1>3 DEF SetChip
    <2>2. PendingOf(d, pic2) = PendingOf(pic, pic2)
      <3>1. CASE d.icw3 = pic.icw3
        BY <1>3, <3>1 DEF PendingOf, Requests, Chip
      <3>2. CASE d.icw3 # pic.icw3
        <4>1. pic.mask = {} /\ pic.mask2 = {} /\ d.mask = {} /\ d.mask2 = {}
          BY <1>3, <3>2, UpdateMaskNone DEF Chip
        <4> QED BY <1>3, <4>1 DEF PendingOf, Requests, Chip
      <3> QED BY <3>1, <3>2
    <2>3. TypeOK'
      BY <1>1, <1>3, <2>1 DEF PicInv, TypeOK, MasterType
    <2>4. (InServiceMasked /\ InitialisingIsIdle /\ CascadeWired)'
      BY <1>3, <2>1 DEF InServiceMasked, InitialisingIsIdle, CascadeWired, Chip
    <2> QED BY <1>1, <2>1, <2>2, <2>3, <2>4 DEF PicInv, PendingIsFresh
  <1> QED BY <1>2, <1>3

LEMMA Ocw1Inv ==
    ASSUME ConstantsAssumption, PicInv, NEW slave \in BOOLEAN, NEW m \in Masks,
           Ocw1(slave, m)
    PROVE  PicInv'
  <1> DEFINE d == [Chip(slave) EXCEPT !.mask = m]
  <1> USE InvRegisters
  <1>1. m \in SUBSET Lines
    BY DEF ConstantsAssumption
  <1>2. CASE slave
    <2>1. /\ d \in SlaveType /\ d.ins = pic2.ins /\ d.mask2 = pic2.mask2
          /\ UpdatePending(pic, d)
      BY <1>1, <1>2 DEF Ocw1, SetChipAndUpdate, Chip, SlaveType, ChipType
    <2> QED BY <1>2, <2>1, UpdatePendingInv DEF Ocw1, SetChipAndUpdate
  <1>3. CASE ~slave
    <2>1. /\ d \in MasterType /\ d.ins = pic.ins /\ d.mask2 = pic.mask2
          /\ d.icw = 0 /\ d.icw3 = pic.icw3
          /\ UpdatePending(d, pic2)
      BY <1>1, <1>3 DEF Ocw1, SetChipAndUpdate, Chip, MasterType, ChipType
    <2> QED BY <1>3, <2>1, UpdatePendingInv DEF Ocw1, SetChipAndUpdate
  <1> QED BY <1>2, <1>3

LEMMA IcwInv ==
    ASSUME ConstantsAssumption, PicInv, NEW slave \in BOOLEAN,
           \/ \E v \in Vectors : Icw2(slave, v)
           \/ Icw3(slave)
           \/ \E a \in AeoiValues : Icw4(slave, a)
           \/ \E r \in ReadSelects : Ocw3(slave, r)
    PROVE  PicInv'
  <1> USE InvRegisters
  <1>1. ASSUME NEW v \in Vectors, Icw2(slave, v) PROVE PicInv'
    <2> DEFINE d == [Chip(slave) EXCEPT !.vector = v,
                        !.icw = IF "sngl" \in Chip(slave).icw1 THEN 3 ELSE 2]
    <2>1. v \in {8 * n : n \in 0 .. 31}
      BY DEF ConstantsAssumption
    <2>2. SetChip(slave, d) /\ Chip(slave).icw = 1
      BY <1>1 DEF Icw2
    <2>3. slave => d \in SlaveType
      BY <2>1, IcwStatesType DEF Chip, SlaveType, ChipType
    <2>4. ~slave => d \in MasterType
      BY <2>1, IcwStatesType DEF Chip, MasterType, ChipType
    <2>5. /\ d.mask = Chip(slave).mask /\ d.mask2 = Chip(slave).mask2
          /\ d.ins = Chip(slave).ins /\ d.pend = Chip(slave).pend
          /\ d.icw3 = Chip(slave).icw3
      BY DEF Chip, MasterType, SlaveType, ChipType
    <2>6. ~slave => d.icw3 = pic.icw3 /\ pic.icw # 0
      BY <2>2, <2>5 DEF Chip
    <2> QED BY <2>2, <2>3, <2>4, <2>5, <2>6, SetChipInv
  <1>2. ASSUME Icw3(slave) PROVE PicInv'
    <2> DEFINE d == [Chip(slave) EXCEPT
                        !.icw3 = IF slave THEN CascadeLine ELSE {CascadeLine},
                        !.icw = IF "ic4" \in Chip(slave).icw1 THEN 3 ELSE 0]
    <2>2. SetChip(slave, d) /\ Chip(slave).icw = 2
      BY <1>2 DEF Icw3
    <2>a. (IF "ic4" \in Chip(slave).icw1 THEN 3 ELSE 0) \in 0 .. 3
      BY IcwStatesType
    <2>b. CascadeLine \in Lines
      BY DEF CascadeLine, Lines
    <2>3. slave => d \in SlaveType
      BY <2>a, <2>b DEF Chip, SlaveType, ChipType
    <2>4. ~slave => d \in MasterType /\ d.icw3 = {CascadeLine}
      BY <2>a, <2>b DEF Chip, MasterType, ChipType
    <2>5. /\ d.mask = Chip(slave).mask /\ d.mask2 = Chip(slave).mask2
          /\ d.ins = Chip(slave).ins /\ d.pend = Chip(slave).pend
      BY DEF Chip, MasterType, SlaveType, ChipType
    <2>6. ~slave => pic.icw # 0
      BY <2>2 DEF Chip
    <2> QED BY <2>2, <2>3, <2>4, <2>5, <2>6, SetChipInv
  <1>3. ASSUME NEW a \in AeoiValues, Icw4(slave, a) PROVE PicInv'
    <2> DEFINE d == [Chip(slave) EXCEPT !.aeoi = a, !.icw = 0]
    <2>1. a \in BOOLEAN
      BY DEF ConstantsAssumption
    <2>2. SetChip(slave, d) /\ Chip(slave).icw = 3
      BY <1>3 DEF Icw4
    <2>3. slave => d \in SlaveType
      BY <2>1, IcwStatesType DEF Chip, SlaveType, ChipType
    <2>4. ~slave => d \in MasterType
      BY <2>1, IcwStatesType DEF Chip, MasterType, ChipType
    <2>5. /\ d.mask = Chip(slave).mask /\ d.mask2 = Chip(slave).mask2
          /\ d.ins = Chip(slave).ins /\ d.pend = Chip(slave).pend
          /\ d.icw3 = Chip(slave).icw3
      BY DEF Chip, MasterType, SlaveType, ChipType
    <2>6. ~slave => d.icw3 = pic.icw3 /\ pic.icw # 0
      BY <2>2, <2>5 DEF Chip
    <2> QED BY <2>2, <2>3, <2>4, <2>5, <2>6, SetChipInv
  <1>4. ASSUME NEW r \in ReadSelects, Ocw3(slave, r) PROVE PicInv'
    <2> DEFINE d == [Chip(slave) EXCEPT !.read = r]
    <2>1. r \in BOOLEAN
      BY DEF ConstantsAssumption
    <2>2. SetChip(slave, d)
      BY <1>4 DEF Ocw3
    <2>3. slave => d \in SlaveType
      BY <2>1, IcwStatesType DEF Chip, SlaveType, ChipType
    <2>4. ~slave => d \in MasterType
      BY <2>1, IcwStatesType DEF Chip, MasterType, ChipType
    <2>5. /\ d.mask = Chip(slave).mask /\ d.mask2 = Chip(slave).mask2
          /\ d.ins = Chip(slave).ins /\ d.pend = Chip(slave).pend
          /\ d.icw3 = Chip(slave).icw3 /\ d.icw = Chip(slave).icw
      BY DEF Chip, MasterType, SlaveType, ChipType
    <2>6. ~slave => d.icw3 = pic.icw3 /\ d.icw = pic.icw
      BY <2>5 DEF Chip
    <2> QED BY <2>2, <2>3, <2>4, <2>5, <2>6, SetChipInv
  <1> QED BY <1>1, <1>2, <1>3, <1>4

LEMMA Icw1Inv ==
    ASSUME ConstantsAssumption, PicInv, NEW slave \in BOOLEAN,
           NEW f \in Icw1Values, Icw1(slave, f)
    PROVE  PicInv'
  <1> USE InvRegisters
  <1>1. f \in SUBSET Icw1Flags
    BY DEF ConstantsAssumption
  <1>2. CASE slave
    <2> DEFINE m == [pic EXCEPT !.pend = @ \ {2}]
    <2>1. /\ m \in MasterType /\ m.mask2 = pic.mask2 /\ m.ins = pic.ins
          /\ m.mask = pic.mask /\ m.icw = pic.icw /\ m.icw3 = pic.icw3
      BY DEF MasterType, ChipType
    <2>2. /\ Started(pic2, f) \in SlaveType
          /\ UpdateMask(Started(pic2, f).ins) = {}
      BY <1>1, UpdateMaskNone, IcwStatesType DEF Started, SlaveType, ChipType
    <2>3. UpdatePending(m, Started(pic2, f)) /\ UNCHANGED <<pic_current, elcr>>
      BY <1>2 DEF Icw1
    <2> QED BY <2>1, <2>2, <2>3, UpdatePendingInv
  <1>3. CASE ~slave
    <2> DEFINE m == Started(pic, f)
    <2>1. /\ m \in MasterType /\ m.mask2 = UpdateMask(m.ins)
          /\ m.mask = {} /\ m.ins = {} /\ m.icw3 = pic.icw3
      BY <1>1, UpdateMaskNone, IcwStatesType DEF Started, MasterType, ChipType
    <2>2. UpdatePending(m, pic2) /\ UNCHANGED <<pic_current, elcr>>
      BY <1>3 DEF Icw1
    <2> QED BY <2>1, <2>2, UpdatePendingInv
  <1> QED BY <1>2, <1>3

LEMMA EndOfInterruptInv ==
    ASSUME PicInv, NEW slave \in BOOLEAN, NEW l \in Lines,
           EndOfInterrupt(slave, l)
    PROVE  PicInv'
  <1> USE InvRegisters
  <1>1. CASE slave
    <2>1. /\ UpdatePending(EoiSlaveAtMaster(pic, pic2, l), EoiSlave(pic2, l))
          /\ UNCHANGED <<pic_current, elcr>>
      BY <1>1 DEF EndOfInterrupt
    <2>2. EoiSlaveAtMaster(pic, pic2, l) \in MasterType /\ EoiSlave(pic2, l) \in SlaveType
      BY EoiSlaveAtMasterType, EoiSlaveType
    <2> QED BY <2>1, <2>2, EoiSlaveAtMasterType, EoiSlaveType, UpdatePendingInv
  <1>2. CASE ~slave
    <2>1. UpdatePending(EoiMaster(pic, l), pic2) /\ UNCHANGED <<pic_current, elcr>>
      BY <1>2 DEF EndOfInterrupt
    <2>2. EoiMaster(pic, l) \in MasterType
      BY EoiMasterType
    <2> QED BY <2>1, <2>2, EoiMasterType, UpdatePendingInv
  <1> QED BY <1>1, <1>2

LEMMA PicIntCommonInv ==
    ASSUME ConstantsAssumption, PicInv, NEW irq \in AllIrqs,
           NEW level \in BOOLEAN, PicIntCommon(irq, level)
    PROVE  PicInv'
  <1> DEFINE i == Redirect(irq)
             s == [pic2 EXCEPT !.pend = @ \cup {i - 8}]
  <1> USE InvRegisters
  <1>1. i \in AllIrqs
    BY DEF Redirect, AllIrqs
  <1>2. CASE level /\ i \in pic_current
    BY <1>2 DEF PicIntCommon, picVars, PicInv, TypeOK, InServiceMasked,
                InitialisingIsIdle, CascadeWired, PendingIsFresh
  <1>3. CASE ~(level /\ i \in pic_current) /\ i < 8
    <2> DEFINE m == [pic EXCEPT !.pend = @ \cup {i}]
    <2>1. /\ UpdatePending(m, pic2)
          /\ pic_current' \in SUBSET AllIrqs /\ UNCHANGED elcr
      BY <1>1, <1>3 DEF PicIntCommon
    <2>2. i \in Lines
      BY <1>1, <1>3 DEF Lines, AllIrqs
    <2>3. /\ m \in MasterType /\ m.mask2 = pic.mask2 /\ m.ins = pic.ins
          /\ m.mask = pic.mask /\ m.icw = pic.icw /\ m.icw3 = pic.icw3
      BY <2>2 DEF MasterType, ChipType
    <2> QED BY <2>1, <2>3, UpdatePendingInv
  <1>4. CASE ~(level /\ i \in pic_current) /\ ~(i < 8)
    <2> DEFINE m == IF Requests(s) # {}
                    THEN [pic EXCEPT !.pend = @ \cup {pic2.icw3}] ELSE pic
    <2>1. /\ UpdatePending(m, s)
          /\ pic_current' \in SUBSET AllIrqs /\ UNCHANGED elcr
      BY <1>1, <1>4 DEF PicIntCommon
    <2>2. i - 8 \in Lines
      BY <1>1, <1>4 DEF Lines, AllIrqs
    <2>3. s \in SlaveType /\ s.mask2 = pic2.mask2 /\ s.ins = pic2.ins
      BY <2>2 DEF SlaveType, ChipType
    <2>4. pic2.icw3 \in Lines
      BY DEF SlaveType, ChipType
    <2>5. /\ m \in MasterType /\ m.mask2 = pic.mask2 /\ m.ins = pic.ins
          /\ m.mask = pic.mask /\ m.icw = pic.icw /\ m.icw3 = pic.icw3
      BY <2>4 DEF MasterType, ChipType
    <2> QED BY <2>1, <2>3, <2>5, UpdatePendingInv
  <1> QED BY <1>2, <1>3, <1>4

LEMMA PicIntCInv ==
    ASSUME PicInv, NEW irq \in AllIrqs, PicIntC(irq)
    PROVE  PicInv'
  <1> DEFINE i == Redirect(irq)
             s == [pic2 EXCEPT !.pend = @ \ {i - 8}]
  <1> USE InvRegisters
  <1>1. pic_current' \in SUBSET AllIrqs /\ UNCHANGED elcr /\ Lowered(i)
    BY DEF PicIntC
  <1>2. CASE i < 8
    <2> DEFINE m == [pic EXCEPT !.pend = @ \ {i}]
    <2>1. UpdatePending(m, pic2)
      BY <1>1, <1>2 DEF Lowered
    <2>2. /\ m \in MasterType /\ m.mask2 = pic.mask2 /\ m.ins = pic.ins
          /\ m.mask = pic.mask /\ m.icw = pic.icw /\ m.icw3 = pic.icw3
      BY DEF MasterType, ChipType
    <2> QED BY <1>1, <2>1, <2>2, UpdatePendingInv
  <1>3. CASE ~(i < 8)
    <2> DEFINE m == IF Requests(s) = {}
                    THEN [pic EXCEPT !.pend = @ \ {pic2.icw3}] ELSE pic
    <2>1. UpdatePending(m, s)
      BY <1>1, <1>3 DEF Lowered
    <2>2. s \in SlaveType /\ s.mask2 = pic2.mask2 /\ s.ins = pic2.ins
      BY DEF SlaveType, ChipType
    <2>3. /\ m \in MasterType /\ m.mask2 = pic.mask2 /\ m.ins = pic.ins
          /\ m.mask = pic.mask /\ m.icw = pic.icw /\ m.icw3 = pic.icw3
      BY DEF MasterType, ChipType
    <2> QED BY <1>1, <2>1, <2>2, <2>3, UpdatePendingInv
  <1> QED BY <1>2, <1>3

LEMMA PicInterruptInv ==
    ASSUME PicInv, Initialised, NEW irq \in AllIrqs, PicInterrupt(irq)
    PROVE  PicInv'
  <1> USE InvRegisters
  <1>1. UNCHANGED <<pic_current, elcr>> /\ pic.icw = 0
    BY DEF PicInterrupt, Initialised
  <1>2. CASE irq < 8
    <2> DEFINE m == [pic EXCEPT !.pend = @ \ {irq}, !.ins = @ \cup {irq},
                                !.mask2 = UpdateMask(pic.ins \cup {irq})]
               e == IF pic.aeoi THEN EoiMaster(m, irq) ELSE m
    <2>1. irq \in Lines
      BY <1>2 DEF Lines, AllIrqs
    <2>2. UpdatePending(e, pic2)
      BY <1>2 DEF PicInterrupt, TakesMaster
    <2>3. UpdateMask(pic.ins \cup {irq}) \in SUBSET Lines
      BY UpdateMaskType
    <2>4. /\ m \in MasterType /\ m.mask2 = UpdateMask(m.ins)
          /\ m.icw = 0 /\ m.icw3 = pic.icw3
      BY <1>1, <2>1, <2>3 DEF MasterType, ChipType
    <2>5. /\ e \in MasterType /\ e.mask2 = UpdateMask(e.ins)
          /\ e.icw = 0 /\ e.icw3 = pic.icw3
      BY <2>1, <2>4, EoiMasterType
    <2> QED BY <1>1, <2>2, <2>5, UpdatePendingInv
  <1>3. CASE ~(irq < 8)
    <2> DEFINE l == irq - 8
               s == [pic2 EXCEPT !.pend = @ \ {l}, !.ins = @ \cup {l},
                                 !.mask2 = UpdateMask(pic2.ins \cup {l})]
               mIns == pic.ins \cup {pic2.icw3}
               m == [pic EXCEPT !.ins = mIns, !.mask2 = UpdateMask(mIns)]
    <2>1. l \in Lines
      BY <1>3 DEF Lines, AllIrqs
    <2>2. IF pic2.aeoi
          THEN UpdatePending(EoiSlaveAtMaster(m, s, l), EoiSlave(s, l))
          ELSE UpdatePending(m, s)
      BY <1>3 DEF PicInterrupt, TakesSlave
    <2>3. UpdateMask(pic2.ins \cup {l}) \in SUBSET Lines /\ UpdateMask(mIns) \in SUBSET Lines
      BY UpdateMaskType
    <2>4. s \in SlaveType /\ s.mask2 = UpdateMask(s.ins)
      BY <2>1, <2>3 DEF SlaveType, ChipType
    <2>5. /\ m \in MasterType /\ m.mask2 = UpdateMask(m.ins)
          /\ m.icw = 0 /\ m.icw3 = pic.icw3
      <3>1. pic2.icw3 \in Lines
        BY DEF SlaveType, ChipType
      <3> QED BY <1>1, <2>3, <3>1 DEF MasterType, ChipType
    <2>6. CASE pic2.aeoi
      <3>1. EoiSlaveAtMaster(m, s, l) \in MasterType /\ EoiSlave(s, l) \in SlaveType
        BY <2>1, <2>4, <2>5, EoiSlaveAtMasterType, EoiSlaveType
      <3>2. UpdatePending(EoiSlaveAtMaster(m, s, l), EoiSlave(s, l))
        BY <2>2, <2>6
      <3> HIDE DEF m, s
      <3>3. /\ EoiSlave(s, l).mask2 = UpdateMask(EoiSlave(s, l).ins)
            /\ EoiSlaveAtMaster(m, s, l).mask2 = UpdateMask(EoiSlaveAtMaster(m, s, l).ins)
            /\ EoiSlaveAtMaster(m, s, l).icw = 0
            /\ EoiSlaveAtMaster(m, s, l).icw3 = pic.icw3
        BY <2>1, <2>4, <2>5, EoiSlaveAtMasterType, EoiSlaveType
      <3> QED BY <1>1, <3>1, <3>2, <3>3, UpdatePendingInv
    <2>7. CASE ~pic2.aeoi
      BY <1>1, <2>2, <2>4, <2>5, <2>7, UpdatePendingInv
    <2> QED BY <2>6, <2>7
  <1> QED BY <1>2, <1>3

\* What a reset leaves: every line of the master masked, nothing requested.
LEMMA ResetInv ==
    ASSUME NEW m \in MasterType, NEW s \in SlaveType,
           m.icw3 \in {{}, {CascadeLine}},
           pic' = ResetMaster(m), pic2' = ResetSlave(s) \/ (~AT /\ pic2' = Zeroed(0)),
           pic_pending' = {}, pic_current' \in SUBSET AllIrqs, elcr' = {}
    PROVE  PicInv'
  <1>1. 8 \in {8 * n : n \in 0 .. 31} /\ 0 \in {8 * n : n \in 0 .. 31} /\ 0 \in Lines
    BY DEF Lines
  <1>2. pic' \in MasterType
    BY <1>1, IcwStatesType DEF ResetMaster, MasterType, ChipType
  <1>3. /\ pic2' \in SlaveType
        /\ pic2'.ins = {} /\ pic2'.pend = {}
    <2>1. CASE pic2' = ResetSlave(s)
      BY <1>1, <2>1, IcwStatesType DEF ResetSlave, SlaveType, ChipType
    <2>2. CASE pic2' = Zeroed(0)
      BY <1>1, <2>2, IcwStatesType DEF Zeroed, SlaveType, ChipType
    <2> QED BY <2>1, <2>2
  <1>4. /\ pic'.mask = Lines /\ pic'.mask2 = {} /\ pic'.ins = {} /\ pic'.pend = {}
        /\ pic'.icw = 0 /\ pic'.icw3 = m.icw3
    BY DEF ResetMaster, MasterType, ChipType
  <1>6. PendingOf(pic', pic2') = {}
    BY <1>3, <1>4 DEF PendingOf, Requests
  <1>7. TypeOK'
    BY <1>2, <1>3 DEF TypeOK, MasterType, SlaveType, ElcrLines
  <1> QED BY <1>3, <1>4, <1>6, <1>7, UpdateMaskNone
          DEF PicInv, InServiceMasked, InitialisingIsIdle, CascadeWired,
              PendingIsFresh

LEMMA ZeroedType == Zeroed({}) \in MasterType /\ Zeroed(0) \in SlaveType
  <1>1. 0 \in {8 * n : n \in 0 .. 31} /\ 0 \in Lines
    BY DEF Lines
  <1> QED BY <1>1, IcwStatesType DEF Zeroed, MasterType, SlaveType, ChipType

LEMMA InitInv == ConstantsAssumption /\ Init => PicInv
  <1> SUFFICES ASSUME ConstantsAssumption, Init PROVE PicInv
    OBVIOUS
  <1>1. 8 \in {8 * n : n \in 0 .. 31} /\ 0 \in {8 * n : n \in 0 .. 31} /\ 0 \in Lines
    BY DEF Lines
  <1>2. /\ BootPic \in MasterType
        /\ BootPic.mask = Lines /\ BootPic.mask2 = {} /\ BootPic.ins = {}
        /\ BootPic.pend = {} /\ BootPic.icw = 0 /\ BootPic.icw3 = {}
    BY <1>1, ZeroedType, IcwStatesType DEF BootPic, ResetMaster, Zeroed, MasterType, ChipType
  <1>3. BootPic2 \in SlaveType /\ BootPic2.ins = {} /\ BootPic2.pend = {}
    BY <1>1, ZeroedType, IcwStatesType DEF BootPic2, ResetSlave, Zeroed, SlaveType, ChipType
  <1>4. PendingOf(BootPic, BootPic2) = {}
    BY <1>2, <1>3 DEF PendingOf, Requests
  <1>5. TypeOK
    BY <1>2, <1>3 DEF Init, TypeOK, MasterType, SlaveType
  <1> QED BY <1>2, <1>3, <1>4, <1>5, UpdateMaskNone
          DEF Init, PicInv, InServiceMasked, InitialisingIsIdle, CascadeWired,
              PendingIsFresh

\* Every step of the pair keeps the invariant.
LEMMA NextInv ==
    ASSUME ConstantsAssumption, PicInv, [Next]_picVars PROVE PicInv'
  <1> USE InvRegisters
  <1>1. CASE StartNext
    BY <1>1, Icw1Inv DEF StartNext
  <1>2. CASE GuestNext
    <2>1. PICK slave \in BOOLEAN :
            \/ \E m \in Masks : Ocw1(slave, m)
            \/ \E v \in Vectors : Icw2(slave, v)
            \/ Icw3(slave)
            \/ \E a \in AeoiValues : Icw4(slave, a)
            \/ \E l \in Lines : SpecificEoi(slave, l)
            \/ NonSpecificEoi(slave)
            \/ \E r \in ReadSelects : Ocw3(slave, r)
      BY <1>2 DEF GuestNext
    <2>2. CASE \E l \in Lines : SpecificEoi(slave, l)
      BY <2>2, EndOfInterruptInv DEF SpecificEoi
    <2>3. CASE NonSpecificEoi(slave)
      <3>1. /\ Chip(slave).ins \in SUBSET Lines /\ Chip(slave).ins # {}
            /\ EndOfInterrupt(slave, First(Chip(slave).ins))
        BY <2>3 DEF NonSpecificEoi, Chip, MasterType, SlaveType, ChipType
      <3>2. First(Chip(slave).ins) \in Lines
        BY <3>1, FirstType
      <3> QED BY <3>1, <3>2, EndOfInterruptInv
    <2> QED BY <2>1, <2>2, <2>3, Ocw1Inv, IcwInv
  <1>3. CASE ElcrNext
    <2>1. UNCHANGED <<pic, pic2, pic_pending, pic_current>> /\ elcr' \in SUBSET ElcrLines
      BY <1>3 DEF ElcrNext, ElcrWrite, ConstantsAssumption
    <2> QED BY <2>1 DEF PicInv, TypeOK, InServiceMasked, InitialisingIsIdle,
                        CascadeWired, PendingIsFresh
  <1>4. CASE DeviceNext
    <2>1. IrqLines \subseteq AllIrqs
      BY DEF ConstantsAssumption
    <2> QED BY <1>4, <2>1, PicIntCommonInv, PicIntCInv DEF DeviceNext, PicInt, PicIntLevel
  <1>5. CASE CpuNext
    BY <1>5, PicInterruptInv DEF CpuNext
  <1>6. CASE ResetNext
    <2>1. CASE PicReset({})
      BY <2>1, ResetInv DEF PicReset
    <2>2. CASE HardReset({})
      <3>1. pic' = ResetMaster(Zeroed({})) /\ Zeroed({}).icw3 = {}
        BY <2>2 DEF HardReset, BootPic, Zeroed
      <3>2. pic2' = ResetSlave(Zeroed(0)) \/ (~AT /\ pic2' = Zeroed(0))
        BY <2>2 DEF HardReset, BootPic2
      <3>3. pic_pending' = {} /\ pic_current' \in SUBSET AllIrqs /\ elcr' = {}
        BY <2>2 DEF HardReset
      <3> QED BY <3>1, <3>2, <3>3, ZeroedType, ResetInv
    <2> QED BY <1>6, <2>1, <2>2 DEF ResetNext
  <1>7. CASE UNCHANGED picVars
    BY <1>7 DEF picVars, PicInv, TypeOK, InServiceMasked, InitialisingIsIdle,
                CascadeWired, PendingIsFresh
  <1> QED BY <1>1, <1>2, <1>3, <1>4, <1>5, <1>6, <1>7 DEF Next

(***************************************************************************)
(* The theorems.                                                           *)
(***************************************************************************)

\* The inductive invariant holds of every behaviour of the pair.
THEOREM PicInvariant == Spec => []PicInv
  <1>1. Init => PicInv
    BY InitInv, ConstantsAssumption
  <1>2. PicInv /\ [Next]_picVars => PicInv'
    BY NextInv, ConstantsAssumption
  <1> QED BY <1>1, <1>2, PTL DEF Spec

\* Every register keeps its width and meaning, whatever the guest writes.
THEOREM PicTypeCorrect == Spec => []TypeOK
  <1>1. PicInv => TypeOK
    BY DEF PicInv
  <1> QED BY <1>1, PicInvariant, PTL

\* The cached pic_pending the CPU loops test is never stale (update_pending).
THEOREM PicPendingIsFresh == Spec => []PendingIsFresh
  <1>1. PicInv => PendingIsFresh
    BY DEF PicInv
  <1> QED BY <1>1, PicInvariant, PTL

\* An input in service masks itself and the inputs after it (update_mask).
THEOREM PicInServiceMasked == Spec => []InServiceMasked
  <1>1. PicInv => InServiceMasked
    BY DEF PicInv
  <1> QED BY <1>1, PicInvariant, PTL
=============================================================================
