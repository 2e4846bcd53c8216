-------------------------------- MODULE Pic --------------------------------
(***************************************************************************)
(* The pair of 8259 interrupt controllers of devices/system/pic.c: the     *)
(* master "pic" and, on an AT class machine, the slave "pic2" wired to its *)
(* input 2.  One action is one call: a guest write to a port of a chip, a  *)
(* device raising or lowering a line (picint, picintlevel, picintc), the   *)
(* processor fetching an interrupt (pic_interrupt), or a reset.  A bit     *)
(* mask is the set of its bits; IRQ 8 + n of the pair is input n of pic2.  *)
(*                                                                         *)
(* Left out: pic_read and pic2_read, which change nothing, and the call    *)
(* pit_set_gate(&pit2, 0, 0) that pic_process makes for IRQ 0.             *)
(***************************************************************************)
EXTENDS Integers, FiniteSets

CONSTANTS
    AT,          \* two chips are present
    PCI,         \* the trigger mode comes from the ELCR of pci.c, not ICW1
    IrqLines,    \* the lines devices drive in this instance
    Masks,       \* the values the guest writes to an interrupt mask (OCW1)
    Icw1Values,  \* the ICW1 values the guest writes, as sets of flags
    AeoiValues,  \* the values of ICW4's automatic end-of-interrupt bit
    Vectors,     \* the vector bases the guest writes (ICW2)
    ElcrValues,  \* the values the guest writes to the ELCR
    ReadSelects  \* the values the guest writes to the OCW3 read select

Lines == 0 .. 7
AllIrqs == 0 .. 15
Icw1Flags == {"ic4", "sngl", "ltim"}

\* The lines whose ELCR bit can be set: elcr_write drops the others.
ElcrLines == AllIrqs \ {0, 1, 2, 8, 13}

\* An AT wires the slave's output to input 2 of the master, and its BIOS
\* programs both ICW3 registers so.
CascadeLine == 2

ASSUME ConstantsAssumption ==
    /\ AT \in BOOLEAN /\ PCI \in BOOLEAN
    /\ PCI => AT
    /\ IrqLines \subseteq AllIrqs
    /\ ~AT => IrqLines \subseteq Lines
    /\ Masks \subseteq SUBSET Lines
    /\ Icw1Values \subseteq SUBSET Icw1Flags
    /\ AeoiValues \subseteq BOOLEAN
    /\ Vectors \subseteq {8 * n : n \in 0 .. 31}
    /\ ElcrValues \subseteq SUBSET ElcrLines
    /\ ReadSelects \subseteq BOOLEAN

VARIABLES
    pic,         \* the registers of the master
    pic2,        \* the registers of the slave
    pic_pending, \* the requests pic_interrupt may deliver, as last computed
    pic_current, \* the lines picintlevel holds raised
    elcr         \* the lines pci.c's ELCR makes level triggered

picVars == <<pic, pic2, pic_pending, pic_current, elcr>>

\* The registers, with icw3 a set of inputs on the master and the slave's
\* identity on the slave.
ChipType(icw3Type) ==
    [mask : SUBSET Lines, mask2 : SUBSET Lines, pend : SUBSET Lines,
     ins : SUBSET Lines, icw : 0 .. 3, icw1 : SUBSET Icw1Flags,
     icw3 : icw3Type, aeoi : BOOLEAN, vector : {8 * n : n \in 0 .. 31},
     read : BOOLEAN]

TypeOK ==
    /\ pic \in ChipType(SUBSET Lines)
    /\ pic2 \in ChipType(Lines)
    /\ pic_pending \subseteq AllIrqs
    /\ pic_current \subseteq AllIrqs
    /\ elcr \subseteq ElcrLines

-----------------------------------------------------------------------------
(* Helpers of pic.c.                                                       *)

IsLevel(irq) ==
    IF PCI THEN irq \in elcr
    ELSE "ltim" \in (IF irq < 8 THEN pic.icw1 ELSE pic2.icw1)

UpdateMask(ins) == {l \in Lines : \E i \in ins : i <= l}

\* The inputs of a chip that are pending and blocked by neither mask.
Requests(d) == (d.pend \ d.mask) \ d.mask2

\* The master's cascade input follows the slave's requests.
Cascade(m, s) ==
    [m EXCEPT !.pend = IF ~AT THEN @
                       ELSE IF Requests(s) # {} THEN @ \cup m.icw3
                       ELSE @ \ m.icw3]

PendingOf(m, s) ==
    Requests(m) \cup (IF AT /\ (m.mask \cup m.mask2) \cap m.icw3 = {}
                      THEN {8 + l : l \in Requests(s)} ELSE {})

\* Mutant: the cached requests are not computed again.
UpdatePendingStale(m, s) ==
    /\ pic' = Cascade(m, s) /\ pic2' = s
    /\ UNCHANGED pic_pending

\* A handler that leaves registers m and s and ends in update_pending.
UpdatePending(m, s) ==
    /\ pic' = Cascade(m, s)
    /\ pic2' = s
    /\ pic_pending' = PendingOf(Cascade(m, s), s)

\* End of interrupt for one in-service input, level lines pending again.
\* (The handlers also set the master's cascade input here when the slave
\* requests; the update_pending that follows does the same.)
EoiMaster(m, l) ==
    LET ins == m.ins \ {l}
        again == /\ l \in pic_current /\ IsLevel(l)
                 /\ ~(AT /\ m.icw3 = {l})
    IN  [m EXCEPT !.ins = ins, !.mask2 = UpdateMask(ins),
                  !.pend = IF again THEN @ \cup {l} ELSE @]

\* Mutant: the slave's input number is used where its IRQ number belongs.
StillRaisedAtMaster(l) == l \in pic_current /\ IsLevel(8 + l)

StillRaised(l) == (8 + l) \in pic_current /\ IsLevel(8 + l)

\* Mutants: the end of interrupt opens all inputs, or none.
EoiSlaveOpen(s, l) == [s EXCEPT !.ins = @ \ {l}, !.mask2 = {}]
EoiSlaveShut(s, l) == [s EXCEPT !.ins = @ \ {l}]

EoiSlave(s, l) ==
    LET ins == s.ins \ {l}
    IN  [s EXCEPT !.ins = ins, !.mask2 = UpdateMask(ins),
                  !.pend = IF StillRaised(l) THEN @ \cup {l} ELSE @]

EoiSlaveAtMaster(m, s, l) ==
    [m EXCEPT !.pend = IF StillRaised(l) THEN @ \cup {s.icw3} ELSE @]

\* Mutant: the loop runs from the last input down.
FirstFromLast(ls) == CHOOSE l \in ls : \A k \in ls : l >= k

\* The highest priority input in a set, the one a for loop meets first.
First(ls) == CHOOSE l \in ls : \A k \in ls : l <= k
-----------------------------------------------------------------------------
(* Guest writes.  The data port is the same code for both chips, so its    *)
(* actions take the chip: "slave" is TRUE for pic2.                        *)

Chip(slave) == IF slave THEN pic2 ELSE pic

Present(slave) == slave => AT

\* The chip gets registers d and nothing else changes.
SetChip(slave, d) ==
    /\ IF slave THEN pic2' = d /\ UNCHANGED pic
                ELSE pic' = d /\ UNCHANGED pic2
    /\ UNCHANGED <<pic_pending, pic_current, elcr>>

\* The chip gets registers d and the handler calls update_pending.
SetChipAndUpdate(slave, d) ==
    /\ UpdatePending(IF slave THEN pic ELSE d, IF slave THEN d ELSE pic2)
    /\ UNCHANGED <<pic_current, elcr>>

Ocw1(slave, m) ==
    /\ Present(slave) /\ Chip(slave).icw = 0
    /\ SetChipAndUpdate(slave, [Chip(slave) EXCEPT !.mask = m])

Icw2(slave, v) ==
    /\ Present(slave) /\ Chip(slave).icw = 1
    /\ SetChip(slave, [Chip(slave) EXCEPT
          !.vector = v, !.icw = IF "sngl" \in Chip(slave).icw1 THEN 3 ELSE 2])

Icw3(slave) ==
    /\ Present(slave) /\ Chip(slave).icw = 2
    /\ SetChip(slave, [Chip(slave) EXCEPT
          !.icw3 = IF slave THEN CascadeLine ELSE {CascadeLine},
          !.icw = IF "ic4" \in Chip(slave).icw1 THEN 3 ELSE 0])

Icw4(slave, aeoi) ==
    /\ Present(slave) /\ Chip(slave).icw = 3
    /\ SetChip(slave, [Chip(slave) EXCEPT !.aeoi = aeoi, !.icw = 0])

\* ICW1 starts the initialisation and drops what is in service.
Started(d, flags) ==
    [d EXCEPT !.mask = {}, !.mask2 = {}, !.icw = 1, !.icw1 = flags, !.ins = {}]

Icw1(slave, flags) ==
    /\ Present(slave)
    /\ IF slave
       THEN UpdatePending([pic EXCEPT !.pend = @ \ {2}], Started(pic2, flags))
       ELSE UpdatePending(Started(pic, flags), pic2)
    /\ UNCHANGED <<pic_current, elcr>>

\* OCW2: every command but "specific EOI" ends the first input in service.
EndOfInterrupt(slave, l) ==
    /\ IF slave
       THEN UpdatePending(EoiSlaveAtMaster(pic, pic2, l), EoiSlave(pic2, l))
       ELSE UpdatePending(EoiMaster(pic, l), pic2)
    /\ UNCHANGED <<pic_current, elcr>>

SpecificEoi(slave, l) == Present(slave) /\ EndOfInterrupt(slave, l)

NonSpecificEoi(slave) ==
    /\ Present(slave) /\ Chip(slave).ins # {}
    /\ EndOfInterrupt(slave, First(Chip(slave).ins))

Ocw3(slave, r) ==
    /\ Present(slave)
    /\ SetChip(slave, [Chip(slave) EXCEPT !.read = r])

\* pci.c: the guest sets which lines are level triggered.
ElcrWrite(e) ==
    /\ PCI
    /\ elcr' = e
    /\ UNCHANGED <<pic, pic2, pic_pending, pic_current>>
-----------------------------------------------------------------------------
(* Devices.                                                                *)

\* On an AT, IRQ 2 of the bus is wired to input 1 of the slave.
Redirect(irq) == IF AT /\ irq = 2 /\ pic.icw3 = {2} THEN 9 ELSE irq

\* picint (level = FALSE) and picintlevel (level = TRUE) of one line: a line
\* picintlevel already holds raised is not raised again.
PicIntCommon(irq, level) ==
    LET i == Redirect(irq)
        s == [pic2 EXCEPT !.pend = @ \cup {i - 8}]
    IN
    IF level /\ i \in pic_current
    THEN UNCHANGED picVars
    ELSE /\ pic_current' = IF level THEN pic_current \cup {i} ELSE pic_current
         /\ IF i < 8
            THEN UpdatePending([pic EXCEPT !.pend = @ \cup {i}], pic2)
            ELSE UpdatePending(IF Requests(s) # {}
                               THEN [pic EXCEPT !.pend = @ \cup {pic2.icw3}]
                               ELSE pic, s)
         /\ UNCHANGED elcr

PicInt(irq) == PicIntCommon(irq, FALSE)

PicIntLevel(irq) == PicIntCommon(irq, TRUE)

\* picintc lowers a line, held or not.
Lowered(i) ==
    IF i < 8
    THEN UpdatePending([pic EXCEPT !.pend = @ \ {i}], pic2)
    ELSE LET s == [pic2 EXCEPT !.pend = @ \ {i - 8}] IN
         UpdatePending(IF Requests(s) = {}
                       THEN [pic EXCEPT !.pend = @ \ {pic2.icw3}]
                       ELSE pic, s)

PicIntC(irq) ==
    /\ pic_current' = pic_current \ {Redirect(irq)}
    /\ Lowered(Redirect(irq))
    /\ UNCHANGED elcr
-----------------------------------------------------------------------------
(* The processor.                                                          *)

\* pic_process accepts an input that is pending, not masked by OCW1, with
\* no input of its own chip before it in service; a slave input also needs
\* the master's inputs 0 and 1 idle.
MasterAccepts(l) ==
    /\ l \in pic.pend \ pic.mask
    /\ \A k \in pic.ins : l <= k
    /\ ~(AT /\ pic.icw3 = {l})

SlaveAccepts(l) ==
    /\ AT /\ pic.icw3 # {}
    /\ l \in pic2.pend \ pic2.mask
    /\ \A k \in pic2.ins : l <= k
    /\ pic.ins \cap {0, 1} = {}

Accepts(irq) == IF irq < 8 THEN MasterAccepts(irq) ELSE SlaveAccepts(irq - 8)

\* Mutant: the slave's inputs are scanned after all of the master's.
RankLinear(irq) == irq

\* The order in which pic_interrupt scans: the slave in its master input's
\* place.
Rank(irq) == IF irq >= 8 THEN 8 * CascadeLine + (irq - 8) ELSE 8 * irq

TakesMaster(l) ==
    LET m == [pic EXCEPT !.pend = @ \ {l}, !.ins = @ \cup {l},
                         !.mask2 = UpdateMask(pic.ins \cup {l})]
    IN  UpdatePending(IF pic.aeoi THEN EoiMaster(m, l) ELSE m, pic2)

\* Mutant: the IRQ number is used where the slave's input number belongs.
TakesSlaveMisnumbered(l) ==
    LET s == [pic2 EXCEPT !.pend = @ \ {l}, !.ins = @ \cup {8 + l}]
        mIns == pic.ins \cup {pic2.icw3}
    IN  UpdatePending([pic EXCEPT !.ins = mIns, !.mask2 = UpdateMask(mIns)], s)

TakesSlave(l) ==
    LET s == [pic2 EXCEPT !.pend = @ \ {l}, !.ins = @ \cup {l},
                          !.mask2 = UpdateMask(pic2.ins \cup {l})]
        mIns == pic.ins \cup {pic2.icw3}
        m == [pic EXCEPT !.ins = mIns, !.mask2 = UpdateMask(mIns)]
    IN  IF pic2.aeoi
        THEN UpdatePending(EoiSlaveAtMaster(m, s, l), EoiSlave(s, l))
        ELSE UpdatePending(m, s)

\* The vector the processor gets; 255 means "no interrupt" to it.
IntVector(irq) ==
    IF irq < 8 THEN pic.vector + irq ELSE pic2.vector + (irq - 8)

PicInterrupt(irq) ==
    /\ pic_pending # {}
    /\ Accepts(irq)
    /\ \A j \in AllIrqs : Accepts(j) => Rank(irq) <= Rank(j)
    /\ IF irq < 8 THEN TakesMaster(irq) ELSE TakesSlave(irq - 8)
    /\ UNCHANGED <<pic_current, elcr>>
-----------------------------------------------------------------------------
(* Resets.                                                                 *)

\* pic_reset: the slave keeps mask2, both keep icw1, icw3 and icw4.
ResetMaster(m) == [m EXCEPT !.icw = 0, !.mask = Lines, !.mask2 = {},
                     !.pend = {}, !.ins = {}, !.vector = 8, !.read = TRUE]
ResetSlave(s) == [s EXCEPT !.icw = 0, !.mask = Lines, !.pend = {}, !.ins = {}]

\* What memset leaves in pic_init and pic2_init.
Zeroed(icw3) ==
    [mask |-> {}, mask2 |-> {}, pend |-> {}, ins |-> {}, icw |-> 0,
     icw1 |-> {}, icw3 |-> icw3, aeoi |-> FALSE, vector |-> 0, read |-> FALSE]

\* elcr_reset, when the guest resets the PCI bus through port 0xCF9;
\* pci_reset has lowered some lines before.
PicReset(lowered) ==
    /\ PCI
    /\ pic' = ResetMaster(pic) /\ pic2' = ResetSlave(pic2)
    /\ pic_pending' = {}
    /\ pic_current' = pic_current \ lowered
    /\ elcr' = {}

BootPic == ResetMaster(Zeroed({}))
BootPic2 == IF AT THEN ResetSlave(Zeroed(0)) ELSE Zeroed(0)

\* A hard reset of the machine: pic_init, pic2_init and pci_init while the
\* devices are added, pic_reset at the end.  Nothing clears pic_current but
\* for the lines pci_reset lowers.
HardReset(lowered) ==
    /\ pic' = BootPic /\ pic2' = BootPic2
    /\ pic_pending' = {}
    /\ pic_current' = pic_current \ lowered
    /\ elcr' = {}

Init ==
    /\ pic = BootPic /\ pic2 = BootPic2
    /\ pic_pending = {} /\ pic_current = {} /\ elcr = {}

\* Writes that start an initialisation, and all the others.
StartNext == \E slave \in BOOLEAN, f \in Icw1Values : Icw1(slave, f)

GuestNext == \E slave \in BOOLEAN :
    \/ \E m \in Masks : Ocw1(slave, m)
    \/ \E v \in Vectors : Icw2(slave, v)
    \/ Icw3(slave)
    \/ \E a \in AeoiValues : Icw4(slave, a)
    \/ \E l \in Lines : SpecificEoi(slave, l)
    \/ NonSpecificEoi(slave)
    \/ \E r \in ReadSelects : Ocw3(slave, r)

ElcrNext == \E e \in ElcrValues : ElcrWrite(e)

DeviceNext == \E irq \in IrqLines :
    PicInt(irq) \/ PicIntLevel(irq) \/ PicIntC(irq)

\* Assumed of the guest: it programs the chips with interrupts disabled, so
\* the processor fetches interrupts only once both are initialised.
Initialised ==
    /\ pic.icw = 0
    /\ AT => /\ pic2.icw = 0
             /\ pic.icw3 = {CascadeLine} /\ pic2.icw3 = CascadeLine

CpuNext == Initialised /\ \E irq \in AllIrqs : PicInterrupt(irq)

ResetNext == PicReset({}) \/ HardReset({})

Next == StartNext \/ GuestNext \/ ElcrNext \/ DeviceNext \/ CpuNext \/ ResetNext

Spec == Init /\ [][Next]_picVars
-----------------------------------------------------------------------------
(* Properties.                                                             *)

\* The cached pic_pending, which the CPU loops test before every
\* instruction, is what update_pending would compute now: no handler that
\* changes a request, a mask, the cascade or what is in service leaves it
\* stale, the steps of an initialisation that do not call it included.
PendingIsFresh == pic_pending = PendingOf(pic, pic2)

\* Whatever order guest, devices and processor act in, an input in service
\* masks itself and the inputs after it (mask2, kept by update_mask at seven
\* places).  On the slave only this half holds: pic_reset leaves a stale
\* mask2 there, which may mask more.
InServiceMasked ==
    /\ pic.mask2 = UpdateMask(pic.ins)
    /\ UpdateMask(pic2.ins) \subseteq pic2.mask2

\* The lines that are requested or in service.
Waiting == pic.pend \cup pic.ins \cup {8 + l : l \in pic2.pend \cup pic2.ins}

\* While the master is being initialised nothing is masked or in service
\* there, so that ICW3 may move the cascade without calling update_pending.
InitialisingIsIdle == pic.icw # 0 => pic.mask = {} /\ pic.ins = {}

CascadeWired == pic.icw3 \in {{}, {CascadeLine}}

\* The inductive invariant.
PicInv ==
    /\ TypeOK
    /\ InServiceMasked
    /\ InitialisingIsIdle
    /\ CascadeWired
    /\ PendingIsFresh
=============================================================================
