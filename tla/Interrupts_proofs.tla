-------------------------- MODULE Interrupts_proofs --------------------------
(***************************************************************************)
(* Proofs about modules PciIrq and Interrupts, for every set of cards,     *)
(* every wiring of their pins, every set of ISA lines and every value the  *)
(* guest may write.                                                        *)
(*                                                                         *)
(* PciIrq: pci_irq_hold is the wired OR of the pins, if the guest leaves   *)
(* routing, ELCR and controllers alone while a pin is raised (QuietGuest   *)
(* = TRUE).  The line is raised exactly while a card holds it, and a held  *)
(* line is requested or in service, if moreover the user does not reset    *)
(* while a line is raised (UserResets = FALSE) and ISA devices and cards   *)
(* do not share lines (LinesApart).  README.md says what happens without   *)
(* these hypotheses.                                                       *)
(*                                                                         *)
(* Interrupts, without hypotheses: what is in service at the two chips is  *)
(* what the active handlers have still to end, and the pair implements     *)
(* the single controller of module PriorityInt.                            *)
(***************************************************************************)
EXTENDS Interrupts, Pic_proofs, SequenceTheorems, TLAPS

(***************************************************************************)
(* PCI cards on the controllers.                                           *)
(***************************************************************************)

\* Routings and holds.
PciTypeOK ==
    /\ pci_irq_hold \in [AllIrqs -> SUBSET Users]
    /\ pci_irqs \in [0 .. 3 -> RouteValues \cup {Disabled}]
    /\ pci_mirqs \in [{0, 1} -> RouteValues \cup {Disabled}]
    /\ raised \in SUBSET Users

\* A pin is routed to a line, or to none.
LEMMA LineOfType ==
    ASSUME PciAssumption, PciTypeOK, NEW h \in Users
    PROVE  /\ LineOf(h) \in RouteValues \cup {Disabled}
           /\ LineOf(h) # Disabled => LineOf(h) \in AllIrqs
           /\ Disabled \notin AllIrqs
  <1>1. LineOf(h) \in RouteValues \cup {Disabled}
    <2>1. CASE h \in Cards
      <3>1. h < 30 /\ PinOf[h] \in 0 .. 3
        BY <2>1 DEF PciAssumption
      <3>2. pci_irqs[PinOf[h]] \in RouteValues \cup {Disabled}
        BY <3>1 DEF PciTypeOK
      <3> QED BY <3>1, <3>2 DEF LineOf
    <2>2. CASE h \notin Cards
      <3>1. PICK m \in Mirqs : h = 30 + m
        BY <2>2 DEF Users, Mirq
      <3>2. m \in {0, 1}
        BY <3>1 DEF PciAssumption
      <3>3. ~(h < 30) /\ h - 30 = m
        BY <3>1, <3>2
      <3>4. pci_mirqs[m] \in RouteValues \cup {Disabled}
        BY <3>2 DEF PciTypeOK
      <3> QED BY <3>3, <3>4 DEF LineOf
    <2> QED BY <2>1, <2>2
  <1>2. RouteValues \in SUBSET (AllIrqs \cup {Disabled})
    BY DEF PciAssumption
  <1>3. Disabled \notin AllIrqs
    BY DEF Disabled, AllIrqs
  <1> QED BY <1>1, <1>2, <1>3

\* What a card's pin does to the controllers (pci_set_irq, pci_clear_irq).
LEMMA CardStep ==
    ASSUME PciAssumption, PciTypeOK, NEW h \in Users,
           PciSetIrq(h) \/ PciClearIrq(h)
    PROVE  \/ UNCHANGED picVars
           \/ \E line \in AllIrqs : PicIntLevel(line) \/ PicIntC(line)
  <1>1. LineOf(h) # Disabled => LineOf(h) \in AllIrqs
    BY LineOfType
  <1> QED BY <1>1 DEF PciSetIrq, PciClearIrq

\* Cards raise and lower lines only through calls that keep the chips' invariant.
LEMMA CardKeepsPicInv ==
    ASSUME PciAssumption, ConstantsAssumption, PicInv, PciTypeOK, NEW h \in Users,
           PciSetIrq(h) \/ PciClearIrq(h)
    PROVE  PicInv'
  <1>1. CASE UNCHANGED picVars
    BY <1>1, NextInv
  <1>2. ASSUME NEW line \in AllIrqs, PicIntLevel(line) PROVE PicInv'
    BY <1>2, PicIntCommonInv DEF PicIntLevel
  <1>3. ASSUME NEW line \in AllIrqs, PicIntC(line) PROVE PicInv'
    BY <1>3, PicIntCInv
  <1> QED BY <1>1, <1>2, <1>3, CardStep

\* Both resets, whatever lines pci_reset lowers before.
LEMMA ResetsKeepPicInv ==
    ASSUME PicInv, NEW lowered, PicReset(lowered) \/ HardReset(lowered)
    PROVE  PicInv'
  <1> USE InvRegisters
  <1>1. CASE PicReset(lowered)
    BY <1>1, ResetInv DEF PicReset
  <1>2. CASE HardReset(lowered)
    <2>1. pic' = ResetMaster(Zeroed({})) /\ Zeroed({}).icw3 = {}
      BY <1>2 DEF HardReset, BootPic, Zeroed
    <2>2. pic2' = ResetSlave(Zeroed(0)) \/ (~AT /\ pic2' = Zeroed(0))
      BY <1>2 DEF HardReset, BootPic2
    <2>3. pic_pending' = {} /\ pic_current' \in SUBSET AllIrqs /\ elcr' = {}
      BY <1>2 DEF HardReset
    <2> QED BY <2>1, <2>2, <2>3, ZeroedType, ResetInv
  <1> QED BY <1>1, <1>2

\* Nothing is routed and nothing is held at power on.
LEMMA PciTypeInit == ASSUME PciAssumption, PciInit PROVE PciTypeOK
  BY DEF PciInit, PciTypeOK, NoHolds

\* Every operation keeps routings and holds well typed.
LEMMA PciTypeStep ==
    ASSUME PciAssumption, PciTypeOK, [PciNext]_vars PROVE PciTypeOK'
  <1>1. CASE PicNext \/ UNCHANGED vars
    BY <1>1 DEF PicNext, pciVars, vars, PciTypeOK
  <1>2. ASSUME NEW h \in Users, PciSetIrq(h) PROVE PciTypeOK'
    <2>1. UNCHANGED <<pci_irqs, pci_mirqs>> /\ raised' \in SUBSET Users
      BY <1>2 DEF PciSetIrq, PciTypeOK
    <2>2. pci_irq_hold' = pci_irq_hold
          \/ pci_irq_hold' = [pci_irq_hold EXCEPT ![LineOf(h)] = @ \cup {h}]
      BY <1>2 DEF PciSetIrq
    <2> QED BY <2>1, <2>2 DEF PciTypeOK
  <1>3. ASSUME NEW h \in Users, PciClearIrq(h) PROVE PciTypeOK'
    <2>1. UNCHANGED <<pci_irqs, pci_mirqs>> /\ raised' \in SUBSET Users
      BY <1>3 DEF PciClearIrq, PciTypeOK
    <2>2. pci_irq_hold' = pci_irq_hold
          \/ pci_irq_hold' = [pci_irq_hold EXCEPT ![LineOf(h)] = @ \ {h}]
      BY <1>3 DEF PciClearIrq
    <2> QED BY <2>1, <2>2 DEF PciTypeOK
  <1>4. CASE RoutingNext
    BY <1>4 DEF RoutingNext, SetIrqRouting, SetMirqRouting, PciTypeOK
  <1>5. CASE TrcReset
    BY <1>5 DEF TrcReset, PciTypeOK, NoHolds
  <1>6. CASE PciHardReset
    BY <1>6 DEF PciHardReset, PciTypeOK, NoHolds
  <1> QED BY <1>1, <1>2, <1>3, <1>4, <1>5, <1>6 DEF PciNext, CardNext

\* The chips' invariant survives the cards, the routing and both resets.
LEMMA PciKeepsPicInv ==
    ASSUME PciAssumption, ConstantsAssumption, PicInv, PciTypeOK, [PciNext]_vars
    PROVE  PicInv'
  <1>1. CASE PicNext
    BY <1>1, NextInv DEF PicNext, Next
  <1>2. CASE CardNext
    BY <1>2, CardKeepsPicInv DEF CardNext
  <1>3. CASE RoutingNext \/ UNCHANGED vars
    <2>1. UNCHANGED picVars
      BY <1>3 DEF RoutingNext, SetIrqRouting, SetMirqRouting, vars
    <2> QED BY <2>1, NextInv
  <1>4. CASE TrcReset \/ PciHardReset
    BY <1>4, ResetsKeepPicInv DEF TrcReset, PciHardReset
  <1> QED BY <1>1, <1>2, <1>3, <1>4 DEF PciNext

\* The invariant of the pair of controllers holds whatever cards, routing,
\* and resets of bus and machine do to it.
THEOREM PciPicInvariant == PciSpec => [](PicInv /\ PciTypeOK)
  <1>1. PciInit => PicInv /\ PciTypeOK
    BY InitInv, PciTypeInit, ConstantsAssumption, PciAssumption DEF PciInit
  <1>2. PicInv /\ PciTypeOK /\ [PciNext]_vars => (PicInv /\ PciTypeOK)'
    BY PciKeepsPicInv, PciTypeStep, ConstantsAssumption, PciAssumption
  <1> QED BY <1>1, <1>2, PTL DEF PciSpec

(***************************************************************************)
(* The wired OR.                                                           *)
(***************************************************************************)

\* Neither guest nor devices nor processor touch the ELCR, but ElcrWrite does.
LEMMA PicStepKeepsElcr ==
    ASSUME GuestNext \/ DeviceNext \/ CpuNext PROVE elcr' = elcr
  <1>1. CASE GuestNext
    BY <1>1 DEF GuestNext, Ocw1, Icw2, Icw3, Icw4, SpecificEoi, NonSpecificEoi, Ocw3,
                SetChip, SetChipAndUpdate, EndOfInterrupt
  <1>2. CASE DeviceNext
    BY <1>2 DEF DeviceNext, PicInt, PicIntLevel, PicIntCommon, PicIntC, picVars
  <1>3. CASE CpuNext
    BY <1>3 DEF CpuNext, PicInterrupt
  <1> QED BY <1>1, <1>2, <1>3

\* Each operation keeps the holds of every line equal to its wired OR.
LEMMA WiredOrStep ==
    ASSUME PciAssumption, QuietGuest = TRUE, PciTypeOK, HoldsAreWiredOr,
           [PciNext]_vars
    PROVE  HoldsAreWiredOr'
  <1>0. \A line : IsLevel(line) <=> line \in elcr
    BY DEF IsLevel, PciAssumption
  <1>0p. \A line : IsLevel(line)' <=> line \in elcr'
    BY DEF IsLevel, PciAssumption
  <1>1. ASSUME UNCHANGED <<pci_irq_hold, pci_irqs, pci_mirqs, raised, elcr>>
        PROVE  HoldsAreWiredOr'
    BY <1>0, <1>0p, <1>1 DEF HoldsAreWiredOr, LineOf
  <1>2. ASSUME raised = {}, raised' = {}, 
               \A line \in AllIrqs : pci_irq_hold[line] = {} => pci_irq_hold'[line] = {}
        PROVE  HoldsAreWiredOr'
    <2>1. \A line \in AllIrqs : pci_irq_hold[line] = {}
      BY <1>2 DEF HoldsAreWiredOr
    <2> QED BY <1>2, <2>1 DEF HoldsAreWiredOr
  <1>3. ASSUME NEW h \in Users, PciSetIrq(h) PROVE HoldsAreWiredOr'
    <2> DEFINE line == LineOf(h)
    <2>1. \A x : LineOf(x)' = LineOf(x)
      BY <1>3 DEF PciSetIrq, LineOf
    <2>2. elcr' = elcr
      BY <1>3 DEF PciSetIrq, PicIntLevel, PicIntCommon, picVars
    <2>3. raised' = raised \cup {h}
      BY <1>3 DEF PciSetIrq
    <2>4. pci_irq_hold' = IF line # Disabled /\ line \in elcr
                          THEN [pci_irq_hold EXCEPT ![line] = @ \cup {h}]
                          ELSE pci_irq_hold
      <3>1. CASE line # Disabled /\ line \in elcr /\ h \in pci_irq_hold[line]
        <4>1. line \in AllIrqs
          BY <3>1, LineOfType
        <4>2. pci_irq_hold[line] \cup {h} = pci_irq_hold[line]
          BY <3>1
        <4>3. [pci_irq_hold EXCEPT ![line] = @ \cup {h}] = pci_irq_hold
          BY <4>1, <4>2 DEF PciTypeOK
        <4>4. pci_irq_hold' = pci_irq_hold
          BY <1>0, <1>3, <3>1 DEF PciSetIrq
        <4> QED BY <3>1, <4>3, <4>4
      <3> QED BY <1>0, <1>3, <3>1 DEF PciSetIrq
    <2>5. ASSUME NEW l \in AllIrqs
          PROVE  pci_irq_hold'[l] = IF l \in elcr THEN {x \in raised' : LineOf(x) = l}
                                                  ELSE {}
      <3>1. pci_irq_hold[l] = IF l \in elcr THEN {x \in raised : LineOf(x) = l} ELSE {}
        BY <1>0 DEF HoldsAreWiredOr
      <3>2. CASE l = line
        <4>1. line # Disabled
          BY <3>2, LineOfType
        <4>2. pci_irq_hold'[l] = IF l \in elcr THEN pci_irq_hold[l] \cup {h}
                                               ELSE pci_irq_hold[l]
          BY <2>4, <3>2, <4>1 DEF PciTypeOK
        <4> QED BY <2>3, <3>1, <3>2, <4>2
      <3>3. CASE l # line
        <4>1. pci_irq_hold'[l] = pci_irq_hold[l]
          BY <2>4, <3>3 DEF PciTypeOK
        <4> QED BY <2>3, <3>1, <3>3, <4>1
      <3> QED BY <3>2, <3>3
    <2> QED BY <1>0p, <2>1, <2>2, <2>5 DEF HoldsAreWiredOr
  <1>4. ASSUME NEW h \in Users, PciClearIrq(h) PROVE HoldsAreWiredOr'
    <2> DEFINE line == LineOf(h)
    <2>1. \A x : LineOf(x)' = LineOf(x)
      BY <1>4 DEF PciClearIrq, LineOf
    <2>2. elcr' = elcr
      BY <1>4 DEF PciClearIrq, PicIntC, picVars
    <2>3. raised' = raised \ {h}
      BY <1>4 DEF PciClearIrq
    <2>4. pci_irq_hold' = IF line # Disabled /\ line \in elcr
                          THEN [pci_irq_hold EXCEPT ![line] = @ \ {h}]
                          ELSE pci_irq_hold
      <3>1. CASE line # Disabled /\ line \in elcr /\ h \notin pci_irq_hold[line]
        <4>1. line \in AllIrqs
          BY <3>1, LineOfType
        <4>2. pci_irq_hold[line] \ {h} = pci_irq_hold[line]
          BY <3>1
        <4>3. [pci_irq_hold EXCEPT ![line] = @ \ {h}] = pci_irq_hold
          BY <4>1, <4>2 DEF PciTypeOK
        <4>4. pci_irq_hold' = pci_irq_hold
          BY <1>0, <1>4, <3>1 DEF PciClearIrq
        <4> QED BY <3>1, <4>3, <4>4
      <3> QED BY <1>0, <1>4, <3>1 DEF PciClearIrq
    <2>5. ASSUME NEW l \in AllIrqs
          PROVE  pci_irq_hold'[l] = IF l \in elcr THEN {x \in raised' : LineOf(x) = l}
                                                  ELSE {}
      <3>1. pci_irq_hold[l] = IF l \in elcr THEN {x \in raised : LineOf(x) = l} ELSE {}
        BY <1>0 DEF HoldsAreWiredOr
      <3>2. CASE l = line
        <4>1. line # Disabled
          BY <3>2, LineOfType
        <4>2. pci_irq_hold'[l] = IF l \in elcr THEN pci_irq_hold[l] \ {h}
                                               ELSE pci_irq_hold[l]
          BY <2>4, <3>2, <4>1 DEF PciTypeOK
        <4> QED BY <2>3, <3>1, <3>2, <4>2
      <3>3. CASE l # line
        <4>1. pci_irq_hold'[l] = pci_irq_hold[l]
          BY <2>4, <3>3 DEF PciTypeOK
        <4> QED BY <2>3, <3>1, <3>3, <4>1
      <3> QED BY <3>2, <3>3
    <2> QED BY <1>0p, <2>1, <2>2, <2>5 DEF HoldsAreWiredOr
  <1>5. CASE RoutingNext
    <2>1. raised = {} /\ raised' = {} /\ pci_irq_hold' = pci_irq_hold
      BY <1>5 DEF RoutingNext, SetIrqRouting, SetMirqRouting, MayReprogram
    <2> QED BY <1>2, <2>1
  <1>6. CASE TrcReset \/ PciHardReset
    <2>1. raised' = {} /\ pci_irq_hold' = NoHolds
      BY <1>6 DEF TrcReset, PciHardReset, MayReprogram
    <2>2. \A line \in AllIrqs : pci_irq_hold'[line] = {}
      BY <2>1 DEF NoHolds
    <2> QED BY <2>1, <2>2 DEF HoldsAreWiredOr
  <1>7. CASE PicNext
    <2>1. UNCHANGED <<pci_irq_hold, pci_irqs, pci_mirqs, raised>>
      BY <1>7 DEF PicNext, pciVars
    <2>2. CASE raised = {}
      BY <1>2, <2>1, <2>2
    <2>3. CASE raised # {}
      <3>1. GuestNext \/ DeviceNext \/ CpuNext
        BY <1>7, <2>3 DEF PicNext, MayReprogram
      <3>2. elcr' = elcr
        BY <3>1, PicStepKeepsElcr
      <3> QED BY <1>1, <2>1, <3>2
    <2> QED BY <2>2, <2>3
  <1>8. CASE UNCHANGED vars
    BY <1>1, <1>8 DEF vars, picVars, pciVars
  <1> QED BY <1>3, <1>4, <1>5, <1>6, <1>7, <1>8 DEF PciNext, CardNext

\* pci_irq_hold is exactly the wired OR of the pins routed to a line now, for
\* every set of cards, wiring and routing, if the guest does not reprogram
\* under a raised pin (pci_set_irq, pci_clear_irq).
THEOREM PciHoldsAreWiredOr ==
    ASSUME QuietGuest = TRUE
    PROVE  PciSpec => []HoldsAreWiredOr
  <1>1. PciInit => HoldsAreWiredOr
    BY DEF PciInit, HoldsAreWiredOr, NoHolds
  <1>2. PicInv /\ PciTypeOK /\ HoldsAreWiredOr /\ [PciNext]_vars => HoldsAreWiredOr'
    BY WiredOrStep, PciAssumption
  <1> QED BY <1>1, <1>2, PciPicInvariant, PTL DEF PciSpec

(***************************************************************************)
(* Level triggered lines.                                                  *)
(***************************************************************************)

\* ISA devices and PCI pins use different lines, and neither uses line 2, which
\* an AT redirects to line 9.
LinesApart ==
    /\ IrqLines \cap RouteValues = {}
    /\ CascadeLine \notin IrqLines \cup RouteValues

\* A line picintlevel holds raised is raised by a pin, but for ISA lines.
CurrentHasCause ==
    \A line \in AllIrqs \ IrqLines :
        line \in pic_current => \E h \in raised : LineOf(h) = line

HeldIsCurrent == Held \subseteq pic_current

LineInv ==
    PicInv /\ PciTypeOK /\ HoldsAreWiredOr /\ CurrentHasCause /\ HeldIsCurrent

\* A held line is level triggered, routed to, and no ISA line.
LEMMA HeldLines ==
    ASSUME PciAssumption, LinesApart, PicInv, PciTypeOK, HoldsAreWiredOr,
           NEW line \in Held
    PROVE  /\ line \in AllIrqs /\ line \in elcr /\ line \in ElcrLines
           /\ line \notin IrqLines /\ line # CascadeLine
           /\ raised # {}
  <1>1. line \in AllIrqs /\ pci_irq_hold[line] # {}
    BY DEF Held
  <1>2. IsLevel(line)
    BY <1>1 DEF HoldsAreWiredOr
  <1>3. line \in elcr /\ elcr \in SUBSET ElcrLines
    BY <1>2, InvRegisters DEF IsLevel, PciAssumption
  <1>4. PICK h \in raised : LineOf(h) = line
    BY <1>1, <1>2 DEF HoldsAreWiredOr
  <1>5. line \in RouteValues
    <2>1. h \in Users
      BY DEF PciTypeOK
    <2>2. line \in RouteValues \cup {Disabled} /\ Disabled \notin AllIrqs
      BY <1>4, <2>1, LineOfType
    <2> QED BY <1>1, <2>2
  <1> QED BY <1>1, <1>3, <1>4, <1>5 DEF LinesApart

\* Devices change what picintlevel holds only of their own lines.
LEMMA PicStepKeepsCurrent ==
    ASSUME LinesApart,
           StartNext \/ ElcrNext \/ GuestNext \/ DeviceNext \/ CpuNext,
           NEW line, line \notin IrqLines
    PROVE  line \in pic_current' <=> line \in pic_current
  <1>1. CASE StartNext \/ ElcrNext
    BY <1>1 DEF StartNext, Icw1, ElcrNext, ElcrWrite
  <1>2. CASE GuestNext
    BY <1>2 DEF GuestNext, Ocw1, Icw2, Icw3, Icw4, SpecificEoi, NonSpecificEoi, Ocw3,
                SetChip, SetChipAndUpdate, EndOfInterrupt
  <1>3. CASE DeviceNext
    <2>1. PICK irq \in IrqLines : PicInt(irq) \/ PicIntLevel(irq) \/ PicIntC(irq)
      BY <1>3 DEF DeviceNext
    <2>2. Redirect(irq) = irq
      BY DEF Redirect, LinesApart, CascadeLine
    <2> QED BY <2>1, <2>2 DEF PicInt, PicIntLevel, PicIntCommon, PicIntC, picVars
  <1>4. CASE CpuNext
    BY <1>4 DEF CpuNext, PicInterrupt
  <1> QED BY <1>1, <1>2, <1>3, <1>4

\* Each operation keeps picintlevel's record of raised lines and the holds together.
LEMMA CurrentStep ==
    ASSUME PciAssumption, QuietGuest = TRUE, UserResets = FALSE, LinesApart,
           LineInv, [PciNext]_vars
    PROVE  CurrentHasCause' /\ HeldIsCurrent'
  <1> USE DEF LineInv
  <1>0. \A line : IsLevel(line) <=> line \in elcr
    BY DEF IsLevel, PciAssumption
  <1>1. ASSUME NEW h \in Users, PciSetIrq(h) PROVE CurrentHasCause' /\ HeldIsCurrent'
    <2> DEFINE line == LineOf(h)
    <2>1. \A x : LineOf(x)' = LineOf(x)
      BY <1>1 DEF PciSetIrq, LineOf
    <2>2. raised' = raised \cup {h}
      BY <1>1 DEF PciSetIrq
    <2>3. CASE line = Disabled \/ (IsLevel(line) /\ h \in pci_irq_hold[line])
      <3>1. pic_current' = pic_current /\ pci_irq_hold' = pci_irq_hold
        BY <1>1, <2>3 DEF PciSetIrq, picVars
      <3> QED BY <2>1, <2>2, <3>1 DEF CurrentHasCause, HeldIsCurrent, Held
    <2>4. CASE ~(line = Disabled \/ (IsLevel(line) /\ h \in pci_irq_hold[line]))
      <3>1. line \in AllIrqs /\ line # CascadeLine
        BY <2>4, LineOfType DEF LinesApart
      <3>2. Redirect(line) = line
        BY <3>1 DEF Redirect, CascadeLine
      <3>3. PicIntLevel(line) => pic_current' = pic_current \cup {line}
        BY <3>2 DEF PicIntLevel, PicIntCommon, picVars
      <3>4. \A l \in AllIrqs : l # line => pci_irq_hold'[l] = pci_irq_hold[l]
        BY <1>1, <2>4 DEF PciSetIrq, PciTypeOK
      <3>5. PicIntLevel(line) \/ (line \in Held /\ UNCHANGED picVars)
        BY <1>1, <2>4, <3>1 DEF PciSetIrq, Held
      <3>6. line \in pic_current' /\ pic_current \subseteq pic_current'
            /\ pic_current' \subseteq pic_current \cup {line}
        BY <3>3, <3>5 DEF HeldIsCurrent, picVars
      <3>7. CurrentHasCause'
        BY <2>1, <2>2, <3>6 DEF CurrentHasCause
      <3>8. HeldIsCurrent'
        BY <3>4, <3>6 DEF HeldIsCurrent, Held
      <3> QED BY <3>7, <3>8
    <2> QED BY <2>3, <2>4
  <1>2. ASSUME NEW h \in Users, PciClearIrq(h) PROVE CurrentHasCause' /\ HeldIsCurrent'
    <2> DEFINE line == LineOf(h)
    <2>1. \A x : LineOf(x)' = LineOf(x)
      BY <1>2 DEF PciClearIrq, LineOf
    <2>2. raised' = raised \ {h}
      BY <1>2 DEF PciClearIrq
    <2>3. CASE line = Disabled \/ (IsLevel(line) /\ h \notin pci_irq_hold[line])
      <3>1. pic_current' = pic_current /\ pci_irq_hold' = pci_irq_hold
        BY <1>2, <2>3 DEF PciClearIrq, picVars
      <3>2. line \in AllIrqs => h \notin raised
        BY <2>3, LineOfType DEF HoldsAreWiredOr
      <3> QED BY <2>1, <2>2, <3>1, <3>2 DEF CurrentHasCause, HeldIsCurrent, Held
    <2>4. CASE ~(line = Disabled \/ (IsLevel(line) /\ h \notin pci_irq_hold[line]))
      <3>1. line \in AllIrqs /\ line # CascadeLine
        BY <2>4, LineOfType DEF LinesApart
      <3>2. Redirect(line) = line
        BY <3>1 DEF Redirect, CascadeLine
      <3>3. \A l \in AllIrqs : pci_irq_hold'[l] \subseteq pci_irq_hold[l]
        BY <1>2, <2>4 DEF PciClearIrq, PciTypeOK
      <3>4. CASE PicIntC(line) /\ (IsLevel(line) => pci_irq_hold[line] = {h})
        <4>1. pic_current' = pic_current \ {line}
          BY <3>2, <3>4 DEF PicIntC
        <4>2. pci_irq_hold'[line] = {}
          <5>1. CASE IsLevel(line)
            <6>1. pci_irq_hold' = [pci_irq_hold EXCEPT ![line] = @ \ {h}]
              BY <1>2, <2>4, <5>1 DEF PciClearIrq
            <6>2. pci_irq_hold'[line] = pci_irq_hold[line] \ {h}
              BY <3>1, <6>1 DEF PciTypeOK
            <6> QED BY <3>4, <5>1, <6>2
          <5>2. CASE ~IsLevel(line)
            <6>1. pci_irq_hold' = pci_irq_hold
              BY <1>2, <2>4, <5>2 DEF PciClearIrq
            <6> QED BY <3>1, <5>2, <6>1 DEF HoldsAreWiredOr
          <5> QED BY <5>1, <5>2
        <4>3. CurrentHasCause'
          BY <2>1, <2>2, <4>1 DEF CurrentHasCause
        <4>4. HeldIsCurrent'
          BY <3>3, <4>1, <4>2 DEF HeldIsCurrent, Held
        <4> QED BY <4>3, <4>4
      <3>5. CASE IsLevel(line) /\ pci_irq_hold[line] # {h} /\ UNCHANGED picVars
        <4>1. pic_current' = pic_current
          BY <3>5 DEF picVars
        <4>2. PICK y \in pci_irq_hold[line] : y # h
          BY <2>4, <3>5
        <4>3. y \in raised /\ LineOf(y) = line
          BY <3>1, <3>5, <4>2 DEF HoldsAreWiredOr
        <4>4. CurrentHasCause'
          <5> SUFFICES ASSUME NEW l \in AllIrqs \ IrqLines, l \in pic_current
                       PROVE  \E x \in raised' : LineOf(x)' = l
            BY <4>1 DEF CurrentHasCause
          <5>1. PICK x \in raised : LineOf(x) = l
            BY DEF CurrentHasCause
          <5>2. CASE x = h
            BY <2>1, <2>2, <4>2, <4>3, <5>1, <5>2
          <5>3. CASE x # h
            BY <2>1, <2>2, <5>1, <5>3
          <5> QED BY <5>2, <5>3
        <4>5. HeldIsCurrent'
          BY <3>3, <4>1 DEF HeldIsCurrent, Held
        <4> QED BY <4>4, <4>5
      <3> QED BY <1>2, <2>4, <3>4, <3>5 DEF PciClearIrq
    <2> QED BY <2>3, <2>4
  <1>3. CASE RoutingNext
    <2>1. raised = {} /\ UNCHANGED <<raised, pci_irq_hold, pic_current>>
      BY <1>3 DEF RoutingNext, SetIrqRouting, SetMirqRouting, MayReprogram, picVars
    <2> QED BY <2>1 DEF CurrentHasCause, HeldIsCurrent, Held
  <1>4. CASE TrcReset \/ PciHardReset
    <2>1. raised' = {} /\ pci_irq_hold' = NoHolds
      BY <1>4 DEF TrcReset, PciHardReset, MayReprogram
    <2>2. raised = {} \/ pic_current = {}
      BY <1>4 DEF TrcReset, PciHardReset, MayReprogram
    <2>3. pic_current' \subseteq pic_current
      BY <1>4 DEF TrcReset, PciHardReset, PicReset, HardReset
    <2>4. CurrentHasCause'
      BY <2>2, <2>3 DEF CurrentHasCause
    <2>5. Held' = {}
      BY <2>1 DEF Held, NoHolds
    <2> QED BY <2>4, <2>5 DEF HeldIsCurrent
  <1>5. CASE PicNext
    <2>1. UNCHANGED <<raised, pci_irq_hold, pci_irqs, pci_mirqs>>
      BY <1>5 DEF PicNext, pciVars
    <2>2. \A line : line \notin IrqLines =>
                       (line \in pic_current' <=> line \in pic_current)
      BY <1>5, PicStepKeepsCurrent DEF PicNext
    <2>3. CurrentHasCause'
      BY <2>1, <2>2 DEF CurrentHasCause, LineOf
    <2>4. HeldIsCurrent'
      BY <2>1, <2>2, HeldLines DEF HeldIsCurrent, Held
    <2> QED BY <2>3, <2>4
  <1>6. CASE UNCHANGED vars
    BY <1>6 DEF vars, picVars, pciVars, CurrentHasCause, HeldIsCurrent, Held, LineOf
  <1> QED BY <1>1, <1>2, <1>3, <1>4, <1>5, <1>6 DEF PciNext, CardNext

\* No line is raised at power on.
LEMMA LineInit == ASSUME PciAssumption, ConstantsAssumption, PciInit PROVE LineInv
  <1>1. PicInv /\ PciTypeOK
    BY InitInv, PciTypeInit DEF PciInit
  <1>2. Held = {} /\ pic_current = {} /\ HoldsAreWiredOr
    BY DEF PciInit, Init, Held, NoHolds, HoldsAreWiredOr
  <1> QED BY <1>1, <1>2 DEF LineInv, CurrentHasCause, HeldIsCurrent

\* LineInv is inductive.
LEMMA LineStep ==
    ASSUME PciAssumption, ConstantsAssumption, QuietGuest = TRUE, UserResets = FALSE,
           LinesApart, LineInv, [PciNext]_vars
    PROVE  LineInv'
  <1>1. PicInv' /\ PciTypeOK' /\ HoldsAreWiredOr'
    BY PciKeepsPicInv, PciTypeStep, WiredOrStep DEF LineInv
  <1> QED BY <1>1, CurrentStep DEF LineInv

\* The controllers see a level triggered line raised exactly while some card
\* holds it, for every set of cards, wiring and routing.
THEOREM PciLineFollowsHolds ==
    ASSUME QuietGuest = TRUE, UserResets = FALSE, LinesApart
    PROVE  PciSpec => []LineFollowsHolds
  <1>1. PciInit => LineInv
    BY LineInit, PciAssumption, ConstantsAssumption
  <1>2. LineInv /\ [PciNext]_vars => LineInv'
    BY LineStep, PciAssumption, ConstantsAssumption
  <1>3. LineInv => LineFollowsHolds
    BY DEF LineInv, LineFollowsHolds, CurrentHasCause, HeldIsCurrent, Held,
           HoldsAreWiredOr
  <1> QED BY <1>1, <1>2, <1>3, PTL DEF PciSpec

(***************************************************************************)
(* A held line is not forgotten.                                           *)
(***************************************************************************)

\* Line l is requested or in service at chips with registers m and s.
Waits(m, s, l) == IF l < 8 THEN l \in m.pend \cup m.ins
                           ELSE l - 8 \in s.pend \cup s.ins

\* ICW3 is programmed for the wiring of the board, or not yet.
SlaveIdentified == pic2.icw3 \in {0, CascadeLine}

\* Waits is what Waiting says of one line.
LEMMA WaitsMeans ==
    ASSUME PicInv, NEW l \in AllIrqs
    PROVE  l \in Waiting <=> Waits(pic, pic2, l)
  <1>1. pic.pend \cup pic.ins \in SUBSET Lines /\ pic2.pend \cup pic2.ins \in SUBSET Lines
    BY InvRegisters DEF MasterType, SlaveType, ChipType
  <1>2. \A k \in Lines : k < 8 /\ ~(8 + k < 8) /\ (8 + k) - 8 = k
    BY DEF Lines
  <1>3. ~(l < 8) => 8 + (l - 8) = l
    BY DEF AllIrqs
  <1> QED BY <1>1, <1>2, <1>3 DEF Waiting, Waits

\* update_pending moves no line but the cascade's.
LEMMA UpdateWaits ==
    ASSUME NEW m \in MasterType, NEW s, m.icw3 \in {{}, {CascadeLine}},
           UpdatePending(m, s), NEW l \in ElcrLines, Waits(m, s, l)
    PROVE  Waits(pic', pic2', l)
  <1>1. pic' = Cascade(m, s) /\ pic2' = s
    BY DEF UpdatePending
  <1>2. l \notin m.icw3
    BY DEF ElcrLines, CascadeLine
  <1>3. l \in m.pend => l \in Cascade(m, s).pend
    BY <1>2 DEF Cascade, MasterType, ChipType
  <1>4. Cascade(m, s).ins = m.ins
    BY DEF Cascade, MasterType, ChipType
  <1> QED BY <1>1, <1>3, <1>4 DEF Waits

\* An EOI ends a raised level line only to request it again.
LEMMA EoiMasterWaits ==
    ASSUME PCI, NEW m \in MasterType, m.icw3 \in {{}, {CascadeLine}}, NEW k \in Lines,
           NEW l \in ElcrLines, l \in elcr, l \in pic_current,
           l = k \/ l \in m.pend \cup m.ins
    PROVE  l \in EoiMaster(m, k).pend \cup EoiMaster(m, k).ins
  <1>1. IsLevel(l) /\ m.icw3 # {l}
    BY DEF IsLevel, ElcrLines, CascadeLine
  <1>2. EoiMaster(m, k).ins = m.ins \ {k}
    BY EoiMasterType
  <1>3. /\ l \in m.pend => l \in EoiMaster(m, k).pend
        /\ l = k => l \in EoiMaster(m, k).pend
    BY <1>1 DEF EoiMaster, MasterType, ChipType
  <1> QED BY <1>2, <1>3

\* Ending a raised level line of the slave requests it again.
LEMMA EoiSlaveWaits ==
    ASSUME PCI, NEW s \in SlaveType, NEW k \in Lines,
           NEW l \in ElcrLines, ~(l < 8), l \in elcr, l \in pic_current,
           l - 8 = k \/ l - 8 \in s.pend \cup s.ins
    PROVE  l - 8 \in EoiSlave(s, k).pend \cup EoiSlave(s, k).ins
  <1>1. EoiSlave(s, k).ins = s.ins \ {k}
    BY DEF EoiSlave, SlaveType, ChipType
  <1>2. l - 8 \in s.pend => l - 8 \in EoiSlave(s, k).pend
    BY DEF EoiSlave, SlaveType, ChipType
  <1>3. l - 8 = k => l - 8 \in EoiSlave(s, k).pend
    <2>1. l - 8 = k => 8 + k = l
      BY DEF ElcrLines, AllIrqs
    <2>2. l - 8 = k => StillRaised(k)
      BY <2>1 DEF StillRaised, IsLevel
    <2> QED BY <2>2 DEF EoiSlave, SlaveType, ChipType
  <1> QED BY <1>1, <1>2, <1>3

\* No end of interrupt, at either chip, forgets a raised level line.
LEMMA EndOfInterruptWaits ==
    ASSUME PCI, PicInv, NEW slave \in BOOLEAN, NEW k \in Lines, EndOfInterrupt(slave, k),
           NEW l \in ElcrLines, l \in elcr, l \in pic_current, Waits(pic, pic2, l)
    PROVE  Waits(pic', pic2', l)
  <1> USE InvRegisters
  <1>1. CASE slave
    <2> DEFINE m == EoiSlaveAtMaster(pic, pic2, k)
               s == EoiSlave(pic2, k)
    <2>1. UpdatePending(m, s)
      BY <1>1 DEF EndOfInterrupt
    <2>2. m \in MasterType /\ m.ins = pic.ins /\ m.icw3 = pic.icw3
      BY EoiSlaveAtMasterType
    <2>3. pic.pend \subseteq m.pend
      BY DEF EoiSlaveAtMaster, MasterType, ChipType
    <2>4. CASE l < 8
      BY <2>1, <2>2, <2>3, <2>4, UpdateWaits DEF Waits
    <2>5. CASE ~(l < 8)
      <3>1. l - 8 \in s.pend \cup s.ins
        BY <2>5, EoiSlaveWaits DEF Waits
      <3>2. Waits(m, s, l)
        BY <2>5, <3>1 DEF Waits
      <3> HIDE DEF m, s
      <3> QED BY <2>1, <2>2, <3>2, UpdateWaits
    <2> QED BY <2>4, <2>5
  <1>2. CASE ~slave
    <2> DEFINE m == EoiMaster(pic, k)
    <2>1. UpdatePending(m, pic2)
      BY <1>2 DEF EndOfInterrupt
    <2>2. m \in MasterType /\ m.icw3 = pic.icw3
      BY EoiMasterType
    <2>3. Waits(m, pic2, l)
      BY EoiMasterWaits DEF Waits
    <2> HIDE DEF m
    <2> QED BY <2>1, <2>2, <2>3, UpdateWaits
  <1> QED BY <1>1, <1>2

\* The guest's writes, but ICW1, forget no raised level line.
LEMMA GuestWaits ==
    ASSUME PCI, ConstantsAssumption, PicInv, GuestNext,
           NEW l \in ElcrLines, l \in elcr, l \in pic_current, Waits(pic, pic2, l)
    PROVE  Waits(pic', pic2', l)
  <1> USE InvRegisters
  <1>1. PICK slave \in BOOLEAN :
           \/ \E m \in Masks : Ocw1(slave, m)
           \/ \E v \in Vectors : Icw2(slave, v)
           \/ Icw3(slave)
           \/ \E a \in AeoiValues : Icw4(slave, a)
           \/ \E k \in Lines : SpecificEoi(slave, k)
           \/ NonSpecificEoi(slave)
           \/ \E r \in ReadSelects : Ocw3(slave, r)
    BY DEF GuestNext
  <1>2. ASSUME NEW m \in Masks, Ocw1(slave, m) PROVE Waits(pic', pic2', l)
    <2> DEFINE d == [Chip(slave) EXCEPT !.mask = m]
    <2>1. m \in SUBSET Lines
      BY DEF ConstantsAssumption
    <2>2. CASE slave
      <3>1. UpdatePending(pic, d) /\ d.pend = pic2.pend /\ d.ins = pic2.ins
        BY <1>2, <2>2 DEF Ocw1, SetChipAndUpdate, Chip, SlaveType, ChipType
      <3> HIDE DEF d
      <3>2. Waits(pic, d, l)
        BY <3>1 DEF Waits
      <3> QED BY <3>1, <3>2, UpdateWaits
    <2>3. CASE ~slave
      <3>1. UpdatePending(d, pic2) /\ d.pend = pic.pend /\ d.ins = pic.ins
            /\ d.icw3 = pic.icw3
        BY <1>2, <2>3 DEF Ocw1, SetChipAndUpdate, Chip, MasterType, ChipType
      <3>2. d \in MasterType
        BY <2>1, <2>3 DEF Chip, MasterType, ChipType
      <3> HIDE DEF d
      <3>3. Waits(d, pic2, l)
        BY <3>1 DEF Waits
      <3> QED BY <3>1, <3>2, <3>3, UpdateWaits
    <2> QED BY <2>2, <2>3
  <1>3. ASSUME NEW d, SetChip(slave, d), d.pend = Chip(slave).pend,
               d.ins = Chip(slave).ins
        PROVE  Waits(pic', pic2', l)
    BY <1>3 DEF SetChip, Chip, Waits
  <1>4. ASSUME NEW v \in Vectors, Icw2(slave, v) PROVE Waits(pic', pic2', l)
    <2> DEFINE d == [Chip(slave) EXCEPT !.vector = v,
                        !.icw = IF "sngl" \in Chip(slave).icw1 THEN 3 ELSE 2]
    <2>1. SetChip(slave, d)
      BY <1>4 DEF Icw2
    <2>2. d.pend = Chip(slave).pend /\ d.ins = Chip(slave).ins
      BY DEF Chip, MasterType, SlaveType, ChipType
    <2> QED BY <1>3, <2>1, <2>2
  <1>5. ASSUME Icw3(slave) PROVE Waits(pic', pic2', l)
    <2> DEFINE d == [Chip(slave) EXCEPT
                        !.icw3 = IF slave THEN CascadeLine ELSE {CascadeLine},
                        !.icw = IF "ic4" \in Chip(slave).icw1 THEN 3 ELSE 0]
    <2>1. SetChip(slave, d)
      BY <1>5 DEF Icw3
    <2>2. d.pend = Chip(slave).pend /\ d.ins = Chip(slave).ins
      BY DEF Chip, MasterType, SlaveType, ChipType
    <2> QED BY <1>3, <2>1, <2>2
  <1>6. ASSUME NEW a \in AeoiValues, Icw4(slave, a) PROVE Waits(pic', pic2', l)
    <2> DEFINE d == [Chip(slave) EXCEPT !.aeoi = a, !.icw = 0]
    <2>1. SetChip(slave, d)
      BY <1>6 DEF Icw4
    <2>2. d.pend = Chip(slave).pend /\ d.ins = Chip(slave).ins
      BY DEF Chip, MasterType, SlaveType, ChipType
    <2> QED BY <1>3, <2>1, <2>2
  <1>7. ASSUME NEW r \in ReadSelects, Ocw3(slave, r) PROVE Waits(pic', pic2', l)
    <2> DEFINE d == [Chip(slave) EXCEPT !.read = r]
    <2>1. SetChip(slave, d)
      BY <1>7 DEF Ocw3
    <2>2. d.pend = Chip(slave).pend /\ d.ins = Chip(slave).ins
      BY DEF Chip, MasterType, SlaveType, ChipType
    <2> QED BY <1>3, <2>1, <2>2
  <1>8. ASSUME NEW k \in Lines, SpecificEoi(slave, k) PROVE Waits(pic', pic2', l)
    BY <1>8, EndOfInterruptWaits DEF SpecificEoi
  <1>9. ASSUME NonSpecificEoi(slave) PROVE Waits(pic', pic2', l)
    <2>1. Chip(slave).ins \in SUBSET Lines /\ Chip(slave).ins # {}
      BY <1>9 DEF NonSpecificEoi, Chip, MasterType, SlaveType, ChipType
    <2>2. First(Chip(slave).ins) \in Lines
      BY <2>1, FirstType
    <2> QED BY <1>9, <2>2, EndOfInterruptWaits DEF NonSpecificEoi
  <1> QED BY <1>1, <1>2, <1>4, <1>5, <1>6, <1>7, <1>8, <1>9

\* An interrupt the processor takes goes into service, or is requested again
\* at once.
LEMMA TakeWaits ==
    ASSUME PCI, PicInv, NEW irq \in AllIrqs, PicInterrupt(irq),
           NEW l \in ElcrLines, l \in elcr, l \in pic_current, Waits(pic, pic2, l)
    PROVE  Waits(pic', pic2', l)
  <1> USE InvRegisters
  <1>1. CASE irq < 8
    <2> DEFINE m == [pic EXCEPT !.pend = @ \ {irq}, !.ins = @ \cup {irq},
                                !.mask2 = UpdateMask(pic.ins \cup {irq})]
               e == IF pic.aeoi THEN EoiMaster(m, irq) ELSE m
    <2>1. UpdatePending(e, pic2)
      BY <1>1 DEF PicInterrupt, TakesMaster
    <2>2. irq \in Lines
      BY <1>1 DEF Lines, AllIrqs
    <2>3. /\ m \in MasterType /\ m.icw3 = pic.icw3
          /\ m.pend = pic.pend \ {irq} /\ m.ins = pic.ins \cup {irq}
      BY <2>2, UpdateMaskType DEF MasterType, ChipType
    <2> HIDE DEF m
    <2>4. e \in MasterType /\ e.icw3 = pic.icw3
      BY <2>2, <2>3, EoiMasterType
    <2>5. l < 8 => l \in e.pend \cup e.ins
      <3>1. l < 8 => l \in m.pend \cup m.ins
        BY <2>3 DEF Waits
      <3> QED BY <2>2, <2>3, <3>1, EoiMasterWaits
    <2>6. Waits(e, pic2, l)
      BY <2>5 DEF Waits
    <2> HIDE DEF e
    <2> QED BY <2>1, <2>4, <2>6, UpdateWaits
  <1>2. CASE ~(irq < 8)
    <2> DEFINE k == irq - 8
               s == [pic2 EXCEPT !.pend = @ \ {k}, !.ins = @ \cup {k},
                                 !.mask2 = UpdateMask(pic2.ins \cup {k})]
               mIns == pic.ins \cup {pic2.icw3}
               m == [pic EXCEPT !.ins = mIns, !.mask2 = UpdateMask(mIns)]
    <2>1. k \in Lines
      BY <1>2 DEF Lines, AllIrqs
    <2>2. /\ s \in SlaveType
          /\ s.pend = pic2.pend \ {k} /\ s.ins = pic2.ins \cup {k}
      BY <2>1, UpdateMaskType DEF SlaveType, ChipType
    <2>3. /\ m \in MasterType /\ m.icw3 = pic.icw3
          /\ m.pend = pic.pend /\ pic.ins \subseteq m.ins
      BY UpdateMaskType DEF MasterType, SlaveType, ChipType
    <2>4. TakesSlave(k)
      BY <1>2 DEF PicInterrupt
    <2>5. \/ pic2.aeoi /\ UpdatePending(EoiSlaveAtMaster(m, s, k), EoiSlave(s, k))
          \/ ~pic2.aeoi /\ UpdatePending(m, s)
      BY <2>4 DEF TakesSlave
    <2> HIDE DEF m, s, k
    <2>6. Waits(m, s, l)
      BY <2>2, <2>3 DEF Waits
    <2>7. CASE UpdatePending(m, s)
      BY <2>3, <2>6, <2>7, UpdateWaits
    <2>8. CASE UpdatePending(EoiSlaveAtMaster(m, s, k), EoiSlave(s, k))
      <3> DEFINE n == EoiSlaveAtMaster(m, s, k)
                 t == EoiSlave(s, k)
      <3>1. n \in MasterType /\ n.ins = m.ins /\ n.icw3 = m.icw3
        BY <2>2, <2>3, EoiSlaveAtMasterType
      <3>2. m.pend \subseteq n.pend
        BY <2>2, <2>3 DEF EoiSlaveAtMaster, MasterType, SlaveType, ChipType
      <3>3. ~(l < 8) => l - 8 \in t.pend \cup t.ins
        BY <2>1, <2>2, <2>6, EoiSlaveWaits DEF Waits
      <3> HIDE DEF n, t
      <3>4. Waits(n, t, l)
        BY <2>6, <3>1, <3>2, <3>3 DEF Waits
      <3>5. UpdatePending(n, t)
        BY <2>8 DEF n, t
      <3> QED BY <2>3, <3>1, <3>4, <3>5, UpdateWaits
    <2> QED BY <2>5, <2>7, <2>8
  <1> QED BY <1>1, <1>2

\* A device that raises a line makes it wait and moves no other one.
LEMMA RaiseWaits ==
    ASSUME PicInv, NEW irq \in AllIrqs, NEW level \in BOOLEAN,
           PicIntCommon(irq, level), NEW l \in ElcrLines,
           \/ Waits(pic, pic2, l)
           \/ l = Redirect(irq) /\ ~(level /\ l \in pic_current)
    PROVE  Waits(pic', pic2', l)
  <1> DEFINE i == Redirect(irq)
             s == [pic2 EXCEPT !.pend = @ \cup {i - 8}]
  <1> USE InvRegisters
  <1>1. CASE level /\ i \in pic_current
    BY <1>1 DEF PicIntCommon, picVars
  <1>2. CASE ~(level /\ i \in pic_current) /\ i < 8
    <2> DEFINE m == [pic EXCEPT !.pend = @ \cup {i}]
    <2>1. UpdatePending(m, pic2)
      BY <1>2 DEF PicIntCommon
    <2>0. i \in Lines
      BY <1>2 DEF Redirect, Lines, AllIrqs
    <2>2. /\ m \in MasterType /\ m.icw3 = pic.icw3
          /\ m.pend = pic.pend \cup {i} /\ m.ins = pic.ins
      BY <2>0 DEF MasterType, ChipType
    <2> HIDE DEF m, i
    <2>3. Waits(m, pic2, l)
      BY <1>2, <2>2 DEF Waits, i
    <2> QED BY <2>1, <2>2, <2>3, UpdateWaits
  <1>3. CASE ~(level /\ i \in pic_current) /\ ~(i < 8)
    <2> DEFINE m == IF Requests(s) # {}
                    THEN [pic EXCEPT !.pend = @ \cup {pic2.icw3}] ELSE pic
    <2>1. UpdatePending(m, s)
      BY <1>3 DEF PicIntCommon
    <2>2. /\ m \in MasterType /\ m.icw3 = pic.icw3
          /\ pic.pend \subseteq m.pend /\ m.ins = pic.ins
      <3>1. pic2.icw3 \in Lines
        BY DEF SlaveType, ChipType
      <3> QED BY <3>1 DEF MasterType, ChipType
    <2>3. s.pend = pic2.pend \cup {i - 8} /\ s.ins = pic2.ins
      BY DEF SlaveType, ChipType
    <2> HIDE DEF m, s, i
    <2>4. Waits(m, s, l)
      BY <1>3, <2>2, <2>3 DEF Waits, i
    <2> QED BY <2>1, <2>2, <2>4, UpdateWaits
  <1> QED BY <1>1, <1>2, <1>3

\* A device that lowers a line moves no other one but the cascade.
LEMMA LowerWaits ==
    ASSUME PicInv, SlaveIdentified, NEW irq \in AllIrqs, PicIntC(irq),
           NEW l \in ElcrLines, l # Redirect(irq), Waits(pic, pic2, l)
    PROVE  Waits(pic', pic2', l)
  <1> DEFINE i == Redirect(irq)
             s == [pic2 EXCEPT !.pend = @ \ {i - 8}]
  <1> USE InvRegisters
  <1>0. i \in AllIrqs
    BY DEF Redirect, AllIrqs
  <1>1. CASE i < 8
    <2> DEFINE m == [pic EXCEPT !.pend = @ \ {i}]
    <2>1. UpdatePending(m, pic2)
      BY <1>1 DEF PicIntC, Lowered
    <2>2. /\ m \in MasterType /\ m.icw3 = pic.icw3
          /\ m.pend = pic.pend \ {i} /\ m.ins = pic.ins
      BY DEF MasterType, ChipType
    <2> HIDE DEF m
    <2>3. Waits(m, pic2, l)
      BY <1>1, <2>2 DEF Waits
    <2> QED BY <2>1, <2>2, <2>3, UpdateWaits
  <1>2. CASE ~(i < 8)
    <2> DEFINE m == IF Requests(s) = {}
                    THEN [pic EXCEPT !.pend = @ \ {pic2.icw3}] ELSE pic
    <2>1. UpdatePending(m, s)
      BY <1>2 DEF PicIntC, Lowered
    <2>2. /\ m \in MasterType /\ m.icw3 = pic.icw3
          /\ pic.pend \ {pic2.icw3} \subseteq m.pend /\ m.ins = pic.ins
      BY DEF MasterType, ChipType
    <2>3. s.pend = pic2.pend \ {i - 8} /\ s.ins = pic2.ins
      BY DEF SlaveType, ChipType
    <2>4. l # pic2.icw3
      BY DEF ElcrLines, SlaveIdentified, CascadeLine
    <2>5. l - 8 # i - 8
      BY <1>0 DEF ElcrLines, AllIrqs
    <2> HIDE DEF m, s, i
    <2>6. Waits(m, s, l)
      BY <1>2, <2>2, <2>3, <2>4, <2>5 DEF Waits
    <2> QED BY <2>1, <2>2, <2>6, UpdateWaits
  <1> QED BY <1>1, <1>2

\* Only ICW3 and a hard reset change the slave's identity.
LEMMA SlaveIdentifiedStep ==
    ASSUME PciAssumption, ConstantsAssumption, PicInv, PciTypeOK, SlaveIdentified,
           [PciNext]_vars
    PROVE  SlaveIdentified'
  <1> USE InvRegisters
  <1>1. ASSUME pic2'.icw3 \in {0, CascadeLine, pic2.icw3} PROVE SlaveIdentified'
    BY <1>1 DEF SlaveIdentified
  <1>2. CASE UNCHANGED picVars
    BY <1>1, <1>2 DEF picVars
  <1>3. CASE StartNext
    BY <1>1, <1>3 DEF StartNext, Icw1, UpdatePending, Started, SlaveType, ChipType
  <1>4. CASE GuestNext
    <2>1. PICK slave \in BOOLEAN :
             \/ \E m \in Masks : Ocw1(slave, m)
             \/ \E v \in Vectors : Icw2(slave, v)
             \/ Icw3(slave)
             \/ \E a \in AeoiValues : Icw4(slave, a)
             \/ \E k \in Lines : SpecificEoi(slave, k)
             \/ NonSpecificEoi(slave)
             \/ \E r \in ReadSelects : Ocw3(slave, r)
      BY <1>4 DEF GuestNext
    <2>2. CASE slave
      <3>1. CASE \E m \in Masks : Ocw1(slave, m)
        BY <1>1, <2>2, <3>1 DEF Ocw1, SetChipAndUpdate, UpdatePending, Chip, SlaveType,
                                ChipType
      <3>2. CASE \E v \in Vectors : Icw2(slave, v)
        BY <1>1, <2>2, <3>2 DEF Icw2, SetChip, Chip, SlaveType, ChipType
      <3>3. CASE Icw3(slave)
        BY <1>1, <2>2, <3>3 DEF Icw3, SetChip, Chip, SlaveType, ChipType
      <3>4. CASE \E a \in AeoiValues : Icw4(slave, a)
        BY <1>1, <2>2, <3>4 DEF Icw4, SetChip, Chip, SlaveType, ChipType
      <3>5. CASE \E r \in ReadSelects : Ocw3(slave, r)
        BY <1>1, <2>2, <3>5 DEF Ocw3, SetChip, Chip, SlaveType, ChipType
      <3>6. ASSUME NEW k, EndOfInterrupt(slave, k) PROVE SlaveIdentified'
        BY <1>1, <2>2, <3>6 DEF EndOfInterrupt, UpdatePending, EoiSlave, SlaveType,
                                ChipType
      <3> QED BY <2>1, <3>1, <3>2, <3>3, <3>4, <3>5, <3>6 DEF SpecificEoi,
                 NonSpecificEoi
    <2>3. CASE ~slave
      <3>1. pic2' = pic2
        BY <2>1, <2>3 DEF Ocw1, Icw2, Icw3, Icw4, Ocw3, SpecificEoi, NonSpecificEoi,
              EndOfInterrupt, SetChip, SetChipAndUpdate, UpdatePending
      <3> QED BY <1>1, <3>1
    <2> QED BY <2>2, <2>3
  <1>5. CASE ElcrNext
    BY <1>1, <1>5 DEF ElcrNext, ElcrWrite
  <1>6. ASSUME NEW irq, NEW level, PicIntCommon(irq, level) PROVE SlaveIdentified'
    BY <1>1, <1>6 DEF PicIntCommon, UpdatePending, picVars, SlaveType, ChipType
  <1>7. ASSUME NEW irq, PicIntC(irq) PROVE SlaveIdentified'
    BY <1>1, <1>7 DEF PicIntC, Lowered, UpdatePending, SlaveType, ChipType
  <1>8. CASE DeviceNext
    BY <1>6, <1>7, <1>8 DEF DeviceNext, PicInt, PicIntLevel
  <1>9. CASE CpuNext
    <2>1. PICK irq \in AllIrqs : IF irq < 8 THEN TakesMaster(irq) ELSE TakesSlave(irq - 8)
      BY <1>9 DEF CpuNext, PicInterrupt
    <2>2. CASE irq < 8
      BY <1>1, <2>1, <2>2 DEF TakesMaster, UpdatePending
    <2>3. CASE ~(irq < 8)
      <3> DEFINE k == irq - 8
                 s == [pic2 EXCEPT !.pend = @ \ {k}, !.ins = @ \cup {k},
                                   !.mask2 = UpdateMask(pic2.ins \cup {k})]
      <3>1. pic2' = EoiSlave(s, k) \/ pic2' = s
        BY <2>1, <2>3 DEF TakesSlave, UpdatePending
      <3>2. s.icw3 = pic2.icw3 /\ EoiSlave(s, k).icw3 = s.icw3
        BY DEF EoiSlave, SlaveType, ChipType
      <3> HIDE DEF s
      <3> QED BY <1>1, <3>1, <3>2
    <2> QED BY <2>2, <2>3
  <1>10. CASE TrcReset \/ PciHardReset
    BY <1>1, <1>10 DEF TrcReset, PciHardReset, PicReset, HardReset, ResetSlave, BootPic2,
                       Zeroed, SlaveType, ChipType
  <1>11. CASE CardNext
    BY <1>2, <1>6, <1>7, <1>11, CardStep DEF CardNext, PicIntLevel
  <1>12. CASE RoutingNext \/ UNCHANGED vars
    BY <1>2, <1>12 DEF RoutingNext, SetIrqRouting, SetMirqRouting, vars
  <1> QED BY <1>3, <1>4, <1>5, <1>8, <1>9, <1>10, <1>11, <1>12 DEF PciNext, PicNext

\* The inductive invariant of the shared lines.
WaitInv ==
    LineInv /\ SlaveIdentified /\ (\A l \in Held : Waits(pic, pic2, l))

\* Each operation keeps every held line requested or in service.
LEMMA WaitsStep ==
    ASSUME PciAssumption, ConstantsAssumption, QuietGuest = TRUE, UserResets = FALSE,
           LinesApart, WaitInv, [PciNext]_vars
    PROVE  \A l \in Held' : Waits(pic', pic2', l)
  <1> USE DEF WaitInv, LineInv
  <1>0. PCI /\ \A line : IsLevel(line) <=> line \in elcr
    BY DEF IsLevel, PciAssumption
  <1>1. \A l \in Held : /\ l \in AllIrqs /\ l \in elcr /\ l \in ElcrLines
                        /\ l \notin IrqLines /\ l # CascadeLine /\ raised # {}
                        /\ l \in pic_current /\ Waits(pic, pic2, l)
    BY HeldLines DEF HeldIsCurrent
  <1>2. ASSUME NEW h \in Users, PciSetIrq(h)
        PROVE  \A l \in Held' : Waits(pic', pic2', l)
    <2> DEFINE line == LineOf(h)
    <2>1. CASE UNCHANGED <<picVars, pci_irq_hold>>
      BY <1>1, <2>1 DEF picVars, Held
    <2>2. CASE ~UNCHANGED <<picVars, pci_irq_hold>>
      <3>1. /\ line # Disabled
            /\ ~IsLevel(line) => PicIntLevel(line) /\ UNCHANGED pci_irq_hold
            /\ IsLevel(line) =>
                 /\ IF pci_irq_hold[line] = {} THEN PicIntLevel(line)
                                               ELSE UNCHANGED picVars
                 /\ pci_irq_hold' = [pci_irq_hold EXCEPT ![line] = @ \cup {h}]
        BY <1>2, <2>2 DEF PciSetIrq
      <3>2. line \in AllIrqs /\ line # CascadeLine /\ line \notin IrqLines
        BY <3>1, LineOfType DEF LinesApart
      <3>3. Redirect(line) = line
        BY <3>2 DEF Redirect, CascadeLine
      <3>4. \A l \in Held' : l \in Held \/ (l = line /\ IsLevel(line))
        BY <3>1 DEF Held, PciTypeOK
      <3>5. CASE PicIntLevel(line)
        <4>1. PicIntCommon(line, TRUE)
          BY <3>5 DEF PicIntLevel
        <4>2. ASSUME NEW l \in Held, l \in ElcrLines PROVE Waits(pic', pic2', l)
          BY <1>1, <3>2, <4>1, <4>2, RaiseWaits
        <4>3. ASSUME IsLevel(line), line \notin Held PROVE Waits(pic', pic2', line)
          <5>1. line \notin pic_current
            BY <3>2, <4>3 DEF CurrentHasCause, HoldsAreWiredOr, Held
          <5>2. line \in ElcrLines
            BY <1>0, <4>3, InvRegisters
          <5> QED BY <3>2, <3>3, <4>1, <5>1, <5>2, RaiseWaits
        <4> QED BY <1>1, <3>4, <4>2, <4>3
      <3>6. CASE IsLevel(line) /\ pci_irq_hold[line] # {} /\ UNCHANGED picVars
        <4>1. line \in Held
          BY <3>2, <3>6 DEF Held
        <4> QED BY <1>1, <3>4, <3>6, <4>1 DEF picVars
      <3> QED BY <3>1, <3>5, <3>6
    <2> QED BY <2>1, <2>2
  <1>3. ASSUME NEW h \in Users, PciClearIrq(h)
        PROVE  \A l \in Held' : Waits(pic', pic2', l)
    <2> DEFINE line == LineOf(h)
    <2>1. CASE UNCHANGED <<picVars, pci_irq_hold>>
      BY <1>1, <2>1 DEF picVars, Held
    <2>2. CASE ~UNCHANGED <<picVars, pci_irq_hold>>
      <3>1. /\ line # Disabled
            /\ ~IsLevel(line) => PicIntC(line) /\ UNCHANGED pci_irq_hold
            /\ IsLevel(line) =>
                 /\ IF pci_irq_hold[line] = {h} THEN PicIntC(line)
                                                ELSE UNCHANGED picVars
                 /\ pci_irq_hold' = [pci_irq_hold EXCEPT ![line] = @ \ {h}]
        BY <1>3, <2>2 DEF PciClearIrq
      <3>2. line \in AllIrqs /\ line # CascadeLine
        BY <3>1, LineOfType DEF LinesApart
      <3>3. Redirect(line) = line
        BY <3>2 DEF Redirect, CascadeLine
      <3>4. \A l \in Held' : l \in Held
        BY <3>1 DEF Held, PciTypeOK
      <3>5. CASE UNCHANGED picVars
        BY <1>1, <3>4, <3>5 DEF picVars
      <3>6. CASE PicIntC(line) /\ (IsLevel(line) => pci_irq_hold[line] = {h})
        <4>1. line \notin Held'
          <5>1. CASE IsLevel(line)
            <6>1. pci_irq_hold'[line] = pci_irq_hold[line] \ {h}
              BY <3>1, <3>2, <5>1 DEF PciTypeOK
            <6>2. pci_irq_hold'[line] = {}
              BY <3>6, <5>1, <6>1
            <6> QED BY <6>2 DEF Held
          <5>2. CASE ~IsLevel(line)
            <6>1. pci_irq_hold'[line] = {}
              BY <3>1, <3>2, <5>2 DEF HoldsAreWiredOr
            <6> QED BY <6>1 DEF Held
          <5> QED BY <5>1, <5>2
        <4>2. ASSUME NEW l \in Held' PROVE Waits(pic', pic2', l)
          <5>1. l \in Held /\ l # line
            BY <3>4, <4>1
          <5> QED BY <1>1, <3>2, <3>3, <3>6, <5>1, LowerWaits
        <4> QED BY <4>2
      <3> QED BY <3>1, <3>5, <3>6
    <2> QED BY <2>1, <2>2
  <1>4. CASE RoutingNext \/ UNCHANGED vars
    <2>1. UNCHANGED <<picVars, pci_irq_hold>>
      BY <1>4 DEF RoutingNext, SetIrqRouting, SetMirqRouting, vars, pciVars
    <2> QED BY <1>1, <2>1 DEF picVars, Held
  <1>5. CASE TrcReset \/ PciHardReset
    <2>1. pci_irq_hold' = NoHolds
      BY <1>5 DEF TrcReset, PciHardReset
    <2> QED BY <2>1 DEF Held, NoHolds
  <1>6. CASE PicNext
    <2>1. Held' = Held
      BY <1>6 DEF PicNext, pciVars, Held
    <2>2. ASSUME NEW l \in Held PROVE Waits(pic', pic2', l)
      <3>1. GuestNext \/ DeviceNext \/ CpuNext
        BY <1>1, <1>6 DEF PicNext, MayReprogram
      <3>2. CASE GuestNext
        BY <1>0, <1>1, <3>2, GuestWaits
      <3>3. CASE CpuNext
        BY <1>0, <1>1, <3>3, TakeWaits DEF CpuNext
      <3>4. CASE DeviceNext
        <4>1. PICK k \in IrqLines : PicInt(k) \/ PicIntLevel(k) \/ PicIntC(k)
          BY <3>4 DEF DeviceNext
        <4>2. k \in AllIrqs /\ Redirect(k) = k /\ l # k
          BY <1>1 DEF ConstantsAssumption, LinesApart, Redirect, CascadeLine
        <4>3. CASE PicInt(k) \/ PicIntLevel(k)
          BY <1>1, <4>2, <4>3, RaiseWaits DEF PicInt, PicIntLevel
        <4>4. CASE PicIntC(k)
          BY <1>1, <4>2, <4>4, LowerWaits
        <4> QED BY <4>1, <4>3, <4>4
      <3> QED BY <3>1, <3>2, <3>3, <3>4
    <2> QED BY <2>1, <2>2
  <1> QED BY <1>2, <1>3, <1>4, <1>5, <1>6 DEF PciNext, CardNext

\* A line some card holds stays requested or in service, so that its driver
\* runs until the last card has lowered its pin: the EOI and the processor
\* request it again, and no other line's raising or lowering, mask or
\* initialisation word forgets it.
THEOREM PciHeldLineWaits ==
    ASSUME QuietGuest = TRUE, UserResets = FALSE, LinesApart
    PROVE  PciSpec => []HeldLineWaits
  <1>1. PciInit => WaitInv
    <2> SUFFICES ASSUME PciInit PROVE WaitInv
      OBVIOUS
    <2>1. LineInv
      BY LineInit, PciAssumption, ConstantsAssumption
    <2>2. SlaveIdentified
      BY DEF PciInit, Init, BootPic2, ResetSlave, Zeroed, SlaveIdentified
    <2>3. Held = {}
      BY DEF PciInit, Held, NoHolds
    <2> QED BY <2>1, <2>2, <2>3 DEF WaitInv
  <1>2. WaitInv /\ [PciNext]_vars => WaitInv'
    BY LineStep, SlaveIdentifiedStep, WaitsStep, PciAssumption, ConstantsAssumption
       DEF WaitInv, LineInv
  <1>3. WaitInv => HeldLineWaits
    <2> SUFFICES ASSUME WaitInv, NEW l \in Held PROVE l \in Waiting
      BY DEF HeldLineWaits
    <2>1. l \in AllIrqs /\ Waits(pic, pic2, l)
      BY DEF WaitInv, Held
    <2> QED BY <2>1, WaitsMeans DEF WaitInv, LineInv
  <1> QED BY <1>1, <1>2, <1>3, PTL DEF PciSpec

(***************************************************************************)
(* Handlers, cards and the pair together.                                  *)
(***************************************************************************)

\* The input of the master an interrupt arrives at.
MasterLine(irq) == IF irq < 8 THEN irq ELSE CascadeLine

HandlerType == [irq : AllIrqs \ {CascadeLine}, step : Steps, todo : SUBSET Users]

\* The requests of the pair, but for the cascade input.
RequestedOf(m, s) == (m.pend \ {CascadeLine}) \cup {8 + l : l \in s.pend}

\* What the BIOS programmed stays: nothing masked, no automatic EOI, and the
\* slave's mask2 is no stale one.
ChipsSet(m, s) ==
    /\ m.icw = 0 /\ s.icw = 0
    /\ m.icw3 = {CascadeLine} /\ s.icw3 = CascadeLine
    /\ m.vector = 8 /\ s.vector = 8
    /\ m.mask = {} /\ s.mask = {}
    /\ ~m.aeoi /\ ~s.aeoi
    /\ m.mask2 = UpdateMask(m.ins)
    /\ s.mask2 = UpdateMask(s.ins)

\* The master's cascade input is requested exactly while the slave requests.
CascadeFollows == CascadeLine \in pic.pend <=> Requests(pic2) # {}

ChipsInv == PicInv /\ ChipsSet(pic, pic2) /\ CascadeFollows

\* pic_update_pending keeps what the chips are set to and restores the cascade.
LEMMA UpdateChips ==
    ASSUME AT, NEW m \in MasterType, NEW s \in SlaveType, ChipsSet(m, s),
           UpdatePending(m, s)
    PROVE  /\ ChipsSet(pic', pic2') /\ CascadeFollows'
           /\ pic'.ins = m.ins /\ pic2'.ins = s.ins
           /\ RequestedOf(pic', pic2') = RequestedOf(m, s)
  <1> DEFINE n == Cascade(m, s)
  <1>1. pic' = n /\ pic2' = s
    BY DEF UpdatePending
  <1>2. /\ n.mask = m.mask /\ n.mask2 = m.mask2 /\ n.ins = m.ins /\ n.icw = m.icw
        /\ n.icw3 = m.icw3
    BY CascadeType
  <1>3. n.vector = m.vector /\ n.aeoi = m.aeoi
    BY DEF Cascade, MasterType, ChipType
  <1>4. /\ CascadeLine \in n.pend <=> Requests(s) # {}
        /\ n.pend \ {CascadeLine} = m.pend \ {CascadeLine}
    BY DEF Cascade, MasterType, ChipType, ChipsSet
  <1> HIDE DEF n
  <1>5. ChipsSet(n, s)
    BY <1>2, <1>3 DEF ChipsSet
  <1>6. RequestedOf(n, s) = RequestedOf(m, s)
    BY <1>4 DEF RequestedOf
  <1>7. CascadeFollows'
    BY <1>1, <1>4 DEF CascadeFollows, Requests
  <1> QED BY <1>1, <1>2, <1>5, <1>6, <1>7

\* No bus line is line 2: an AT has it at input 1 of the slave.
LEMMA RedirectType ==
    ASSUME AT, ChipsInv, NEW irq \in AllIrqs
    PROVE  Redirect(irq) \in AllIrqs \ {CascadeLine}
  BY DEF ChipsInv, ChipsSet, Redirect, CascadeLine, AllIrqs

\* The requests of the pair as the lines of the two chips.
LEMMA RequestedMeans ==
    ASSUME NEW m, NEW s, m.pend \in SUBSET Lines, s.pend \in SUBSET Lines
    PROVE  /\ RequestedOf(m, s) \in SUBSET (AllIrqs \ {CascadeLine})
           /\ \A i \in AllIrqs \ {CascadeLine} :
                 i \in RequestedOf(m, s) <=> IF i < 8 THEN i \in m.pend
                                                      ELSE i - 8 \in s.pend
  <1>1. \A l \in Lines : /\ l < 8 /\ l \in AllIrqs
                         /\ 8 + l \in AllIrqs /\ ~(8 + l < 8) /\ (8 + l) - 8 = l
                         /\ 8 + l # CascadeLine
    BY DEF Lines, AllIrqs, CascadeLine
  <1>2. \A i \in AllIrqs : ~(i < 8) => 8 + (i - 8) = i
    BY DEF AllIrqs
  <1>3. RequestedOf(m, s) \in SUBSET (AllIrqs \ {CascadeLine})
    BY <1>1 DEF RequestedOf
  <1>4. ASSUME NEW i \in AllIrqs \ {CascadeLine}
        PROVE  i \in RequestedOf(m, s) <=>
                  IF i < 8 THEN i \in m.pend ELSE i - 8 \in s.pend
    BY <1>1, <1>2 DEF RequestedOf
  <1> QED BY <1>3, <1>4

\* A device or card changes the requests by its own line.
LEMMA DeviceStep ==
    ASSUME AT, ChipsInv, NEW irq \in AllIrqs,
           \/ \E level \in BOOLEAN : PicIntCommon(irq, level)
           \/ PicIntC(irq)
    PROVE  /\ ChipsSet(pic', pic2') /\ CascadeFollows'
           /\ pic'.ins = pic.ins /\ pic2'.ins = pic2.ins
           /\ RequestedOf(pic', pic2') \in
                 {RequestedOf(pic, pic2),
                  RequestedOf(pic, pic2) \cup {Redirect(irq)},
                  RequestedOf(pic, pic2) \ {Redirect(irq)}}
           /\ elcr' = elcr
  <1> DEFINE i == Redirect(irq)
             R == RequestedOf(pic, pic2)
  <1> USE InvRegisters DEF ChipsInv
  <1>1. i \in AllIrqs \ {CascadeLine}
    BY RedirectType
  <1>2. elcr' = elcr
    BY DEF PicIntCommon, PicIntC, picVars
  <1>c. CascadeLine = 2 /\ i # 2
    BY <1>1 DEF CascadeLine
  <1>3. CASE UNCHANGED picVars
    BY <1>2, <1>3 DEF picVars, CascadeFollows
  <1>4. ASSUME NEW m, NEW s, UpdatePending(m, s), m \in MasterType, s \in SlaveType,
               m.ins = pic.ins, s.ins = pic2.ins, ChipsSet(m, s),
               RequestedOf(m, s) \in {R, R \cup {i}, R \ {i}}
        PROVE  /\ ChipsSet(pic', pic2') /\ CascadeFollows'
               /\ pic'.ins = pic.ins /\ pic2'.ins = pic2.ins
               /\ RequestedOf(pic', pic2') \in {R, R \cup {i}, R \ {i}}
    BY <1>4, UpdateChips
  <1>5. CASE i < 8
    <2>1. i \in Lines
      BY <1>1, <1>5 DEF Lines, AllIrqs
    <2>2. i \notin {8 + l : l \in pic2.pend}
      BY <1>5 DEF SlaveType, ChipType, Lines
    <2>3. CASE UpdatePending([pic EXCEPT !.pend = @ \cup {i}], pic2)
      <3> DEFINE m == [pic EXCEPT !.pend = @ \cup {i}]
      <3>1. m \in MasterType /\ m.ins = pic.ins
        BY <2>1 DEF MasterType, ChipType
      <3>2. ChipsSet(m, pic2)
        BY DEF ChipsSet, MasterType, ChipType
      <3>3. m.pend = pic.pend \cup {i}
        BY DEF MasterType, ChipType
      <3> HIDE DEF m
      <3>4. RequestedOf(m, pic2) = R \cup {i}
        BY <1>1, <3>3 DEF RequestedOf
      <3>5. UpdatePending(m, pic2)
        BY <2>3 DEF m
      <3> QED BY <1>2, <1>4, <3>1, <3>2, <3>4, <3>5
    <2>4. CASE UpdatePending([pic EXCEPT !.pend = @ \ {i}], pic2)
      <3> DEFINE m == [pic EXCEPT !.pend = @ \ {i}]
      <3>1. m \in MasterType /\ m.ins = pic.ins
        BY DEF MasterType, ChipType
      <3>2. ChipsSet(m, pic2)
        BY DEF ChipsSet, MasterType, ChipType
      <3>3. m.pend = pic.pend \ {i}
        BY DEF MasterType, ChipType
      <3> HIDE DEF m
      <3>4. RequestedOf(m, pic2) = R \ {i}
        BY <2>2, <3>3 DEF RequestedOf
      <3>5. UpdatePending(m, pic2)
        BY <2>4 DEF m
      <3> QED BY <1>2, <1>4, <3>1, <3>2, <3>4, <3>5
    <2> QED BY <1>3, <1>5, <2>3, <2>4 DEF PicIntCommon, PicIntC, Lowered
  <1>6. CASE ~(i < 8)
    <2>1. i - 8 \in Lines
      BY <1>1, <1>6 DEF Lines, AllIrqs
    <2>2. i \notin pic.pend
      BY <1>1, <1>6 DEF MasterType, ChipType, Lines, AllIrqs
    <2>3. ASSUME NEW m, m \in {pic, [pic EXCEPT !.pend = @ \cup {pic2.icw3}],
                               [pic EXCEPT !.pend = @ \ {pic2.icw3}]}
          PROVE  /\ m \in MasterType /\ m.ins = pic.ins
                 /\ m.pend \ {CascadeLine} = pic.pend \ {CascadeLine}
                 /\ \A s : s.mask = pic2.mask /\ s.mask2 = pic2.mask2 /\ s.ins = pic2.ins
                           /\ s.icw3 = pic2.icw3 /\ s.vector = pic2.vector
                           /\ s.aeoi = pic2.aeoi /\ s.icw = pic2.icw => ChipsSet(m, s)
      <3>1. pic2.icw3 \in Lines /\ pic2.icw3 = CascadeLine
        BY DEF SlaveType, ChipType, ChipsSet
      <3>2. /\ m \in MasterType /\ m.ins = pic.ins
            /\ m.pend \ {CascadeLine} = pic.pend \ {CascadeLine}
        BY <2>3, <3>1 DEF MasterType, ChipType
      <3>3. /\ m.mask = pic.mask /\ m.mask2 = pic.mask2 /\ m.icw3 = pic.icw3
            /\ m.vector = pic.vector /\ m.aeoi = pic.aeoi /\ m.icw = pic.icw
        BY <2>3 DEF MasterType, ChipType
      <3> QED BY <3>2, <3>3 DEF ChipsSet
    <2>4. ASSUME NEW p, p \in SUBSET Lines, p = pic2.pend \cup {i - 8}
                                            \/ p = pic2.pend \ {i - 8}
          PROVE  /\ [pic2 EXCEPT !.pend = p] \in SlaveType
                 /\ LET s == [pic2 EXCEPT !.pend = p] IN
                    /\ s.mask = pic2.mask /\ s.mask2 = pic2.mask2 /\ s.ins = pic2.ins
                    /\ s.icw3 = pic2.icw3 /\ s.vector = pic2.vector
                    /\ s.aeoi = pic2.aeoi /\ s.icw = pic2.icw /\ s.pend = p
      BY <2>4 DEF SlaveType, ChipType
    <2>5. \A m : m.pend \ {CascadeLine} = pic.pend \ {CascadeLine} =>
            /\ \A s : s.pend = pic2.pend \cup {i - 8} => RequestedOf(m, s) = R \cup {i}
            /\ \A s : s.pend = pic2.pend \ {i - 8} => RequestedOf(m, s) = R \ {i}
      <3>1. 8 + (i - 8) = i
        BY <1>1 DEF AllIrqs
      <3>2. \A l \in Lines : 8 + l = i => l = i - 8
        BY DEF Lines
      <3>3. pic2.pend \in SUBSET Lines
        BY DEF SlaveType, ChipType
      <3>4. {8 + l : l \in pic2.pend \cup {i - 8}} = {8 + l : l \in pic2.pend} \cup {i}
        BY <3>1
      <3>5. {8 + l : l \in pic2.pend \ {i - 8}} = {8 + l : l \in pic2.pend} \ {i}
        BY <3>1, <3>2, <3>3
      <3> QED BY <2>2, <3>4, <3>5 DEF RequestedOf
    <2>6. CASE \E level \in BOOLEAN : PicIntCommon(irq, level)
      <3> DEFINE s == [pic2 EXCEPT !.pend = @ \cup {i - 8}]
                 m == IF Requests(s) # {} THEN [pic EXCEPT !.pend = @ \cup {pic2.icw3}]
                                          ELSE pic
      <3>1. UNCHANGED picVars \/ UpdatePending(m, s)
        BY <1>6, <2>6 DEF PicIntCommon
      <3>2. pic2.pend \cup {i - 8} \in SUBSET Lines
        BY <2>1 DEF SlaveType, ChipType
      <3>3. s \in SlaveType /\ s.ins = pic2.ins /\ s.pend = pic2.pend \cup {i - 8}
        BY <2>4, <3>2
      <3>4. m \in MasterType /\ m.ins = pic.ins /\ ChipsSet(m, s)
            /\ m.pend \ {CascadeLine} = pic.pend \ {CascadeLine}
        BY <2>3, <2>4, <3>2
      <3> HIDE DEF m, s
      <3>5. RequestedOf(m, s) = R \cup {i}
        BY <2>5, <3>3, <3>4
      <3> QED BY <1>2, <1>3, <1>4, <3>1, <3>3, <3>4, <3>5
    <2>7. CASE PicIntC(irq)
      <3> DEFINE s == [pic2 EXCEPT !.pend = @ \ {i - 8}]
                 m == IF Requests(s) = {} THEN [pic EXCEPT !.pend = @ \ {pic2.icw3}]
                                          ELSE pic
      <3>1. UpdatePending(m, s)
        BY <1>6, <2>7 DEF PicIntC, Lowered
      <3>2. pic2.pend \ {i - 8} \in SUBSET Lines
        BY DEF SlaveType, ChipType
      <3>3. s \in SlaveType /\ s.ins = pic2.ins /\ s.pend = pic2.pend \ {i - 8}
        BY <2>4, <3>2
      <3>4. m \in MasterType /\ m.ins = pic.ins /\ ChipsSet(m, s)
            /\ m.pend \ {CascadeLine} = pic.pend \ {CascadeLine}
        BY <2>3, <2>4, <3>2
      <3> HIDE DEF m, s
      <3>5. RequestedOf(m, s) = R \ {i}
        BY <2>5, <3>3, <3>4
      <3> QED BY <1>2, <1>4, <3>1, <3>3, <3>4, <3>5
    <2> QED BY <2>6, <2>7
  <1> QED BY <1>5, <1>6

\* An EOI to the master ends one of its inputs, and requests it again if it is
\* a raised level line.
LEMMA MasterEoiStep ==
    ASSUME AT, ChipsInv, NEW l \in Lines, EndOfInterrupt(FALSE, l)
    PROVE  /\ ChipsSet(pic', pic2') /\ CascadeFollows'
           /\ pic'.ins = pic.ins \ {l} /\ pic2'.ins = pic2.ins
           /\ \/ RequestedOf(pic', pic2') = RequestedOf(pic, pic2)
              \/ /\ l # CascadeLine
                 /\ RequestedOf(pic', pic2') = RequestedOf(pic, pic2) \cup {l}
           /\ elcr' = elcr
  <1> DEFINE m == EoiMaster(pic, l)
  <1> USE InvRegisters DEF ChipsInv
  <1>1. UpdatePending(m, pic2) /\ elcr' = elcr
    BY DEF EndOfInterrupt
  <1>2. /\ m \in MasterType /\ m.ins = pic.ins \ {l} /\ m.mask = pic.mask
        /\ m.mask2 = UpdateMask(m.ins) /\ m.icw = pic.icw /\ m.icw3 = pic.icw3
    BY EoiMasterType
  <1>3. m.vector = pic.vector /\ m.aeoi = pic.aeoi
    BY DEF EoiMaster, MasterType, ChipType
  <1>4. m.pend = pic.pend \/ (l # CascadeLine /\ m.pend = pic.pend \cup {l})
    BY DEF EoiMaster, MasterType, ChipType, ChipsSet
  <1> HIDE DEF m
  <1>5. ChipsSet(m, pic2)
    BY <1>2, <1>3 DEF ChipsSet
  <1>6. \/ RequestedOf(m, pic2) = RequestedOf(pic, pic2)
        \/ l # CascadeLine /\ RequestedOf(m, pic2) = RequestedOf(pic, pic2) \cup {l}
    BY <1>4 DEF RequestedOf
  <1> QED BY <1>1, <1>2, <1>5, <1>6, UpdateChips

\* An EOI to the slave ends one of its inputs, and may request it again.
LEMMA SlaveEoiStep ==
    ASSUME AT, ChipsInv, NEW l \in Lines, EndOfInterrupt(TRUE, l)
    PROVE  /\ ChipsSet(pic', pic2') /\ CascadeFollows'
           /\ pic'.ins = pic.ins /\ pic2'.ins = pic2.ins \ {l}
           /\ RequestedOf(pic', pic2') \in
                 {RequestedOf(pic, pic2), RequestedOf(pic, pic2) \cup {8 + l}}
           /\ elcr' = elcr
  <1> DEFINE m == EoiSlaveAtMaster(pic, pic2, l)
             s == EoiSlave(pic2, l)
  <1> USE InvRegisters DEF ChipsInv
  <1>1. UpdatePending(m, s) /\ elcr' = elcr
    BY DEF EndOfInterrupt
  <1>2. /\ m \in MasterType /\ m.ins = pic.ins /\ m.mask = pic.mask
        /\ m.mask2 = pic.mask2 /\ m.icw = pic.icw /\ m.icw3 = pic.icw3
    BY EoiSlaveAtMasterType
  <1>3. /\ m.vector = pic.vector /\ m.aeoi = pic.aeoi
        /\ m.pend \ {CascadeLine} = pic.pend \ {CascadeLine}
    BY DEF EoiSlaveAtMaster, MasterType, ChipType, ChipsSet
  <1>4. s \in SlaveType /\ s.mask2 = UpdateMask(s.ins)
    BY EoiSlaveType
  <1>5. /\ s.ins = pic2.ins \ {l} /\ s.mask = pic2.mask /\ s.icw = pic2.icw
        /\ s.icw3 = pic2.icw3 /\ s.vector = pic2.vector /\ s.aeoi = pic2.aeoi
        /\ s.pend \in {pic2.pend, pic2.pend \cup {l}}
    BY DEF EoiSlave, SlaveType, ChipType
  <1> HIDE DEF m, s
  <1>6. ChipsSet(m, s)
    BY <1>2, <1>3, <1>4, <1>5 DEF ChipsSet
  <1>7. RequestedOf(m, s) \in
           {RequestedOf(pic, pic2), RequestedOf(pic, pic2) \cup {8 + l}}
    BY <1>3, <1>5 DEF RequestedOf
  <1> QED BY <1>1, <1>2, <1>4, <1>5, <1>6, <1>7, UpdateChips

\* An interrupt the processor takes goes from requested to in service, on the
\* slave at both chips.
LEMMA TakeStep ==
    ASSUME AT, ChipsInv, NEW irq \in AllIrqs, PicInterrupt(irq)
    PROVE  /\ irq # CascadeLine /\ irq \in RequestedOf(pic, pic2)
           /\ ChipsSet(pic', pic2') /\ CascadeFollows'
           /\ pic'.ins = pic.ins \cup {MasterLine(irq)}
           /\ pic2'.ins = IF irq < 8 THEN pic2.ins ELSE pic2.ins \cup {irq - 8}
           /\ RequestedOf(pic', pic2') = RequestedOf(pic, pic2) \ {irq}
           /\ elcr' = elcr
  <1> USE InvRegisters DEF ChipsInv
  <1>1. irq # CascadeLine
    BY DEF PicInterrupt, Accepts, MasterAccepts, ChipsSet, CascadeLine
  <1>2. irq \in RequestedOf(pic, pic2)
    <2>1. IF irq < 8 THEN irq \in pic.pend ELSE irq - 8 \in pic2.pend
      BY DEF PicInterrupt, Accepts, MasterAccepts, SlaveAccepts
    <2>2. pic.pend \in SUBSET Lines /\ pic2.pend \in SUBSET Lines
      BY DEF MasterType, SlaveType, ChipType
    <2> QED BY <1>1, <2>1, <2>2, RequestedMeans
  <1>3. elcr' = elcr
    BY DEF PicInterrupt
  <1>4. CASE irq < 8
    <2> DEFINE m == [pic EXCEPT !.pend = @ \ {irq}, !.ins = @ \cup {irq},
                                !.mask2 = UpdateMask(pic.ins \cup {irq})]
    <2>1. UpdatePending(m, pic2)
      BY <1>4 DEF PicInterrupt, TakesMaster, ChipsSet
    <2>2. irq \in Lines
      BY <1>4 DEF Lines, AllIrqs
    <2>3. /\ m \in MasterType
          /\ m.pend = pic.pend \ {irq} /\ m.ins = pic.ins \cup {irq}
          /\ m.mask = pic.mask /\ m.mask2 = UpdateMask(m.ins) /\ m.icw = pic.icw
          /\ m.icw3 = pic.icw3 /\ m.vector = pic.vector /\ m.aeoi = pic.aeoi
      BY <2>2, UpdateMaskType DEF MasterType, ChipType
    <2> HIDE DEF m
    <2>4. ChipsSet(m, pic2)
      BY <2>3 DEF ChipsSet
    <2>5. irq \notin {8 + l : l \in pic2.pend}
      BY <1>4 DEF SlaveType, ChipType, Lines
    <2>6. RequestedOf(m, pic2) = RequestedOf(pic, pic2) \ {irq}
      BY <2>3, <2>5 DEF RequestedOf
    <2> QED BY <1>1, <1>2, <1>3, <1>4, <2>1, <2>3, <2>4, <2>6, UpdateChips DEF MasterLine
  <1>5. CASE ~(irq < 8)
    <2> DEFINE k == irq - 8
               s == [pic2 EXCEPT !.pend = @ \ {k}, !.ins = @ \cup {k},
                                 !.mask2 = UpdateMask(pic2.ins \cup {k})]
               mIns == pic.ins \cup {pic2.icw3}
               m == [pic EXCEPT !.ins = mIns, !.mask2 = UpdateMask(mIns)]
    <2>1. k \in Lines /\ 8 + k = irq
      BY <1>5 DEF Lines, AllIrqs
    <2>2. UpdatePending(m, s)
      BY <1>5 DEF PicInterrupt, TakesSlave, ChipsSet
    <2>3. /\ s \in SlaveType
          /\ s.pend = pic2.pend \ {k} /\ s.ins = pic2.ins \cup {k}
          /\ s.mask = pic2.mask /\ s.mask2 = UpdateMask(s.ins) /\ s.icw = pic2.icw
          /\ s.icw3 = pic2.icw3 /\ s.vector = pic2.vector /\ s.aeoi = pic2.aeoi
      BY <2>1, UpdateMaskType DEF SlaveType, ChipType
    <2>4. pic2.icw3 \in Lines /\ pic2.icw3 = CascadeLine
      BY DEF SlaveType, ChipType, ChipsSet
    <2>5. /\ m \in MasterType
          /\ m.pend = pic.pend /\ m.ins = pic.ins \cup {CascadeLine}
          /\ m.mask = pic.mask /\ m.mask2 = UpdateMask(m.ins) /\ m.icw = pic.icw
          /\ m.icw3 = pic.icw3 /\ m.vector = pic.vector /\ m.aeoi = pic.aeoi
      BY <2>4, UpdateMaskType DEF MasterType, ChipType
    <2>6. \A l \in Lines : 8 + l = irq => l = k
      BY DEF Lines
    <2>7. irq \notin pic.pend /\ pic2.pend \in SUBSET Lines
      BY <1>5 DEF MasterType, SlaveType, ChipType, Lines
    <2> HIDE DEF m, s, k
    <2>8. ChipsSet(m, s)
      BY <2>3, <2>5 DEF ChipsSet
    <2>9. {8 + l : l \in pic2.pend \ {k}} = {8 + l : l \in pic2.pend} \ {irq}
      BY <2>1, <2>6, <2>7
    <2>10. RequestedOf(m, s) = RequestedOf(pic, pic2) \ {irq}
      BY <2>3, <2>5, <2>7, <2>9 DEF RequestedOf
    <2>11. pic'.ins = m.ins /\ pic2'.ins = s.ins
           /\ ChipsSet(pic', pic2') /\ CascadeFollows'
           /\ RequestedOf(pic', pic2') = RequestedOf(m, s)
      BY <2>2, <2>3, <2>5, <2>8, UpdateChips
    <2> QED BY <1>1, <1>2, <1>3, <1>5, <2>3, <2>5, <2>10, <2>11 DEF MasterLine, k
  <1> QED BY <1>4, <1>5

\* pic_interrupt serves only an input before everything the master has in
\* service: the cached requests that let it run are not blocked ones.
LEMMA TakeNests ==
    ASSUME AT, ChipsInv, NEW irq \in AllIrqs, PicInterrupt(irq)
    PROVE  \A k \in pic.ins : MasterLine(irq) < k
  <1> USE InvRegisters DEF ChipsInv
  <1>1. irq # CascadeLine
    BY TakeStep
  <1>2. ASSUME NEW d \in MasterType \cup SlaveType, d.mask2 = UpdateMask(d.ins),
               NEW p \in Requests(d)
        PROVE  /\ p \in Lines /\ p \in d.pend /\ p \notin d.mask
               /\ \A k \in d.ins : p < k
    <2>1. p \in d.pend /\ p \notin d.mask /\ p \notin d.mask2 /\ d.ins \in SUBSET Lines
          /\ p \in Lines
      BY DEF Requests, MasterType, SlaveType, ChipType
    <2>2. \A k \in d.ins : ~(k <= p)
      BY <1>2, <2>1 DEF UpdateMask
    <2> QED BY <2>1, <2>2 DEF Lines
  <1>3. PICK p \in Requests(pic) : TRUE
    <2>1. pic_pending # {} /\ pic_pending = PendingOf(pic, pic2)
      BY DEF PicInterrupt
    <2>2. CASE Requests(pic) # {}
      BY <2>2
    <2>3. CASE Requests(pic2) # {} /\ (pic.mask \cup pic.mask2) \cap pic.icw3 = {}
      BY <2>3 DEF CascadeFollows, Requests, ChipsSet
    <2> QED BY <2>1, <2>2, <2>3 DEF PendingOf
  <1>4. p \in Lines /\ p \in pic.pend /\ p \notin pic.mask /\ \A k \in pic.ins : p < k
    BY <1>2 DEF ChipsSet
  <1>5. \E j \in AllIrqs : Accepts(j) /\ MasterLine(j) = p
    <2>1. CASE p # CascadeLine
      <3>1. pic.ins \in SUBSET Lines
        BY DEF MasterType, ChipType
      <3>2. \A k \in pic.ins : p <= k
        BY <1>4, <3>1 DEF Lines
      <3>3. MasterAccepts(p)
        BY <1>4, <2>1, <3>2 DEF MasterAccepts, ChipsSet
      <3>4. p \in AllIrqs /\ p < 8
        BY <1>4 DEF Lines, AllIrqs
      <3> QED BY <3>3, <3>4 DEF Accepts, MasterLine
    <2>2. CASE p = CascadeLine
      <3>1. PICK q \in Requests(pic2) : TRUE
        BY <1>4, <2>2 DEF CascadeFollows
      <3>2. q \in Lines /\ q \in pic2.pend /\ q \notin pic2.mask
            /\ \A k \in pic2.ins : q < k
        BY <1>2, <3>1 DEF ChipsSet
      <3>3. pic2.ins \in SUBSET Lines
        BY DEF SlaveType, ChipType
      <3>4. \A k \in pic2.ins : q <= k
        BY <3>2, <3>3 DEF Lines
      <3>5. pic.ins \cap {0, 1} = {}
        BY <1>4, <2>2 DEF CascadeLine
      <3>6. SlaveAccepts(q)
        BY <3>2, <3>4, <3>5 DEF SlaveAccepts, ChipsSet
      <3>7. 8 + q \in AllIrqs /\ ~(8 + q < 8) /\ (8 + q) - 8 = q
        BY <3>2 DEF Lines, AllIrqs
      <3> QED BY <2>2, <3>6, <3>7 DEF Accepts, MasterLine
    <2> QED BY <2>1, <2>2
  <1>6. PICK j \in AllIrqs : Accepts(j) /\ MasterLine(j) = p
    BY <1>5
  <1>7. Rank(irq) <= Rank(j)
    BY <1>6 DEF PicInterrupt
  <1>8. MasterLine(irq) <= MasterLine(j)
    BY <1>7 DEF Rank, MasterLine, CascadeLine, AllIrqs
  <1>9. pic.ins \in SUBSET Lines /\ MasterLine(irq) \in Lines
    BY DEF MasterType, ChipType, MasterLine, AllIrqs, Lines, CascadeLine
  <1> QED BY <1>4, <1>6, <1>8, <1>9 DEF Lines

\* Priority, without its definition.
LEMMA PriorityIs ==
    /\ DOMAIN Priority = AllIrqs \ {CascadeLine}
    /\ \A i \in AllIrqs \ {CascadeLine} :
          Priority[i] = IF i < CascadeLine THEN i ELSE IF i >= 8 THEN i - 6 ELSE i + 7
  BY DEF Priority

\* The order of the fifteen inputs is the master's, the slave's in the place
\* of input 2.
LEMMA PriorityOrder ==
    ASSUME NEW i \in AllIrqs \ {CascadeLine}, NEW j \in AllIrqs \ {CascadeLine}
    PROVE  /\ MasterLine(i) < MasterLine(j) => Priority[i] < Priority[j]
           /\ Priority[i] \in Int
           /\ Rank(i) <= Rank(j) => Priority[i] <= Priority[j]
  BY PriorityIs DEF MasterLine, Rank, CascadeLine, AllIrqs

\* pic_interrupt picks the first of all that is requested, on both chips.
LEMMA TakeIsFirst ==
    ASSUME AT, ChipsInv, NEW irq \in AllIrqs, PicInterrupt(irq),
           pic2.ins # {} => CascadeLine \in pic.ins,
           NEW j \in RequestedOf(pic, pic2)
    PROVE  Priority[irq] <= Priority[j]
  <1> USE InvRegisters DEF ChipsInv
  <1>1. pic.pend \in SUBSET Lines /\ pic2.pend \in SUBSET Lines
        /\ pic.ins \in SUBSET Lines /\ pic2.ins \in SUBSET Lines
    BY DEF MasterType, SlaveType, ChipType
  <1>2. j \in AllIrqs \ {CascadeLine}
        /\ IF j < 8 THEN j \in pic.pend ELSE j - 8 \in pic2.pend
    BY <1>1, RequestedMeans
  <1>3. irq \in AllIrqs \ {CascadeLine} /\ \A k \in pic.ins : MasterLine(irq) < k
    BY TakeStep, TakeNests
  <1>4. CASE Accepts(j)
    <2>1. Rank(irq) <= Rank(j)
      BY <1>2, <1>4 DEF PicInterrupt
    <2> QED BY <1>2, <1>3, <2>1, PriorityOrder
  <1>5. CASE \E k \in pic.ins : k <= MasterLine(j)
    <2>1. PICK k \in pic.ins : k <= MasterLine(j)
      BY <1>5
    <2>2. MasterLine(irq) < k /\ k \in Lines
      BY <1>1, <1>3
    <2>3. MasterLine(irq) \in Lines /\ MasterLine(j) \in Lines
      BY <1>2 DEF MasterLine, AllIrqs, Lines, CascadeLine
    <2>4. MasterLine(irq) < MasterLine(j)
      BY <2>1, <2>2, <2>3 DEF Lines
    <2>5. Priority[irq] < Priority[j] /\ Priority[irq] \in Int /\ Priority[j] \in Int
      BY <1>2, <1>3, <2>4, PriorityOrder
    <2> QED BY <2>5
  <1>6. CASE ~Accepts(j) /\ \A k \in pic.ins : ~(k <= MasterLine(j))
    <2>1. CASE j < 8
      <3>1. j \in pic.pend /\ j \notin pic.mask /\ pic.icw3 # {j}
        BY <1>2, <2>1 DEF ChipsSet
      <3>2. \A k \in pic.ins : j <= k
        BY <1>1, <1>2, <1>6, <2>1 DEF MasterLine, Lines, AllIrqs
      <3>3. Accepts(j)
        BY <2>1, <3>1, <3>2 DEF Accepts, MasterAccepts
      <3> QED BY <1>6, <3>3
    <2>2. CASE ~(j < 8)
      <3>1. \A k \in pic.ins : ~(k <= CascadeLine)
        BY <1>6, <2>2 DEF MasterLine
      <3>2. CascadeLine \notin pic.ins /\ pic.ins \cap {0, 1} = {}
        BY <3>1 DEF CascadeLine
      <3>3. pic2.ins = {}
        BY <3>2
      <3>4. j - 8 \in pic2.pend /\ j - 8 \notin pic2.mask
        BY <1>2, <2>2 DEF ChipsSet
      <3>5. SlaveAccepts(j - 8)
        BY <3>2, <3>3, <3>4 DEF SlaveAccepts, ChipsSet
      <3> QED BY <1>6, <2>2, <3>5 DEF Accepts
    <2> QED BY <2>1, <2>2
  <1> QED BY <1>4, <1>5, <1>6

(***************************************************************************)
(* Sequences of handlers.                                                  *)
(***************************************************************************)

\* A handler entered.
LEMMA Pushed ==
    ASSUME NEW S, NEW s \in Seq(S), NEW x \in S
    PROVE  /\ <<x>> \o s \in Seq(S)
           /\ Len(<<x>> \o s) = Len(s) + 1
           /\ DOMAIN (<<x>> \o s) = 1 .. Len(s) + 1
           /\ (<<x>> \o s)[1] = x
           /\ \A n \in 1 .. Len(s) : (<<x>> \o s)[n + 1] = s[n]
           /\ <<x>> \o s # <<>> /\ Head(<<x>> \o s) = x
  <1>1. <<x>> \in Seq(S) /\ Len(<<x>>) = 1 /\ <<x>>[1] = x
    OBVIOUS
  <1>2. Len(s) \in Nat
    OBVIOUS
  <1> DEFINE t == <<x>> \o s
  <1>3. t \in Seq(S) /\ Len(t) = 1 + Len(s)
        /\ \A i \in 1 .. 1 + Len(s) : t[i] = IF i <= 1 THEN <<x>>[i] ELSE s[i - 1]
    BY <1>1, ConcatProperties
  <1> HIDE DEF t
  <1>4. Len(t) = Len(s) + 1 /\ DOMAIN t = 1 .. Len(s) + 1
    BY <1>2, <1>3
  <1>5. t[1] = x
    BY <1>1, <1>2, <1>3
  <1>6. ASSUME NEW n \in 1 .. Len(s) PROVE t[n + 1] = s[n]
    <2>1. n + 1 \in 1 .. 1 + Len(s) /\ ~(n + 1 <= 1) /\ (n + 1) - 1 = n
      BY <1>2
    <2> QED BY <1>3, <2>1
  <1>7. t # <<>> /\ Head(t) = x
    <2>1. t # <<>>
      BY <1>2, <1>4
    <2> QED BY <1>3, <1>5, <2>1
  <1> QED BY <1>3, <1>4, <1>5, <1>6, <1>7 DEF t

\* A handler taken off.
LEMMA Popped ==
    ASSUME NEW S, NEW s \in Seq(S), s # <<>>
    PROVE  /\ Len(s) \in Nat \ {0} /\ DOMAIN s = 1 .. Len(s) /\ 1 \in DOMAIN s
           /\ Head(s) = s[1] /\ Head(s) \in S
           /\ Tail(s) \in Seq(S)
           /\ Len(Tail(s)) = Len(s) - 1
           /\ DOMAIN Tail(s) = 1 .. Len(s) - 1
           /\ \A n \in 1 .. Len(s) - 1 : Tail(s)[n] = s[n + 1]
  <1>1. Len(s) \in Nat \ {0}
    BY EmptySeq
  <1>2. DOMAIN s = 1 .. Len(s) /\ Head(s) = s[1]
    OBVIOUS
  <1>3. /\ Head(s) \in S /\ Tail(s) \in Seq(S) /\ Len(Tail(s)) = Len(s) - 1
        /\ \A i \in 1 .. Len(Tail(s)) : Tail(s)[i] = s[i + 1]
    BY HeadTailProperties
  <1>4. DOMAIN Tail(s) = 1 .. Len(Tail(s))
    BY <1>3
  <1> QED BY <1>1, <1>2, <1>3, <1>4

\* The innermost handler's record changed.
LEMMA Replaced ==
    ASSUME NEW S, NEW s \in Seq(S), s # <<>>, NEW x \in S
    PROVE  /\ <<x>> \o Tail(s) \in Seq(S)
           /\ DOMAIN (<<x>> \o Tail(s)) = DOMAIN s
           /\ Len(<<x>> \o Tail(s)) = Len(s)
           /\ (<<x>> \o Tail(s))[1] = x
           /\ \A n \in DOMAIN s : n # 1 => (<<x>> \o Tail(s))[n] = s[n]
           /\ <<x>> \o Tail(s) # <<>> /\ Head(<<x>> \o Tail(s)) = x
           /\ Tail(<<x>> \o Tail(s)) = Tail(s)
  <1> DEFINE u == Tail(s)
             t == <<x>> \o u
  <1>1. /\ Len(s) \in Nat \ {0} /\ DOMAIN s = 1 .. Len(s)
        /\ u \in Seq(S) /\ Len(u) = Len(s) - 1
        /\ \A n \in 1 .. Len(s) - 1 : u[n] = s[n + 1]
    BY Popped
  <1> HIDE DEF u
  <1> HIDE DEF t
  <1>2. /\ t \in Seq(S) /\ Len(t) = Len(u) + 1 /\ DOMAIN t = 1 .. Len(u) + 1
        /\ t[1] = x /\ t # <<>> /\ Head(t) = x
        /\ \A n \in 1 .. Len(u) : t[n + 1] = u[n]
    <2>1. u \in Seq(S)
      BY <1>1
    <2>2. t = <<x>> \o u
      BY DEF t
    <2>3. /\ <<x>> \o u \in Seq(S)
          /\ Len(<<x>> \o u) = Len(u) + 1
          /\ DOMAIN (<<x>> \o u) = 1 .. Len(u) + 1
          /\ (<<x>> \o u)[1] = x
          /\ \A n \in 1 .. Len(u) : (<<x>> \o u)[n + 1] = u[n]
          /\ <<x>> \o u # <<>> /\ Head(<<x>> \o u) = x
      BY <2>1, Pushed
    <2> QED BY <2>2, <2>3
  <1>3. DOMAIN t = DOMAIN s /\ Len(t) = Len(s)
    BY <1>1, <1>2
  <1>4. ASSUME NEW n \in DOMAIN s, n # 1 PROVE t[n] = s[n]
    <2>1. n - 1 \in 1 .. Len(s) - 1 /\ (n - 1) + 1 = n
      BY <1>1, <1>4
    <2>2. t[(n - 1) + 1] = u[n - 1] /\ u[n - 1] = s[(n - 1) + 1]
      BY <1>1, <1>2, <2>1
    <2> QED BY <2>1, <2>2
  <1>5. Tail(t) = u
    <2>1. /\ Tail(t) \in Seq(S) /\ Len(Tail(t)) = Len(t) - 1
          /\ \A n \in 1 .. Len(t) - 1 : Tail(t)[n] = t[n + 1]
      BY <1>2, Popped
    <2>2. Len(Tail(t)) = Len(u)
      BY <1>1, <1>2, <2>1
    <2>3. ASSUME NEW n \in 1 .. Len(Tail(t)) PROVE Tail(t)[n] = u[n]
      BY <1>1, <1>2, <2>1, <2>2
    <2> QED BY <1>1, <2>1, <2>2, <2>3, SeqEqual
  <1> QED BY <1>2, <1>3, <1>4, <1>5 DEF t, u

\* The positions of the handlers that still have to end the master's input,
\* and of those that still have to end the slave's.
OpenAt(hs) == {n \in DOMAIN hs : hs[n].step # "iret"}
SlaveAt(hs) == {n \in DOMAIN hs : hs[n].step = "service" /\ hs[n].irq >= 8}

MasterIns(hs) == {MasterLine(hs[n].irq) : n \in OpenAt(hs)}
SlaveIns(hs) == {hs[n].irq - 8 : n \in SlaveAt(hs)}

\* Only the innermost handler is past its last EOI, and a handler interrupts
\* only handlers of later inputs of the master.
Nested(hs) ==
    /\ hs \in Seq(HandlerType)
    /\ \A n \in DOMAIN hs : n # 1 => hs[n].step # "iret"
    /\ \A n \in DOMAIN hs : hs[n].step = "eoi_second" => hs[n].irq >= 8
    /\ \A m, n \in OpenAt(hs) :
          m < n => MasterLine(hs[m].irq) < MasterLine(hs[n].irq)

\* The fields of an active handler.
LEMMA HandlerFields ==
    ASSUME NEW x \in HandlerType
    PROVE  /\ x.irq \in AllIrqs \ {CascadeLine} /\ x.step \in Steps
           /\ MasterLine(x.irq) \in Lines
           /\ x.irq >= 8 => x.irq - 8 \in Lines
  <1>1. x.irq \in AllIrqs \ {CascadeLine} /\ x.step \in Steps
    BY DEF HandlerType
  <1>2. MasterLine(x.irq) \in Lines /\ (x.irq >= 8 => x.irq - 8 \in Lines)
    BY <1>1 DEF MasterLine, CascadeLine, AllIrqs, Lines
  <1> QED BY <1>1, <1>2

\* Entering a handler of an input before those in service keeps the nesting.
LEMMA PushNested ==
    ASSUME NEW hs, Nested(hs), NEW x \in HandlerType, x.step = "service",
           hs # <<>> => Head(hs).step # "iret",
           \A k \in MasterIns(hs) : MasterLine(x.irq) < k
    PROVE  /\ Nested(<<x>> \o hs)
           /\ MasterIns(<<x>> \o hs) = MasterIns(hs) \cup {MasterLine(x.irq)}
           /\ SlaveIns(<<x>> \o hs) =
                 IF x.irq >= 8 THEN SlaveIns(hs) \cup {x.irq - 8} ELSE SlaveIns(hs)
  <1> DEFINE t == <<x>> \o hs
  <1>0. hs \in Seq(HandlerType)
    BY DEF Nested
  <1>1. /\ t \in Seq(HandlerType) /\ DOMAIN t = 1 .. Len(hs) + 1 /\ t[1] = x
        /\ \A n \in 1 .. Len(hs) : t[n + 1] = hs[n]
    BY <1>0, Pushed
  <1>2. Len(hs) \in Nat /\ DOMAIN hs = 1 .. Len(hs)
    BY <1>0
  <1> HIDE DEF t
  <1>3. \A n \in DOMAIN t : n = 1 \/ (n - 1 \in DOMAIN hs /\ t[n] = hs[n - 1])
    <2> SUFFICES ASSUME NEW n \in DOMAIN t, n # 1
                 PROVE  n - 1 \in DOMAIN hs /\ t[n] = hs[n - 1]
      OBVIOUS
    <2>1. n - 1 \in 1 .. Len(hs) /\ (n - 1) + 1 = n
      BY <1>1, <1>2
    <2> QED BY <1>1, <1>2, <2>1
  <1>4. \A n \in DOMAIN hs : hs[n].step # "iret"
    <2>1. CASE hs # <<>>
      <3>1. Head(hs) = hs[1]
        BY <1>0, <2>1, Popped
      <3> QED BY <2>1, <3>1 DEF Nested
    <2>2. CASE hs = <<>>
      <3>1. DOMAIN hs = {}
        BY <1>2, <2>2, EmptySeq
      <3> QED BY <3>1
    <2> QED BY <2>1, <2>2
  <1>5. OpenAt(hs) = DOMAIN hs /\ OpenAt(t) = DOMAIN t
    <2>1. OpenAt(hs) = DOMAIN hs
      BY <1>4 DEF OpenAt
    <2>2. \A n \in DOMAIN t : t[n].step # "iret"
      BY <1>1, <1>3, <1>4
    <2> QED BY <2>1, <2>2 DEF OpenAt
  <1>6. 1 \in DOMAIN t /\ \A n \in DOMAIN hs : n + 1 \in DOMAIN t /\ t[n + 1] = hs[n]
                                                /\ n + 1 # 1
    BY <1>1, <1>2
  <1>7. MasterIns(t) = MasterIns(hs) \cup {MasterLine(x.irq)}
    <2>1. \A v : v \in MasterIns(t) => v \in MasterIns(hs) \cup {MasterLine(x.irq)}
      BY <1>1, <1>3, <1>5 DEF MasterIns
    <2>2. \A v : v \in MasterIns(hs) => v \in MasterIns(t)
      BY <1>5, <1>6 DEF MasterIns
    <2>3. MasterLine(x.irq) \in MasterIns(t)
      BY <1>1, <1>5, <1>6 DEF MasterIns
    <2> QED BY <2>1, <2>2, <2>3
  <1>8. SlaveIns(t) = IF x.irq >= 8 THEN SlaveIns(hs) \cup {x.irq - 8} ELSE SlaveIns(hs)
    <2>1. \A n \in SlaveAt(t) : (n = 1 /\ x.irq >= 8) \/
                                (n - 1 \in SlaveAt(hs) /\ t[n] = hs[n - 1])
      BY <1>1, <1>3 DEF SlaveAt
    <2>2. \A n \in SlaveAt(hs) : n + 1 \in SlaveAt(t) /\ t[n + 1] = hs[n]
      BY <1>6 DEF SlaveAt
    <2>3. x.irq >= 8 => 1 \in SlaveAt(t)
      BY <1>1, <1>6 DEF SlaveAt
    <2>4. \A v : v \in SlaveIns(t) => v \in SlaveIns(hs) \/ (x.irq >= 8 /\ v = x.irq - 8)
      BY <1>1, <2>1 DEF SlaveIns
    <2>5. \A v : v \in SlaveIns(hs) => v \in SlaveIns(t)
      BY <2>2 DEF SlaveIns
    <2>6. x.irq >= 8 => x.irq - 8 \in SlaveIns(t)
      BY <1>1, <2>3 DEF SlaveIns
    <2>7. CASE x.irq >= 8
      BY <2>4, <2>5, <2>6, <2>7
    <2>8. CASE ~(x.irq >= 8)
      BY <2>4, <2>5, <2>8
    <2> QED BY <2>7, <2>8
  <1>9. Nested(t)
    <2>1. \A n \in DOMAIN t : n # 1 => t[n].step # "iret"
      BY <1>3, <1>4
    <2>2. \A n \in DOMAIN t : t[n].step = "eoi_second" => t[n].irq >= 8
      BY <1>1, <1>3 DEF Nested
    <2>3. ASSUME NEW m \in OpenAt(t), NEW n \in OpenAt(t), m < n
          PROVE  MasterLine(t[m].irq) < MasterLine(t[n].irq)
      <3>1. m \in DOMAIN t /\ n \in DOMAIN t /\ m \in Int /\ n \in Int
        BY <1>1, <1>5
      <3>2. n # 1
        BY <1>1, <1>2, <2>3, <3>1
      <3>3. n - 1 \in DOMAIN hs /\ t[n] = hs[n - 1]
        BY <1>3, <3>1, <3>2
      <3>4. CASE m = 1
        <4>1. MasterLine(hs[n - 1].irq) \in MasterIns(hs)
          BY <1>5, <3>3 DEF MasterIns
        <4> QED BY <1>1, <3>3, <3>4, <4>1
      <3>5. CASE m # 1
        <4>1. m - 1 \in DOMAIN hs /\ t[m] = hs[m - 1] /\ m - 1 < n - 1
          BY <1>3, <2>3, <3>1, <3>5
        <4> QED BY <1>5, <3>3, <4>1 DEF Nested
      <3> QED BY <3>4, <3>5
    <2> QED BY <1>1, <2>1, <2>2, <2>3 DEF Nested
  <1> QED BY <1>7, <1>8, <1>9 DEF t

\* The return of a handler that has sent its EOIs keeps the nesting.
LEMMA PopNested ==
    ASSUME NEW hs, Nested(hs), hs # <<>>, Head(hs).step = "iret"
    PROVE  /\ Nested(Tail(hs))
           /\ MasterIns(Tail(hs)) = MasterIns(hs) /\ SlaveIns(Tail(hs)) = SlaveIns(hs)
           /\ Tail(hs) # <<>> => Head(Tail(hs)).step # "iret"
  <1> DEFINE t == Tail(hs)
  <1>0. hs \in Seq(HandlerType)
    BY DEF Nested
  <1>1. /\ Len(hs) \in Nat \ {0} /\ DOMAIN hs = 1 .. Len(hs) /\ hs[1].step = "iret"
        /\ t \in Seq(HandlerType) /\ DOMAIN t = 1 .. Len(hs) - 1
        /\ \A n \in 1 .. Len(hs) - 1 : t[n] = hs[n + 1]
    BY <1>0, Popped
  <1> HIDE DEF t
  <1>2. \A n \in DOMAIN t :
           n + 1 \in DOMAIN hs /\ n + 1 # 1 /\ t[n] = hs[n + 1] /\ n \in Int
    BY <1>1
  <1>3. \A n \in DOMAIN hs :
           n # 1 => n - 1 \in DOMAIN t /\ t[n - 1] = hs[n] /\ n \in Int
    <2> SUFFICES ASSUME NEW n \in DOMAIN hs, n # 1
                 PROVE  n - 1 \in DOMAIN t /\ t[n - 1] = hs[n] /\ n \in Int
      OBVIOUS
    <2>1. n - 1 \in 1 .. Len(hs) - 1 /\ (n - 1) + 1 = n /\ n \in Int
      BY <1>1
    <2> QED BY <1>1, <2>1
  <1>4. \A n \in DOMAIN t : t[n].step # "iret"
    BY <1>2 DEF Nested
  <1>5. OpenAt(t) = DOMAIN t /\ \A n \in DOMAIN hs : n \in OpenAt(hs) <=> n # 1
    BY <1>1, <1>4 DEF OpenAt, Nested
  <1>6. MasterIns(t) = MasterIns(hs)
    <2>1. \A v : v \in MasterIns(t) => v \in MasterIns(hs)
      BY <1>2, <1>5 DEF MasterIns
    <2>2. \A v : v \in MasterIns(hs) => v \in MasterIns(t)
      <3>1. OpenAt(hs) \subseteq DOMAIN hs
        BY DEF OpenAt
      <3> QED BY <1>3, <1>5, <3>1 DEF MasterIns
    <2> QED BY <2>1, <2>2
  <1>7. SlaveIns(t) = SlaveIns(hs)
    <2>1. \A n \in SlaveAt(t) : n + 1 \in SlaveAt(hs) /\ t[n] = hs[n + 1]
      BY <1>2 DEF SlaveAt
    <2>2. \A n \in SlaveAt(hs) : n - 1 \in SlaveAt(t) /\ t[n - 1] = hs[n]
      <3>1. \A n \in SlaveAt(hs) : n \in DOMAIN hs /\ n # 1
        BY <1>1 DEF SlaveAt
      <3> QED BY <1>3, <3>1 DEF SlaveAt
    <2>3. \A v : v \in SlaveIns(t) => v \in SlaveIns(hs)
      BY <2>1 DEF SlaveIns
    <2>4. \A v : v \in SlaveIns(hs) => v \in SlaveIns(t)
      BY <2>2 DEF SlaveIns
    <2> QED BY <2>3, <2>4
  <1>8. Nested(t)
    <2>1. \A n \in DOMAIN t : t[n].step = "eoi_second" => t[n].irq >= 8
      BY <1>2 DEF Nested
    <2>2. ASSUME NEW m \in OpenAt(t), NEW n \in OpenAt(t), m < n
          PROVE  MasterLine(t[m].irq) < MasterLine(t[n].irq)
      <3>1. m \in DOMAIN t /\ n \in DOMAIN t /\ m + 1 < n + 1
        BY <1>2, <1>5, <2>2
      <3>2. /\ m + 1 \in OpenAt(hs) /\ n + 1 \in OpenAt(hs)
            /\ t[m] = hs[m + 1] /\ t[n] = hs[n + 1]
        BY <1>2, <1>5, <3>1
      <3> QED BY <3>1, <3>2 DEF Nested
    <2> QED BY <1>1, <1>4, <2>1, <2>2 DEF Nested
  <1>9. t # <<>> => Head(t).step # "iret"
    BY <1>1, <1>4, Popped
  <1> QED BY <1>6, <1>7, <1>8, <1>9 DEF t

\* A step of the innermost handler keeps the nesting; its EOI leaves its chip.
LEMMA ReplaceNested ==
    ASSUME NEW hs, Nested(hs), hs # <<>>, NEW x \in HandlerType,
           x.irq = Head(hs).irq, Head(hs).step # "iret",
           x.step = "eoi_second" => x.irq >= 8,
           x.step = "service" => Head(hs).step = "service"
    PROVE  /\ Nested(<<x>> \o Tail(hs))
           /\ MasterIns(<<x>> \o Tail(hs)) =
                 IF x.step = "iret" THEN MasterIns(hs) \ {MasterLine(x.irq)}
                                    ELSE MasterIns(hs)
           /\ SlaveIns(<<x>> \o Tail(hs)) =
                 IF x.step # "service" /\ Head(hs).step = "service" /\ x.irq >= 8
                 THEN SlaveIns(hs) \ {x.irq - 8} ELSE SlaveIns(hs)
  <1> DEFINE t == <<x>> \o Tail(hs)
             h == Head(hs)
  <1>0. hs \in Seq(HandlerType)
    BY DEF Nested
  <1>1. /\ t \in Seq(HandlerType) /\ DOMAIN t = DOMAIN hs /\ t[1] = x
        /\ \A n \in DOMAIN hs : n # 1 => t[n] = hs[n]
    BY <1>0, Replaced
  <1>2. /\ Len(hs) \in Nat \ {0} /\ DOMAIN hs = 1 .. Len(hs) /\ 1 \in DOMAIN hs
        /\ h = hs[1]
    BY <1>0, Popped
  <1> HIDE DEF t, h
  <1>a. /\ h.step # "iret" /\ x.irq = h.irq
        /\ x.step = "service" => h.step = "service"
    BY DEF h
  <1>3. OpenAt(hs) = DOMAIN hs
    BY <1>2, <1>a DEF OpenAt, Nested
  <1>4. \A n \in DOMAIN hs : n # 1 => /\ n \in OpenAt(t)
                                      /\ MasterLine(h.irq) < MasterLine(hs[n].irq)
    <2> SUFFICES ASSUME NEW n \in DOMAIN hs, n # 1
                 PROVE  n \in OpenAt(t) /\ MasterLine(h.irq) < MasterLine(hs[n].irq)
      OBVIOUS
    <2>1. 1 < n
      BY <1>2
    <2> QED BY <1>1, <1>2, <1>3, <2>1 DEF OpenAt, Nested
  <1>5. OpenAt(t) \subseteq DOMAIN hs /\ (1 \in OpenAt(t) <=> x.step # "iret")
    BY <1>1, <1>2 DEF OpenAt
  <1>6. \A n \in DOMAIN hs : MasterLine(hs[n].irq) \in Lines /\ hs[n].irq \in AllIrqs
    <2>1. \A n \in DOMAIN hs : hs[n] \in HandlerType
      BY <1>0, <1>2
    <2> QED BY <2>1, HandlerFields
  <1>7. \A n \in DOMAIN hs : n # 1 => MasterLine(hs[n].irq) # MasterLine(x.irq)
    BY <1>2, <1>4, <1>6, <1>a DEF Lines
  <1>8. MasterIns(t) = IF x.step = "iret" THEN MasterIns(hs) \ {MasterLine(x.irq)}
                                          ELSE MasterIns(hs)
    <2>1. \A v : v \in MasterIns(t) => v \in MasterIns(hs)
      BY <1>1, <1>2, <1>3, <1>5, <1>a DEF MasterIns
    <2>2. CASE x.step = "iret"
      <3>1. MasterLine(x.irq) \notin MasterIns(t)
        BY <1>1, <1>5, <1>7, <2>2 DEF MasterIns
      <3>2. \A v : v \in MasterIns(hs) => v \in MasterIns(t) \/ v = MasterLine(x.irq)
        BY <1>1, <1>2, <1>3, <1>4, <1>a DEF MasterIns
      <3> QED BY <2>1, <2>2, <3>1, <3>2
    <2>3. CASE x.step # "iret"
      <3>1. \A v : v \in MasterIns(hs) => v \in MasterIns(t)
        BY <1>1, <1>2, <1>3, <1>4, <1>5, <1>a, <2>3 DEF MasterIns
      <3> QED BY <2>1, <2>3, <3>1
    <2> QED BY <2>2, <2>3
  <1>9. Nested(t)
    <2>1. \A n \in DOMAIN t : n # 1 => t[n].step # "iret"
      BY <1>1 DEF Nested
    <2>2. \A n \in DOMAIN t : t[n].step = "eoi_second" => t[n].irq >= 8
      BY <1>1 DEF Nested
    <2>3. ASSUME NEW m \in OpenAt(t), NEW n \in OpenAt(t), m < n
          PROVE  MasterLine(t[m].irq) < MasterLine(t[n].irq)
      <3>1. m \in DOMAIN hs /\ n \in DOMAIN hs /\ n # 1
        BY <1>2, <1>5, <2>3
      <3>2. t[n] = hs[n] /\ t[m].irq = hs[m].irq
        BY <1>1, <1>2, <1>a, <3>1
      <3> QED BY <1>3, <2>3, <3>1, <3>2 DEF Nested
    <2> QED BY <1>1, <2>1, <2>2, <2>3 DEF Nested
  <1>10. SlaveIns(t) =
            IF x.step # "service" /\ h.step = "service" /\ x.irq >= 8
            THEN SlaveIns(hs) \ {x.irq - 8} ELSE SlaveIns(hs)
    <2>1. \A n \in DOMAIN hs :
             n # 1 => (n \in SlaveAt(t) <=> n \in SlaveAt(hs)) /\ t[n] = hs[n]
      BY <1>1 DEF SlaveAt
    <2>2. /\ 1 \in SlaveAt(t) <=> x.step = "service" /\ x.irq >= 8
          /\ 1 \in SlaveAt(hs) <=> h.step = "service" /\ x.irq >= 8
          /\ SlaveAt(t) \subseteq DOMAIN hs /\ SlaveAt(hs) \subseteq DOMAIN hs
          /\ t[1].irq = x.irq /\ hs[1].irq = x.irq
      BY <1>1, <1>2, <1>a DEF SlaveAt
    <2>3. \A v : v \in SlaveIns(t) <=>
             \/ \E n \in SlaveAt(hs) : n # 1 /\ v = hs[n].irq - 8
             \/ 1 \in SlaveAt(t) /\ v = x.irq - 8
      BY <2>1, <2>2 DEF SlaveIns
    <2>4. \A v : v \in SlaveIns(hs) <=>
             \/ \E n \in SlaveAt(hs) : n # 1 /\ v = hs[n].irq - 8
             \/ 1 \in SlaveAt(hs) /\ v = x.irq - 8
      BY <2>1, <2>2 DEF SlaveIns
    <2>5. ASSUME x.irq >= 8, NEW n \in SlaveAt(hs), n # 1 PROVE hs[n].irq - 8 # x.irq - 8
      <3>1. n \in DOMAIN hs /\ hs[n].irq >= 8
        BY <2>5 DEF SlaveAt
      <3>2. MasterLine(hs[n].irq) # MasterLine(x.irq)
        BY <1>7, <2>5, <3>1
      <3>3. x.irq \in AllIrqs /\ hs[n].irq \in AllIrqs
        BY <1>6, <3>1, HandlerFields
      <3> QED BY <2>5, <3>1, <3>2, <3>3 DEF MasterLine, AllIrqs
    <2>6. CASE x.step # "service" /\ h.step = "service" /\ x.irq >= 8
      BY <2>2, <2>3, <2>4, <2>5, <2>6
    <2>7. CASE ~(x.irq >= 8) \/ (x.step = "service" <=> h.step = "service")
      <3>1. 1 \in SlaveAt(t) <=> 1 \in SlaveAt(hs)
        BY <2>2, <2>7
      <3> QED BY <2>3, <2>4, <2>7, <3>1
    <2> QED BY <1>a, <2>6, <2>7
  <1> QED BY <1>8, <1>9, <1>10 DEF t, h

\* The inductive invariant of devices, pair and handlers together.
IntInv ==
    /\ ChipsInv
    /\ pci_irqs = [pin \in 0 .. 3 |-> PciLine]
    /\ pci_mirqs = [m \in {0, 1} |-> Disabled]
    /\ Nested(handlers)
    /\ AtStep("iret") => ~if_flag
    /\ pic.ins = MasterIns(handlers)
    /\ pic2.ins = SlaveIns(handlers)

\* A machine with PCI has both chips.
LEMMA PairPresent == ASSUME PciAssumption, ConstantsAssumption PROVE AT
  BY DEF PciAssumption, ConstantsAssumption

\* An input before all others in a set is the first the loop meets.
LEMMA FirstIs ==
    ASSUME NEW ls \in SUBSET Lines, NEW l \in ls, \A k \in ls : k # l => l < k
    PROVE  First(ls) = l
  <1>1. \A k \in ls : l <= k
    BY DEF Lines
  <1>2. First(ls) \in ls /\ \A k \in ls : First(ls) <= k
    BY <1>1 DEF First
  <1> DEFINE f == First(ls)
  <1> HIDE DEF f
  <1>3. f \in Lines /\ l \in Lines /\ l <= f /\ f <= l
    BY <1>1, <1>2 DEF f
  <1>4. f = l
    BY <1>3 DEF Lines
  <1> QED BY <1>4 DEF f

\* What the innermost handler still has to end is the first in service.
LEMMA TopIsFirst ==
    ASSUME IntInv, handlers # <<>>, Top.step # "iret"
    PROVE  /\ Top \in HandlerType
           /\ pic.ins # {} /\ First(pic.ins) = MasterLine(Top.irq)
           /\ Top.step = "service" /\ Top.irq >= 8 => pic2.ins = {Top.irq - 8}
  <1> DEFINE hs == handlers
  <1>0. Nested(hs) /\ hs \in Seq(HandlerType)
    BY DEF IntInv, Nested
  <1>1. /\ Len(hs) \in Nat \ {0} /\ DOMAIN hs = 1 .. Len(hs) /\ 1 \in DOMAIN hs
        /\ Top = hs[1] /\ Top \in HandlerType
    BY <1>0, Popped DEF Top
  <1>2. OpenAt(hs) = DOMAIN hs
    BY <1>0, <1>1 DEF OpenAt, Nested
  <1>3. \A n \in DOMAIN hs : hs[n] \in HandlerType
    BY <1>0, <1>1
  <1>4. \A n \in DOMAIN hs : n # 1 => MasterLine(Top.irq) < MasterLine(hs[n].irq)
    <2> SUFFICES ASSUME NEW n \in DOMAIN hs, n # 1
                 PROVE  MasterLine(Top.irq) < MasterLine(hs[n].irq)
      OBVIOUS
    <2>1. 1 < n
      BY <1>1
    <2> QED BY <1>0, <1>1, <1>2, <2>1 DEF Nested
  <1>5. MasterLine(Top.irq) \in pic.ins
    BY <1>1, <1>2 DEF IntInv, MasterIns
  <1>6. pic.ins \in SUBSET Lines
    BY InvRegisters DEF IntInv, ChipsInv, MasterType, ChipType
  <1>7. \A k \in pic.ins : k # MasterLine(Top.irq) => MasterLine(Top.irq) < k
    BY <1>1, <1>2, <1>4 DEF IntInv, MasterIns
  <1>8. First(pic.ins) = MasterLine(Top.irq)
    BY <1>5, <1>6, <1>7, FirstIs
  <1>9. ASSUME Top.step = "service", Top.irq >= 8 PROVE pic2.ins = {Top.irq - 8}
    <2>1. 1 \in SlaveAt(hs)
      BY <1>1, <1>9 DEF SlaveAt
    <2>2. ASSUME NEW n \in SlaveAt(hs) PROVE n = 1
      <3>1. n \in DOMAIN hs /\ hs[n].irq >= 8
        BY DEF SlaveAt
      <3>2. hs[n].irq \in AllIrqs /\ Top.irq \in AllIrqs
        BY <1>1, <1>3, <3>1, HandlerFields
      <3>3. MasterLine(hs[n].irq) = CascadeLine /\ MasterLine(Top.irq) = CascadeLine
        BY <1>9, <3>1, <3>2 DEF MasterLine, AllIrqs
      <3>4. ~(MasterLine(Top.irq) < MasterLine(hs[n].irq))
        BY <3>3 DEF CascadeLine
      <3> QED BY <1>4, <3>1, <3>4
    <2>3. SlaveAt(hs) = {1}
      BY <2>1, <2>2
    <2> QED BY <1>1, <2>3 DEF IntInv, SlaveIns
  <1> QED BY <1>1, <1>5, <1>8, <1>9

\* What the slave has in service came through the master's input 2.
LEMMA SlaveBehindCascade ==
    ASSUME IntInv, pic2.ins # {} PROVE CascadeLine \in pic.ins
  <1>1. PICK n \in SlaveAt(handlers) : TRUE
    BY DEF IntInv, SlaveIns
  <1>2. n \in OpenAt(handlers) /\ handlers[n].irq >= 8 /\ n \in DOMAIN handlers
    BY <1>1 DEF SlaveAt, OpenAt
  <1>3. handlers \in Seq(HandlerType)
    BY DEF IntInv, Nested
  <1>4. handlers[n].irq \in AllIrqs
    BY <1>2, <1>3, HandlerFields
  <1>5. MasterLine(handlers[n].irq) = CascadeLine
    BY <1>2, <1>4 DEF MasterLine, AllIrqs
  <1> QED BY <1>2, <1>5 DEF IntInv, MasterIns

\* Devices and cards drive lines, and touch nothing else of the pair.
LinesDriven ==
    \/ UNCHANGED picVars
    \/ \E irq \in AllIrqs : \/ \E level \in BOOLEAN : PicIntCommon(irq, level)
                            \/ PicIntC(irq)

\* All a card does to the chips is to raise or lower one line.
LEMMA CardDrives ==
    ASSUME PciAssumption, IntAssumption, IntInv, NEW h \in Users,
           PciSetIrq(h) \/ PciClearIrq(h)
    PROVE  LinesDriven /\ UNCHANGED <<pci_irqs, pci_mirqs>>
  <1>1. LineOf(h) \in {PciLine, Disabled}
    <2>1. CASE h \in Cards
      <3>1. h < 30 /\ PinOf[h] \in 0 .. 3
        BY <2>1 DEF PciAssumption
      <3> QED BY <3>1 DEF LineOf, IntInv
    <2>2. CASE h \notin Cards
      <3>1. PICK m \in Mirqs : h = 30 + m
        BY <2>2 DEF Users, Mirq
      <3>2. m \in {0, 1} /\ ~(h < 30) /\ h - 30 = m
        BY <3>1 DEF PciAssumption
      <3> QED BY <3>2 DEF LineOf, IntInv
    <2> QED BY <2>1, <2>2
  <1>2. PciLine \in AllIrqs
    BY DEF IntAssumption, ElcrLines
  <1> QED BY <1>1, <1>2 DEF PciSetIrq, PciClearIrq, PicIntLevel, LinesDriven

\* A line that is raised or lowered changes one request and nothing in service.
LEMMA DrivenStep ==
    ASSUME PciAssumption, ConstantsAssumption, ChipsInv, LinesDriven
    PROVE  /\ ChipsInv' /\ pic'.ins = pic.ins /\ pic2'.ins = pic2.ins
           /\ \E i \in AllIrqs \ {CascadeLine} :
                 RequestedOf(pic', pic2') \in
                    {RequestedOf(pic, pic2), RequestedOf(pic, pic2) \cup {i},
                     RequestedOf(pic, pic2) \ {i}}
  <1>1. CASE UNCHANGED picVars
    <2>1. PicInv'
      BY <1>1, NextInv DEF ChipsInv
    <2>2. 0 \in AllIrqs \ {CascadeLine}
      BY DEF AllIrqs, CascadeLine
    <2> QED BY <1>1, <2>1, <2>2 DEF ChipsInv, picVars, CascadeFollows
  <1>2. ASSUME NEW irq \in AllIrqs,
               (\E level \in BOOLEAN : PicIntCommon(irq, level)) \/ PicIntC(irq)
        PROVE  /\ ChipsInv' /\ pic'.ins = pic.ins /\ pic2'.ins = pic2.ins
               /\ \E i \in AllIrqs \ {CascadeLine} :
                     RequestedOf(pic', pic2') \in
                        {RequestedOf(pic, pic2), RequestedOf(pic, pic2) \cup {i},
                         RequestedOf(pic, pic2) \ {i}}
    <2>1. PicInv'
      BY <1>2, PicIntCommonInv, PicIntCInv DEF ChipsInv
    <2> QED BY <1>2, <2>1, DeviceStep, RedirectType, PairPresent DEF ChipsInv
  <1> QED BY <1>1, <1>2 DEF LinesDriven

\* The interrupt the processor takes, and the handler it enters.
LEMMA TakeHandler ==
    ASSUME PciAssumption, ConstantsAssumption, IntInv, TakeInterrupt
    PROVE  \E irq \in AllIrqs \ {CascadeLine} :
              /\ PicInterrupt(irq)
              /\ if_flag' = FALSE /\ if_flag
              /\ LET x == [irq |-> irq, step |-> "service", todo |-> CardsOn(irq)]
                 IN  x \in HandlerType /\ handlers' = <<x>> \o handlers
              /\ handlers # <<>> => Head(handlers).step # "iret"
              /\ UNCHANGED pciVars
  <1>1. PICK irq \in AllIrqs :
           /\ PicInterrupt(irq)
           /\ IF IntVector(irq) = 255
              THEN UNCHANGED cpuVars
              ELSE /\ if_flag' = FALSE
                   /\ handlers' = <<[irq |-> irq, step |-> "service",
                                     todo |-> CardsOn(irq)]>> \o handlers
    BY DEF TakeInterrupt
  <1>2. irq # CascadeLine
    BY <1>1, TakeStep, PairPresent DEF IntInv
  <1>3. IntVector(irq) # 255
    BY DEF IntVector, IntInv, ChipsInv, ChipsSet, AllIrqs
  <1>4. [irq |-> irq, step |-> "service", todo |-> CardsOn(irq)] \in HandlerType
    BY <1>2 DEF HandlerType, Steps, CardsOn
  <1>5. handlers # <<>> => Head(handlers).step # "iret"
    BY DEF IntInv, AtStep, Top, TakeInterrupt
  <1> QED BY <1>1, <1>2, <1>3, <1>4, <1>5 DEF TakeInterrupt

\* The machine as the BIOS leaves it satisfies the invariant.
LEMMA IntInitInv ==
    ASSUME PciAssumption, ConstantsAssumption, IntAssumption, IntInit PROVE IntInv
  <1> DEFINE m == Programmed({CascadeLine})
             s == Programmed(CascadeLine)
  <1>1. CascadeLine \in Lines /\ 8 \in {8 * n : n \in 0 .. 31}
    BY DEF CascadeLine, Lines
  <1>2. /\ m \in MasterType /\ m.icw = 0 /\ m.icw3 = {CascadeLine} /\ m.vector = 8
        /\ m.mask = {} /\ ~m.aeoi /\ m.mask2 = {} /\ m.ins = {} /\ m.pend = {}
    BY <1>1, IcwStatesType DEF Programmed, Zeroed, MasterType, ChipType, Icw1Flags
  <1>3. /\ s \in SlaveType /\ s.icw = 0 /\ s.icw3 = CascadeLine /\ s.vector = 8
        /\ s.mask = {} /\ ~s.aeoi /\ s.mask2 = {} /\ s.ins = {} /\ s.pend = {}
    BY <1>1, IcwStatesType DEF Programmed, Zeroed, SlaveType, ChipType, Icw1Flags
  <1>4. pic = m /\ pic2 = s /\ pic_pending = {} /\ pic_current = {} /\ elcr = {PciLine}
    BY DEF IntInit
  <1> HIDE DEF m, s
  <1>5. TypeOK
    BY <1>2, <1>3, <1>4 DEF TypeOK, MasterType, SlaveType, IntAssumption
  <1>6. PicInv
    <2>1. Requests(m) = {} /\ Requests(s) = {}
      BY <1>2, <1>3 DEF Requests
    <2>2. PendingIsFresh
      BY <1>4, <2>1 DEF PendingIsFresh, PendingOf
    <2> QED BY <1>2, <1>3, <1>4, <1>5, <2>2, UpdateMaskNone
            DEF PicInv, InServiceMasked, InitialisingIsIdle, CascadeWired
  <1>7. ChipsInv
    BY <1>2, <1>3, <1>4, <1>6, UpdateMaskNone
       DEF ChipsInv, ChipsSet, CascadeFollows, Requests
  <1>8. handlers = <<>> /\ handlers \in Seq(HandlerType) /\ DOMAIN handlers = {}
    <2>1. handlers = <<>> /\ handlers \in Seq(HandlerType)
      BY EmptySeq DEF IntInit
    <2>2. Len(handlers) = 0 /\ DOMAIN handlers = 1 .. Len(handlers)
      BY <2>1, EmptySeq
    <2> QED BY <2>1, <2>2
  <1>9. Nested(handlers) /\ MasterIns(handlers) = {} /\ SlaveIns(handlers) = {}
    BY <1>8 DEF Nested, MasterIns, SlaveIns, OpenAt, SlaveAt
  <1>10. ~AtStep("iret")
    BY <1>8 DEF AtStep
  <1> QED BY <1>2, <1>3, <1>4, <1>7, <1>9, <1>10 DEF IntInv, IntInit

\* A handler's step rewrites the record of the innermost handler.
LEMMA TopType ==
    ASSUME IntInv, handlers # <<>>
    PROVE  /\ Top \in HandlerType /\ Nested(handlers)
           /\ \A step \in Steps : [Top EXCEPT !.step = step] \in HandlerType
           /\ \A step : /\ [Top EXCEPT !.step = step].irq = Top.irq
                        /\ step \in Steps => [Top EXCEPT !.step = step].step = step
           /\ \A h : /\ [Top EXCEPT !.todo = @ \ {h}] \in HandlerType
                     /\ [Top EXCEPT !.todo = @ \ {h}].irq = Top.irq
                     /\ [Top EXCEPT !.todo = @ \ {h}].step = Top.step
  <1>1. handlers \in Seq(HandlerType) /\ Nested(handlers)
    BY DEF IntInv, Nested
  <1>2. Top \in HandlerType
    BY <1>1, Popped DEF Top
  <1> QED BY <1>1, <1>2 DEF HandlerType

\* The first EOI of a slave's handler ends the slave's only input.
LEMMA FirstEoiEnds ==
    ASSUME IntInv, FirstEoi
    PROVE  /\ handlers # <<>> /\ Top.step = "service" /\ Top.irq >= 8
           /\ Top.irq - 8 \in Lines /\ pic2.ins = {Top.irq - 8}
           /\ EndOfInterrupt(TRUE, Top.irq - 8)
  <1>1. handlers # <<>> /\ Top.step = "service" /\ Top.irq >= 8
    BY DEF FirstEoi, AtStep
  <1>2. Top \in HandlerType /\ pic2.ins = {Top.irq - 8}
    BY <1>1, TopIsFirst
  <1>3. Top.irq - 8 \in Lines
    BY <1>1, <1>2, HandlerFields
  <1>4. First({Top.irq - 8}) = Top.irq - 8
    BY DEF First
  <1>5. EndOfInterrupt(TRUE, Top.irq - 8)
    BY <1>2, <1>4 DEF FirstEoi, NonSpecificEoi, Chip
  <1> QED BY <1>1, <1>2, <1>3, <1>5

\* A handler's last EOI ends the input of the master it was entered by.
LEMMA LastEoiEnds ==
    ASSUME IntInv, LastEoi
    PROVE  /\ handlers # <<>> /\ Top.step # "iret"
           /\ ~(Top.step = "service" /\ Top.irq >= 8)
           /\ MasterLine(Top.irq) \in Lines
           /\ EndOfInterrupt(FALSE, MasterLine(Top.irq))
  <1>1. /\ handlers # <<>> /\ NonSpecificEoi(FALSE)
        /\ Top.step = "eoi_second" \/ (Top.step = "service" /\ Top.irq < 8)
    BY DEF LastEoi, AtStep
  <1>2. Top.step # "iret" /\ Top \in HandlerType
    BY <1>1, TopType
  <1>3. First(pic.ins) = MasterLine(Top.irq)
    BY <1>1, <1>2, TopIsFirst
  <1>4. EndOfInterrupt(FALSE, MasterLine(Top.irq))
    BY <1>1, <1>3 DEF NonSpecificEoi, Chip
  <1>5. Top.irq \in AllIrqs /\ MasterLine(Top.irq) \in Lines
    BY <1>2, HandlerFields
  <1>6. ~(Top.step = "service" /\ Top.irq >= 8)
    <2>1. Top.irq < 8 => ~(Top.irq >= 8)
      BY <1>5 DEF AllIrqs
    <2>2. Top.step = "eoi_second" => Top.step # "service"
      OBVIOUS
    <2> QED BY <1>1, <2>1, <2>2
  <1> QED BY <1>1, <1>2, <1>4, <1>5, <1>6

\* IntInv is inductive: devices, cards, processor and handlers keep it.
LEMMA IntStepInv ==
    ASSUME PciAssumption, ConstantsAssumption, IntAssumption, IntInv,
           [IntNext]_intVars
    PROVE  IntInv'
  <1>a. AT
    BY PairPresent
  <1>b. ChipsInv /\ PicInv
    BY DEF IntInv, ChipsInv
  <1>c. Nested(handlers) /\ pic.ins = MasterIns(handlers) /\ pic2.ins = SlaveIns(handlers)
    BY DEF IntInv
  <1>1. ASSUME LinesDriven, UNCHANGED <<pci_irqs, pci_mirqs, if_flag, handlers>>
        PROVE  IntInv'
    <2>1. ChipsInv' /\ pic'.ins = pic.ins /\ pic2'.ins = pic2.ins
      BY <1>1, <1>b, DrivenStep
    <2>2. AtStep("iret")' <=> AtStep("iret")
      BY <1>1 DEF AtStep, Top
    <2> QED BY <1>1, <2>1, <2>2 DEF IntInv
  <1>2. CASE IsaDevice
    <2>1. PICK irq \in IrqLines : PicInt(irq) \/ PicIntC(irq)
      BY <1>2 DEF IsaDevice
    <2>2. irq \in AllIrqs
      BY DEF ConstantsAssumption
    <2>3. LinesDriven
      BY <2>1, <2>2 DEF LinesDriven, PicInt
    <2> QED BY <1>1, <1>2, <2>3 DEF IsaDevice, pciVars, cpuVars
  <1>3. CASE \E h \in Users : CardRaises(h)
    BY <1>1, <1>3, CardDrives DEF CardRaises, cpuVars
  <1>4. CASE TakeInterrupt
    <2>1. PICK irq \in AllIrqs \ {CascadeLine} :
              /\ PicInterrupt(irq)
              /\ if_flag' = FALSE
              /\ LET x == [irq |-> irq, step |-> "service", todo |-> CardsOn(irq)]
                 IN  x \in HandlerType /\ handlers' = <<x>> \o handlers
              /\ handlers # <<>> => Head(handlers).step # "iret"
              /\ UNCHANGED pciVars
      BY <1>4, TakeHandler
    <2> DEFINE x == [irq |-> irq, step |-> "service", todo |-> CardsOn(irq)]
    <2>2. /\ x \in HandlerType /\ x.irq = irq /\ x.step = "service"
          /\ handlers' = <<x>> \o handlers
      BY <2>1
    <2> HIDE DEF x
    <2>3. \A k \in MasterIns(handlers) : MasterLine(irq) < k
      BY <1>a, <1>b, <1>c, <2>1, TakeNests
    <2>4. /\ Nested(handlers')
          /\ MasterIns(handlers') = MasterIns(handlers) \cup {MasterLine(irq)}
          /\ SlaveIns(handlers') = IF irq >= 8 THEN SlaveIns(handlers) \cup {irq - 8}
                                               ELSE SlaveIns(handlers)
      BY <1>c, <2>1, <2>2, <2>3, PushNested
    <2>5. /\ ChipsSet(pic', pic2') /\ CascadeFollows'
          /\ pic'.ins = pic.ins \cup {MasterLine(irq)}
          /\ pic2'.ins = IF irq < 8 THEN pic2.ins ELSE pic2.ins \cup {irq - 8}
      BY <1>a, <1>b, <2>1, TakeStep
    <2>6. PicInv'
      <3>1. Initialised
        BY <1>b DEF Initialised, ChipsInv, ChipsSet
      <3> QED BY <1>b, <2>1, <3>1, PicInterruptInv
    <2>7. irq < 8 <=> ~(irq >= 8)
      BY <2>1 DEF AllIrqs
    <2>8. ~AtStep("iret")'
      <3>1. Head(handlers') = x
        BY <1>c, <2>2, Pushed DEF Nested
      <3> QED BY <2>2, <3>1 DEF AtStep, Top
    <2> QED BY <1>c, <2>1, <2>4, <2>5, <2>6, <2>7, <2>8 DEF IntInv, ChipsInv, pciVars
  <1>5. CASE Sti
    <2>1. UNCHANGED vars /\ handlers' = handlers /\ ~AtStep("iret")
      BY <1>5 DEF Sti, AtStep
    <2>2. ChipsInv'
      <3>1. UNCHANGED picVars
        BY <2>1 DEF vars
      <3> QED BY <1>b, <3>1, DrivenStep DEF LinesDriven
    <2> QED BY <2>1, <2>2 DEF IntInv, AtStep, Top, vars, picVars, pciVars
  <1>6. ASSUME NEW h \in Users, ServiceCard(h) PROVE IntInv'
    <2> DEFINE x == [Top EXCEPT !.todo = @ \ {h}]
    <2>1. /\ handlers # <<>> /\ Top.step = "service"
          /\ handlers' = <<x>> \o Tail(handlers) /\ if_flag' = if_flag
      BY <1>6 DEF ServiceCard, AtStep
    <2>2. x \in HandlerType /\ x.irq = Top.irq /\ x.step = "service"
      BY <2>1, TopType
    <2> HIDE DEF x
    <2>3. /\ Nested(handlers')
          /\ MasterIns(handlers') = MasterIns(handlers)
          /\ SlaveIns(handlers') = SlaveIns(handlers)
      <3>1. Head(handlers).step = "service" /\ Head(handlers).irq = x.irq
        BY <2>1, <2>2 DEF Top
      <3> QED BY <1>c, <2>1, <2>2, <3>1, ReplaceNested
    <2>4. Head(handlers') = x
      BY <1>c, <2>1, <2>2, Replaced DEF Nested
    <2>5. LinesDriven /\ UNCHANGED <<pci_irqs, pci_mirqs>>
      <3>1. CASE UNCHANGED vars
        BY <3>1 DEF vars, pciVars, LinesDriven
      <3>2. CASE PciClearIrq(h)
        BY <3>2, CardDrives
      <3> QED BY <1>6, <3>1, <3>2 DEF ServiceCard
    <2>6. ChipsInv' /\ pic'.ins = pic.ins /\ pic2'.ins = pic2.ins
      BY <1>b, <2>5, DrivenStep
    <2>7. ~AtStep("iret")'
      BY <2>2, <2>4 DEF AtStep, Top
    <2> QED BY <1>c, <2>3, <2>5, <2>6, <2>7 DEF IntInv
  <1>7. CASE FirstEoi
    <2> DEFINE x == [Top EXCEPT !.step = "eoi_second"]
               l == Top.irq - 8
    <2>1. handlers' = <<x>> \o Tail(handlers) /\ UNCHANGED <<pciVars, if_flag>>
      BY <1>7 DEF FirstEoi, GoTo
    <2>2. /\ handlers # <<>> /\ Top.step = "service" /\ Top.irq >= 8
          /\ l \in Lines /\ pic2.ins = {l} /\ EndOfInterrupt(TRUE, l)
      BY <1>7, FirstEoiEnds
    <2>3. x \in HandlerType /\ x.irq = Top.irq /\ x.step = "eoi_second"
      BY <2>2, TopType DEF Steps
    <2> HIDE DEF x
    <2>4. /\ Nested(handlers')
          /\ MasterIns(handlers') = MasterIns(handlers)
          /\ SlaveIns(handlers') = SlaveIns(handlers) \ {l}
      <3>1. Head(handlers).step = "service" /\ Head(handlers).irq = x.irq
        BY <2>2, <2>3 DEF Top
      <3> QED BY <1>c, <2>1, <2>2, <2>3, <3>1, ReplaceNested
    <2>5. Head(handlers') = x
      BY <1>c, <2>1, <2>2, <2>3, Replaced DEF Nested
    <2>6. /\ ChipsSet(pic', pic2') /\ CascadeFollows'
          /\ pic'.ins = pic.ins /\ pic2'.ins = pic2.ins \ {l}
      BY <1>a, <1>b, <2>2, SlaveEoiStep
    <2>7. PicInv'
      BY <1>b, <2>2, EndOfInterruptInv
    <2>8. ~AtStep("iret")'
      BY <2>3, <2>5 DEF AtStep, Top
    <2> QED BY <1>c, <2>1, <2>4, <2>6, <2>7, <2>8 DEF IntInv, ChipsInv, pciVars
  <1>8. CASE LastEoi
    <2> DEFINE x == [Top EXCEPT !.step = "iret"]
               l == MasterLine(Top.irq)
    <2>1. handlers' = <<x>> \o Tail(handlers) /\ UNCHANGED pciVars /\ if_flag' = FALSE
      BY <1>8 DEF LastEoi, GoTo
    <2>2. /\ handlers # <<>> /\ Top.step # "iret"
          /\ ~(Top.step = "service" /\ Top.irq >= 8)
          /\ l \in Lines /\ EndOfInterrupt(FALSE, l)
      BY <1>8, LastEoiEnds
    <2>3. x \in HandlerType /\ x.irq = Top.irq /\ x.step = "iret"
      BY <2>2, TopType DEF Steps
    <2> HIDE DEF x
    <2>4. /\ Nested(handlers')
          /\ MasterIns(handlers') = MasterIns(handlers) \ {l}
          /\ SlaveIns(handlers') = SlaveIns(handlers)
      <3>1. /\ Head(handlers).step # "iret" /\ Head(handlers).irq = x.irq
            /\ ~(Head(handlers).step = "service" /\ x.irq >= 8)
        BY <2>2, <2>3 DEF Top
      <3> QED BY <1>c, <2>1, <2>2, <2>3, <3>1, ReplaceNested
    <2>5. /\ ChipsSet(pic', pic2') /\ CascadeFollows'
          /\ pic'.ins = pic.ins \ {l} /\ pic2'.ins = pic2.ins
      BY <1>a, <1>b, <2>2, MasterEoiStep
    <2>6. PicInv'
      BY <1>b, <2>2, EndOfInterruptInv
    <2> QED BY <1>c, <2>1, <2>4, <2>5, <2>6 DEF IntInv, ChipsInv, pciVars
  <1>9. CASE Iret
    <2>1. /\ handlers # <<>> /\ Head(handlers).step = "iret" /\ UNCHANGED vars
          /\ handlers' = Tail(handlers)
      BY <1>9 DEF Iret, AtStep, Top
    <2>2. /\ Nested(handlers')
          /\ MasterIns(handlers') = MasterIns(handlers)
          /\ SlaveIns(handlers') = SlaveIns(handlers)
          /\ handlers' # <<>> => Head(handlers').step # "iret"
      BY <1>c, <2>1, PopNested
    <2>3. ~AtStep("iret")'
      BY <2>2 DEF AtStep, Top
    <2>4. ChipsInv' /\ pic' = pic /\ pic2' = pic2
      <3>1. UNCHANGED picVars
        BY <2>1 DEF vars
      <3> QED BY <1>b, <3>1, DrivenStep DEF LinesDriven, picVars
    <2> QED BY <1>c, <2>1, <2>2, <2>3, <2>4 DEF IntInv, vars, pciVars
  <1>10. CASE UNCHANGED intVars
    <2>1. UNCHANGED picVars /\ UNCHANGED <<pci_irqs, pci_mirqs, if_flag, handlers>>
      BY <1>10 DEF intVars, vars, pciVars, cpuVars
    <2> QED BY <1>1, <2>1 DEF LinesDriven
  <1> QED BY <1>2, <1>3, <1>4, <1>5, <1>6, <1>7, <1>8, <1>9, <1>10
          DEF IntNext, HandlerNext

\* The inductive invariant holds: the chips' invariant with their settings and
\* the cascade, the routing, the nesting of the handlers, and what is in service
\* at each chip equal to what the active handlers have still to end there.
THEOREM IntInvariant == IntSpec => []IntInv
  <1>1. IntInit => IntInv
    BY IntInitInv, PciAssumption, ConstantsAssumption, IntAssumption
  <1>2. IntInv /\ [IntNext]_intVars => IntInv'
    BY IntStepInv, PciAssumption, ConstantsAssumption, IntAssumption
  <1> QED BY <1>1, <1>2, PTL DEF IntSpec

\* Every input in service has exactly the handlers that still have to end it,
\* for every set of devices, cards, wiring and nesting: each non-specific EOI
\* ends the input of the handler that writes it (update_mask, the OCW2 of
\* pic_write and pic2_write).
THEOREM IntServiceMatchesHandlers == IntSpec => []ServiceMatchesHandlers
  <1>1. IntInv => ServiceMatchesHandlers
    <2> SUFFICES ASSUME IntInv PROVE ServiceMatchesHandlers
      OBVIOUS
    <2> DEFINE hs == handlers
    <2>0. hs \in Seq(HandlerType)
      BY DEF IntInv, Nested
    <2>1. \A n \in DOMAIN hs :
             hs[n].irq \in AllIrqs \ {CascadeLine} /\ hs[n].step \in Steps
      BY <2>0, HandlerFields
    <2>2. \A n \in DOMAIN hs : (hs[n].irq >= 8 <=> hs[n].irq \notin Lines)
                               /\ (hs[n].irq < 8 <=> hs[n].irq \in Lines)
      BY <2>1 DEF AllIrqs, Lines
    <2>3. \A n \in DOMAIN hs :
             n \in OpenAt(hs) <=> hs[n].step \in {"service", "eoi_second"}
      BY <2>1 DEF OpenAt, Steps
    <2>4. \A i : i \in Open <=> \E n \in OpenAt(hs) : i = hs[n].irq
      <3>1. OpenAt(hs) \subseteq DOMAIN hs
        BY DEF OpenAt
      <3> QED BY <2>3, <3>1 DEF Open, Unended
    <2>5. pic2.ins = {i - 8 : i \in Unended({"service"}) \ Lines}
      <3>1. \A n \in DOMAIN hs : n \in SlaveAt(hs) <=>
                hs[n].step \in {"service"} /\ hs[n].irq \notin Lines
        BY <2>2 DEF SlaveAt
      <3>2. SlaveAt(hs) \subseteq DOMAIN hs
        BY DEF SlaveAt
      <3>3. \A v : v \in SlaveIns(hs) <=>
                      v \in {i - 8 : i \in Unended({"service"}) \ Lines}
        BY <3>1, <3>2 DEF SlaveIns, Unended
      <3> QED BY <3>3 DEF IntInv
    <2>6. pic.ins = (Open \cap Lines) \cup IF Open \subseteq Lines THEN {}
                                           ELSE {CascadeLine}
      <3>1. \A n \in OpenAt(hs) : n \in DOMAIN hs
        BY DEF OpenAt
      <3>2. \A n \in OpenAt(hs) : MasterLine(hs[n].irq) =
                IF hs[n].irq \in Lines THEN hs[n].irq ELSE CascadeLine
        BY <2>2, <3>1 DEF MasterLine
      <3>3. \A v : v \in MasterIns(hs) <=>
               \/ v \in Open /\ v \in Lines
               \/ v = CascadeLine /\ \E i \in Open : i \notin Lines
        BY <2>4, <3>2 DEF MasterIns
      <3>4. pic.ins = MasterIns(hs)
        BY DEF IntInv
      <3>5. CASE Open \subseteq Lines
        BY <3>3, <3>4, <3>5
      <3>6. CASE ~(Open \subseteq Lines)
        BY <3>3, <3>4, <3>6
      <3> QED BY <3>5, <3>6
    <2> QED BY <2>5, <2>6 DEF ServiceMatchesHandlers
  <1> QED BY <1>1, IntInvariant, PTL

(***************************************************************************)
(* The pair implements one controller.                                     *)
(***************************************************************************)

\* The inputs a device can be wired to.
Inputs == AllIrqs \ {CascadeLine}

\* The inputs a sequence of handlers serves.
Irqs(hs) == [n \in DOMAIN hs |-> hs[n].irq]

\* The inputs served, as a sequence.
LEMMA IrqsType ==
    ASSUME NEW hs \in Seq(HandlerType)
    PROVE  /\ Irqs(hs) \in Seq(Inputs) /\ Len(Irqs(hs)) = Len(hs)
           /\ DOMAIN hs = 1 .. Len(hs) /\ Len(hs) \in Nat
           /\ \A n \in 1 .. Len(hs) : Irqs(hs)[n] = hs[n].irq
  <1>1. DOMAIN hs = 1 .. Len(hs) /\ Len(hs) \in Nat
    OBVIOUS
  <1>2. \A n \in 1 .. Len(hs) : hs[n].irq \in Inputs
    BY <1>1, HandlerFields DEF Inputs
  <1>3. Irqs(hs) \in [1 .. Len(hs) -> Inputs]
    BY <1>1, <1>2 DEF Irqs
  <1>4. Irqs(hs) \in Seq(Inputs)
    BY <1>1, <1>3, SeqDef
  <1>5. DOMAIN Irqs(hs) = 1 .. Len(hs)
    BY <1>3
  <1>6. Len(Irqs(hs)) = Len(hs)
    BY <1>1, <1>4, <1>5, LenProperties
  <1> QED BY <1>1, <1>4, <1>6 DEF Irqs

\* The return of a handler removes its input.
LEMMA IrqsTail ==
    ASSUME NEW hs \in Seq(HandlerType), hs # <<>>
    PROVE  /\ Irqs(Tail(hs)) = Tail(Irqs(hs))
           /\ Irqs(hs) # <<>> /\ Head(Irqs(hs)) = Head(hs).irq
  <1> DEFINE r == Irqs(hs)
             t == Tail(hs)
  <1>1. /\ r \in Seq(Inputs) /\ Len(r) = Len(hs) /\ Len(hs) \in Nat
        /\ \A n \in 1 .. Len(hs) : r[n] = hs[n].irq
    BY IrqsType
  <1>2. /\ Len(hs) \in Nat \ {0} /\ Head(hs) = hs[1]
        /\ t \in Seq(HandlerType) /\ Len(t) = Len(hs) - 1
        /\ \A n \in 1 .. Len(hs) - 1 : t[n] = hs[n + 1]
    BY Popped
  <1>3. /\ Irqs(t) \in Seq(Inputs) /\ Len(Irqs(t)) = Len(t)
        /\ \A n \in 1 .. Len(t) : Irqs(t)[n] = t[n].irq
    BY <1>2, IrqsType
  <1> HIDE DEF r, t
  <1>4. r # <<>>
    <2>1. Len(r) # 0
      BY <1>1, <1>2
    <2> QED BY <2>1, EmptySeq
  <1>5. /\ Head(r) = r[1] /\ Tail(r) \in Seq(Inputs) /\ Len(Tail(r)) = Len(r) - 1
        /\ \A n \in 1 .. Len(r) - 1 : Tail(r)[n] = r[n + 1]
    BY <1>1, <1>4, Popped
  <1>6. Head(r) = Head(hs).irq
    BY <1>1, <1>2, <1>5
  <1>7. Len(Irqs(t)) = Len(Tail(r))
    BY <1>1, <1>2, <1>3, <1>5
  <1>8. ASSUME NEW n \in 1 .. Len(Irqs(t)) PROVE Irqs(t)[n] = Tail(r)[n]
    <2>1. n \in 1 .. Len(hs) - 1 /\ n + 1 \in 1 .. Len(hs)
      BY <1>2, <1>3
    <2>2. Irqs(t)[n] = hs[n + 1].irq
      BY <1>2, <1>3, <2>1
    <2>3. Tail(r)[n] = hs[n + 1].irq
      BY <1>1, <1>5, <2>1
    <2> QED BY <2>2, <2>3
  <1>9. Irqs(t) = Tail(r)
    BY <1>3, <1>5, <1>7, <1>8, SeqEqual
  <1> QED BY <1>4, <1>6, <1>9 DEF r, t

\* A new handler adds its input in front.
LEMMA IrqsPush ==
    ASSUME NEW hs \in Seq(HandlerType), NEW x \in HandlerType
    PROVE  Irqs(<<x>> \o hs) = <<x.irq>> \o Irqs(hs)
  <1> DEFINE t == <<x>> \o hs
             r == Irqs(hs)
             q == <<x.irq>> \o r
  <1>1. /\ r \in Seq(Inputs) /\ Len(r) = Len(hs) /\ Len(hs) \in Nat
        /\ \A n \in 1 .. Len(hs) : r[n] = hs[n].irq
    BY IrqsType
  <1>2. /\ t \in Seq(HandlerType) /\ Len(t) = Len(hs) + 1 /\ t[1] = x
        /\ \A n \in 1 .. Len(hs) : t[n + 1] = hs[n]
    BY Pushed
  <1>3. x.irq \in Inputs
    BY HandlerFields DEF Inputs
  <1> HIDE DEF t, r
  <1>4. /\ q \in Seq(Inputs) /\ Len(q) = Len(r) + 1 /\ q[1] = x.irq
        /\ \A n \in 1 .. Len(r) : q[n + 1] = r[n]
    <2>1. /\ <<x.irq>> \o r \in Seq(Inputs) /\ Len(<<x.irq>> \o r) = Len(r) + 1
          /\ (<<x.irq>> \o r)[1] = x.irq
          /\ \A n \in 1 .. Len(r) : (<<x.irq>> \o r)[n + 1] = r[n]
      BY <1>1, <1>3, Pushed
    <2> QED BY <2>1
  <1> HIDE DEF q
  <1>5. /\ Irqs(t) \in Seq(Inputs) /\ Len(Irqs(t)) = Len(t)
        /\ \A n \in 1 .. Len(t) : Irqs(t)[n] = t[n].irq
    BY <1>2, IrqsType
  <1>6. Len(Irqs(t)) = Len(q)
    BY <1>1, <1>2, <1>4, <1>5
  <1>7. ASSUME NEW n \in 1 .. Len(Irqs(t)) PROVE Irqs(t)[n] = q[n]
    <2>1. n \in 1 .. Len(hs) + 1
      BY <1>2, <1>5
    <2>2. CASE n = 1
      BY <1>2, <1>4, <1>5, <2>1, <2>2
    <2>3. CASE n # 1
      <3>1. n - 1 \in 1 .. Len(hs) /\ (n - 1) + 1 = n
        BY <1>1, <2>1, <2>3
      <3>2. t[(n - 1) + 1] = hs[n - 1] /\ q[(n - 1) + 1] = r[n - 1]
        BY <1>1, <1>2, <1>4, <3>1
      <3> QED BY <1>1, <1>2, <1>5, <2>1, <3>1, <3>2
    <2> QED BY <2>2, <2>3
  <1>8. Irqs(t) = q
    BY <1>4, <1>5, <1>6, <1>7, SeqEqual
  <1> QED BY <1>8 DEF t, r, q

\* A step of a handler does not change what it serves.
LEMMA IrqsReplaced ==
    ASSUME NEW hs \in Seq(HandlerType), hs # <<>>, NEW x \in HandlerType,
           x.irq = Head(hs).irq
    PROVE  Irqs(<<x>> \o Tail(hs)) = Irqs(hs)
  <1> DEFINE t == <<x>> \o Tail(hs)
  <1>1. /\ t \in Seq(HandlerType) /\ DOMAIN t = DOMAIN hs /\ t[1] = x
        /\ \A n \in DOMAIN hs : n # 1 => t[n] = hs[n]
    BY Replaced
  <1>2. Head(hs) = hs[1]
    BY Popped
  <1> HIDE DEF t
  <1>3. \A n \in DOMAIN hs : t[n].irq = hs[n].irq
    BY <1>1, <1>2
  <1>4. Irqs(t) = Irqs(hs)
    BY <1>1, <1>3 DEF Irqs
  <1> QED BY <1>4 DEF t

\* A handler that has sent its last EOI is not in service any more.
LEMMA ServingIs ==
    /\ AtStep("iret") => InService = Irqs(Tail(handlers))
    /\ ~AtStep("iret") => InService = Irqs(handlers)
    /\ AtStep("iret")' => InService' = Irqs(Tail(handlers'))
    /\ ~AtStep("iret")' => InService' = Irqs(handlers')
  BY DEF InService, Irqs

\* Nothing is requested and nothing in service at first, at either level.
LEMMA RefinesInit ==
    ASSUME PciAssumption, ConstantsAssumption, IntAssumption, IntInit
    PROVE  OneController!Init
  <1>1. pic.pend = {} /\ pic2.pend = {} /\ handlers = <<>>
    BY DEF IntInit, Programmed, Zeroed
  <1>2. InService = Irqs(handlers)
    BY <1>1, ServingIs DEF AtStep
  <1>3. handlers \in Seq(HandlerType) /\ Len(handlers) = 0
    BY <1>1, EmptySeq
  <1>4. Irqs(handlers) \in Seq(Inputs) /\ Len(Irqs(handlers)) = 0
    BY <1>3, IrqsType
  <1>5. Irqs(handlers) = <<>>
    BY <1>4, EmptySeq
  <1> QED BY <1>1, <1>2, <1>5 DEF OneController!Init

\* Every step of the machine is one step of the controller, or none.
LEMMA RefinesStep ==
    ASSUME PciAssumption, ConstantsAssumption, IntAssumption, IntInv,
           [IntNext]_intVars
    PROVE  \/ OneController!Next
           \/ /\ RequestedOf(pic', pic2') = RequestedOf(pic, pic2)
              /\ InService' = InService
  <1> DEFINE R == RequestedOf(pic, pic2)
             Rp == RequestedOf(pic', pic2')
             Goal == OneController!Next \/ (Rp = R /\ InService' = InService)
  <1>a. AT /\ ChipsInv /\ PicInv /\ Nested(handlers) /\ handlers \in Seq(HandlerType)
    BY PairPresent DEF IntInv, ChipsInv, Nested
  <1>b. DOMAIN Priority = Inputs
    BY PriorityIs DEF Inputs
  <1>1. ASSUME NEW i \in Inputs, Rp = R \cup {i}, InService' = InService PROVE Goal
    <2>1. OneController!Request(i)
      BY <1>1 DEF OneController!Request, RequestedOf
    <2> QED BY <1>b, <2>1 DEF OneController!Next
  <1>2. ASSUME NEW i \in Inputs, Rp = R \ {i}, InService' = InService PROVE Goal
    <2>1. OneController!Withdraw(i)
      BY <1>2 DEF OneController!Withdraw, RequestedOf
    <2> QED BY <1>b, <2>1 DEF OneController!Next
  <1>3. ASSUME LinesDriven, InService' = InService PROVE Goal
    <2>1. PICK i \in Inputs : Rp \in {R, R \cup {i}, R \ {i}}
      BY <1>3, <1>a, DrivenStep DEF Inputs
    <2> QED BY <1>1, <1>2, <1>3, <2>1
  <1>4. CASE IsaDevice
    <2>1. PICK irq \in IrqLines : PicInt(irq) \/ PicIntC(irq)
      BY <1>4 DEF IsaDevice
    <2>2. LinesDriven
      BY <2>1 DEF LinesDriven, PicInt, ConstantsAssumption
    <2>3. InService' = InService
      BY <1>4 DEF IsaDevice, cpuVars, InService, AtStep, Top
    <2> QED BY <1>3, <2>2, <2>3
  <1>5. CASE \E h \in Users : CardRaises(h)
    <2>1. LinesDriven
      BY <1>5, CardDrives DEF CardRaises
    <2>2. InService' = InService
      BY <1>5 DEF CardRaises, cpuVars, InService, AtStep, Top
    <2> QED BY <1>3, <2>1, <2>2
  <1>6. CASE TakeInterrupt
    <2>1. PICK irq \in Inputs :
              /\ PicInterrupt(irq)
              /\ if_flag
              /\ LET x == [irq |-> irq, step |-> "service", todo |-> CardsOn(irq)]
                 IN  x \in HandlerType /\ handlers' = <<x>> \o handlers
              /\ handlers # <<>> => Head(handlers).step # "iret"
      BY <1>6, TakeHandler DEF Inputs
    <2> DEFINE x == [irq |-> irq, step |-> "service", todo |-> CardsOn(irq)]
    <2>2. /\ x \in HandlerType /\ x.irq = irq /\ x.step = "service"
          /\ handlers' = <<x>> \o handlers
      BY <2>1
    <2> HIDE DEF x
    <2>3. irq \in AllIrqs
      BY DEF Inputs
    <2>4. irq \in R /\ Rp = R \ {irq}
      BY <1>a, <2>1, <2>3, TakeStep
    <2>5. \A j \in R : Priority[irq] <= Priority[j]
      BY <1>a, <2>1, <2>3, TakeIsFirst, SlaveBehindCascade
    <2>6. ~AtStep("iret") /\ ~AtStep("iret")'
      <3>1. Head(handlers') = x
        BY <1>a, <2>2, Pushed
      <3>2. ~AtStep("iret")
        BY <2>1 DEF AtStep, Top
      <3> QED BY <2>2, <3>1, <3>2 DEF AtStep, Top
    <2>7. InService = Irqs(handlers) /\ InService' = <<irq>> \o Irqs(handlers)
      BY <1>a, <2>2, <2>6, ServingIs, IrqsPush
    <2>8. ASSUME InService # <<>> PROVE Priority[irq] < Priority[Head(InService)]
      <3>1. handlers # <<>>
        <4>1. handlers = <<>> => Irqs(handlers) = <<>>
          <5>1. Irqs(handlers) \in Seq(Inputs) /\ Len(Irqs(handlers)) = Len(handlers)
            BY <1>a, IrqsType
          <5>2. handlers = <<>> => Len(handlers) = 0
            BY EmptySeq
          <5> QED BY <5>1, <5>2, EmptySeq
        <4> QED BY <2>7, <2>8, <4>1
      <3>2. Head(InService) = Top.irq
        BY <1>a, <2>7, <3>1, IrqsTail DEF Top
      <3>3. Top.step # "iret"
        BY <2>1, <3>1 DEF Top
      <3>4. /\ Top \in HandlerType /\ pic.ins # {}
            /\ First(pic.ins) = MasterLine(Top.irq)
        BY <3>1, <3>3, TopIsFirst
      <3>5. MasterLine(Top.irq) \in pic.ins
        <4>1. pic.ins \in SUBSET Lines
          BY <1>a, InvRegisters DEF MasterType, ChipType
        <4> QED BY <3>4, <4>1, FirstType
      <3>6. MasterLine(irq) < MasterLine(Top.irq)
        BY <1>a, <2>1, <2>3, <3>5, TakeNests
      <3>7. Top.irq \in AllIrqs \ {CascadeLine} /\ irq \in AllIrqs \ {CascadeLine}
        BY <3>4, HandlerFields DEF Inputs
      <3> QED BY <3>2, <3>6, <3>7, PriorityOrder
    <2>9. OneController!Accept(irq)
      BY <2>4, <2>5, <2>7, <2>8 DEF OneController!Accept, RequestedOf
    <2> QED BY <1>b, <2>9 DEF OneController!Next
  <1>7. CASE Sti
    <2>1. UNCHANGED vars /\ handlers' = handlers
      BY <1>7 DEF Sti
    <2> QED BY <2>1 DEF vars, picVars, InService, AtStep, Top
  <1>8. ASSUME NEW h \in Users, ServiceCard(h) PROVE Goal
    <2> DEFINE x == [Top EXCEPT !.todo = @ \ {h}]
    <2>1. /\ handlers # <<>> /\ Top.step = "service"
          /\ handlers' = <<x>> \o Tail(handlers)
      BY <1>8 DEF ServiceCard, AtStep
    <2>2. x \in HandlerType /\ x.irq = Top.irq /\ x.step = "service"
      BY <2>1, TopType
    <2> HIDE DEF x
    <2>3. Head(handlers') = x
      BY <1>a, <2>1, <2>2, Replaced
    <2>4. ~AtStep("iret") /\ ~AtStep("iret")'
      BY <2>1, <2>2, <2>3 DEF AtStep, Top
    <2>5. Irqs(handlers') = Irqs(handlers)
      BY <1>a, <2>1, <2>2, IrqsReplaced DEF Top
    <2>6. InService' = InService
      BY <2>4, <2>5, ServingIs
    <2>7. LinesDriven
      <3>1. CASE UNCHANGED vars
        BY <3>1 DEF vars, LinesDriven
      <3>2. CASE PciClearIrq(h)
        BY <3>2, CardDrives
      <3> QED BY <1>8, <3>1, <3>2 DEF ServiceCard
    <2> QED BY <1>3, <2>6, <2>7
  <1>9. CASE FirstEoi
    <2> DEFINE x == [Top EXCEPT !.step = "eoi_second"]
               l == Top.irq - 8
    <2>1. handlers' = <<x>> \o Tail(handlers)
      BY <1>9 DEF FirstEoi, GoTo
    <2>2. /\ handlers # <<>> /\ Top.step = "service" /\ Top.irq >= 8
          /\ l \in Lines /\ EndOfInterrupt(TRUE, l)
      BY <1>9, FirstEoiEnds
    <2>3. x \in HandlerType /\ x.irq = Top.irq /\ x.step = "eoi_second"
      BY <2>2, TopType DEF Steps
    <2> HIDE DEF x
    <2>4. Head(handlers') = x
      BY <1>a, <2>1, <2>2, <2>3, Replaced
    <2>5. ~AtStep("iret") /\ ~AtStep("iret")'
      BY <2>2, <2>3, <2>4 DEF AtStep, Top
    <2>6. Irqs(handlers') = Irqs(handlers)
      BY <1>a, <2>1, <2>2, <2>3, IrqsReplaced DEF Top
    <2>7. InService' = InService
      BY <2>5, <2>6, ServingIs
    <2>8. Rp \in {R, R \cup {8 + l}}
      BY <1>a, <2>2, SlaveEoiStep
    <2>9. 8 + l \in Inputs
      BY <2>2 DEF Inputs, Lines, AllIrqs, CascadeLine
    <2> QED BY <1>1, <2>7, <2>8, <2>9
  <1>10. CASE LastEoi
    <2> DEFINE x == [Top EXCEPT !.step = "iret"]
               l == MasterLine(Top.irq)
    <2>1. handlers' = <<x>> \o Tail(handlers)
      BY <1>10 DEF LastEoi, GoTo
    <2>2. /\ handlers # <<>> /\ Top.step # "iret"
          /\ l \in Lines /\ EndOfInterrupt(FALSE, l)
      BY <1>10, LastEoiEnds
    <2>3. x \in HandlerType /\ x.irq = Top.irq /\ x.step = "iret"
      BY <2>2, TopType DEF Steps
    <2> HIDE DEF x
    <2>4. /\ handlers' # <<>> /\ Head(handlers') = x
          /\ Tail(handlers') = Tail(handlers)
      BY <1>a, <2>1, <2>2, <2>3, Replaced
    <2>5. ~AtStep("iret") /\ AtStep("iret")'
      BY <2>2, <2>3, <2>4 DEF AtStep, Top
    <2>6. InService = Irqs(handlers) /\ InService' = Irqs(Tail(handlers))
      BY <2>4, <2>5, ServingIs
    <2>7. /\ InService # <<>> /\ InService' = Tail(InService)
          /\ Head(InService) = Top.irq
      BY <1>a, <2>2, <2>6, IrqsTail DEF Top
    <2>8. Rp = R \/ (l # CascadeLine /\ Rp = R \cup {l})
      BY <1>a, <2>2, MasterEoiStep
    <2>9. l # CascadeLine => l = Top.irq
      BY DEF MasterLine
    <2>10. CASE Rp = R
      <3>1. OneController!Finish(FALSE)
        BY <2>7, <2>10 DEF OneController!Finish, RequestedOf
      <3> QED BY <3>1 DEF OneController!Next
    <2>11. CASE Rp = R \cup {Top.irq}
      <3>1. OneController!Finish(TRUE)
        BY <2>7, <2>11 DEF OneController!Finish, RequestedOf
      <3> QED BY <3>1 DEF OneController!Next
    <2> QED BY <2>8, <2>9, <2>10, <2>11
  <1>11. CASE Iret
    <2>1. /\ handlers # <<>> /\ Head(handlers).step = "iret" /\ UNCHANGED vars
          /\ handlers' = Tail(handlers)
      BY <1>11 DEF Iret, AtStep, Top
    <2>2. AtStep("iret") /\ ~AtStep("iret")'
      <3>1. handlers' # <<>> => Head(handlers').step # "iret"
        BY <1>a, <2>1, PopNested
      <3> QED BY <2>1, <3>1 DEF AtStep, Top
    <2>3. InService' = InService
      BY <2>1, <2>2, ServingIs
    <2> QED BY <2>1, <2>3 DEF vars, picVars
  <1>12. CASE UNCHANGED intVars
    BY <1>12 DEF intVars, vars, picVars, cpuVars, InService, AtStep, Top
  <1> QED BY <1>4, <1>5, <1>6, <1>7, <1>8, <1>9, <1>10, <1>11, <1>12
          DEF IntNext, HandlerNext

\* The two chips with their cascade are one controller of fifteen inputs, for
\* every set of devices and cards: what pic_interrupt serves is the first of
\* all that is requested and comes before all that is in service, handlers
\* end in reverse order, and nothing is requested, withdrawn or ended besides.
THEOREM IntImplementsOneController == IntSpec => ImplementsOneController
  <1>1. IntInit => OneController!Init
    BY RefinesInit, PciAssumption, ConstantsAssumption, IntAssumption
  <1>2. IntInv /\ [IntNext]_intVars =>
           [OneController!Next]_<<(pic.pend \ {CascadeLine})
                                     \cup {8 + l : l \in pic2.pend}, InService>>
    BY RefinesStep, PciAssumption, ConstantsAssumption, IntAssumption DEF RequestedOf
  <1> QED BY <1>1, <1>2, IntInvariant, PTL DEF IntSpec, ImplementsOneController,
             OneController!Spec
=============================================================================
