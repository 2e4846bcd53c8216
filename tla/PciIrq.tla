------------------------------- MODULE PciIrq -------------------------------
(***************************************************************************)
(* The interrupt pins of PCI cards, devices/system/pci.c, on top of the    *)
(* interrupt controllers of module Pic.  A card drives pin INTA..INTD of   *)
(* its slot; the chipset routes pins to interrupt lines; cards share level *)
(* triggered lines, and pci_irq_hold remembers per line which cards hold   *)
(* it.  The two "MIRQ" lines of chipsets share the same memory, as cards   *)
(* 0x1E and 0x1F.                                                          *)
(*                                                                         *)
(* Left out: configuration space (pci_read, pci_write, pci_cf8_*, type 2), *)
(* which only forwards to the card, and the bus speed.                     *)
(***************************************************************************)
EXTENDS Pic

CONSTANTS
    Cards,       \* the slot numbers of the PCI cards, with INTA
    PinOf,       \* PinOf[c] = the routing input 0..3 the slot wires INTA to
    Mirqs,       \* the motherboard interrupt lines in use
    RouteValues, \* the routings a guest writes: lines, or Disabled
    QuietGuest,  \* TRUE: the guest reprograms routing, ELCR and controllers,
                 \* and resets the bus, only while no pin is raised
    UserResets   \* TRUE: the user may reset the machine while lines are raised

Disabled == 255

Mirq(m) == 30 + m

Holders == 0 .. 31

ASSUME PciAssumption ==
    /\ PCI
    /\ Cards \subseteq 0 .. 29
    /\ PinOf \in [Cards -> 0 .. 3]
    /\ Mirqs \subseteq {0, 1}
    /\ RouteValues \subseteq (AllIrqs \cup {Disabled})
    /\ QuietGuest \in BOOLEAN /\ UserResets \in BOOLEAN

VARIABLES
    pci_irq_hold, \* per line, the cards and MIRQs that hold it raised
    pci_irqs,     \* the line each of the four routing inputs goes to
    pci_mirqs,    \* the line of each MIRQ, Disabled when it has none
    raised        \* the cards and MIRQs whose pin is raised: what their own
                  \* registers say, not a variable of pci.c

pciVars == <<pci_irq_hold, pci_irqs, pci_mirqs, raised>>
vars == <<picVars, pciVars>>

\* The line a holder's interrupt goes to now.
LineOf(h) == IF h < 30 THEN pci_irqs[PinOf[h]] ELSE pci_mirqs[h - 30]

Users == Cards \cup {Mirq(m) : m \in Mirqs}

\* Mutant: only the card that raises the line is remembered.
PciSetIrqFirstOnly(h) ==
    LET line == LineOf(h) IN
    /\ raised' = raised \cup {h}
    /\ IF line = Disabled \/ (IsLevel(line) /\ pci_irq_hold[line] # {})
       THEN UNCHANGED <<picVars, pci_irq_hold>>
       ELSE /\ PicIntLevel(line)
            /\ pci_irq_hold' = IF IsLevel(line)
                               THEN [pci_irq_hold EXCEPT ![line] = {h}]
                               ELSE pci_irq_hold
    /\ UNCHANGED <<pci_irqs, pci_mirqs>>

\* pci_set_irq and pci_set_mirq.
PciSetIrq(h) ==
    LET line == LineOf(h) IN
    /\ raised' = raised \cup {h}
    /\ IF line = Disabled \/ (IsLevel(line) /\ h \in pci_irq_hold[line])
       THEN UNCHANGED <<picVars, pci_irq_hold>>
       ELSE IF ~IsLevel(line)
       THEN PicIntLevel(line) /\ UNCHANGED pci_irq_hold
       ELSE /\ IF pci_irq_hold[line] = {}
               THEN PicIntLevel(line) ELSE UNCHANGED picVars
            /\ pci_irq_hold' = [pci_irq_hold EXCEPT ![line] = @ \cup {h}]
    /\ UNCHANGED <<pci_irqs, pci_mirqs>>

\* Mutant: any holder lowers the line.
PciClearIrqShared(h) ==
    LET line == LineOf(h) IN
    /\ raised' = raised \ {h}
    /\ IF line = Disabled \/ (IsLevel(line) /\ h \notin pci_irq_hold[line])
       THEN UNCHANGED <<picVars, pci_irq_hold>>
       ELSE /\ PicIntC(line)
            /\ pci_irq_hold' = [pci_irq_hold EXCEPT ![line] = @ \ {h}]
    /\ UNCHANGED <<pci_irqs, pci_mirqs>>

\* pci_clear_irq and pci_clear_mirq: the last holder lowers the line.
PciClearIrq(h) ==
    LET line == LineOf(h) IN
    /\ raised' = raised \ {h}
    /\ IF line = Disabled \/ (IsLevel(line) /\ h \notin pci_irq_hold[line])
       THEN UNCHANGED <<picVars, pci_irq_hold>>
       ELSE IF ~IsLevel(line)
       THEN PicIntC(line) /\ UNCHANGED pci_irq_hold
       ELSE /\ IF pci_irq_hold[line] = {h}
               THEN PicIntC(line) ELSE UNCHANGED picVars
            /\ pci_irq_hold' = [pci_irq_hold EXCEPT ![line] = @ \ {h}]
    /\ UNCHANGED <<pci_irqs, pci_mirqs>>

MayReprogram == QuietGuest => raised = {}

\* The chipset's routing registers.
SetIrqRouting(pin, line) ==
    /\ MayReprogram
    /\ pci_irqs' = [pci_irqs EXCEPT ![pin] = line]
    /\ UNCHANGED <<picVars, pci_irq_hold, pci_mirqs, raised>>

SetMirqRouting(m, line) ==
    /\ MayReprogram
    /\ pci_mirqs' = [pci_mirqs EXCEPT ![m] = line]
    /\ UNCHANGED <<picVars, pci_irq_hold, pci_irqs, raised>>

-----------------------------------------------------------------------------
Held == {line \in AllIrqs : pci_irq_hold[line] # {}}

NoHolds == [line \in AllIrqs |-> {}]

\* trc_write: the guest resets the bus.  Each card's own reset handler may
\* or may not forget that its pin is raised; none lowers it through pci.c.
TrcReset ==
    /\ MayReprogram
    /\ PicReset(Held)
    /\ pci_irq_hold' = NoHolds
    /\ raised' \in SUBSET raised
    /\ UNCHANGED <<pci_irqs, pci_mirqs>>

\* pc_reset_hard: the cards are closed, pci_init runs for the new machine.
PciHardReset ==
    /\ UserResets \/ pic_current = {}
    /\ HardReset(Held)
    /\ pci_irq_hold' = NoHolds
    /\ raised' = {}
    /\ pci_irqs' = [pin \in 0 .. 3 |-> Disabled]
    /\ pci_mirqs' = [m \in {0, 1} |-> Disabled]

PciInit ==
    /\ Init
    /\ pci_irq_hold = NoHolds
    /\ raised = {}
    /\ pci_irqs = [pin \in 0 .. 3 |-> Disabled]
    /\ pci_mirqs = [m \in {0, 1} |-> Disabled]

PicNext ==
    /\ \/ MayReprogram /\ (StartNext \/ ElcrNext)
       \/ GuestNext
       \/ DeviceNext
       \/ CpuNext
    /\ UNCHANGED pciVars

CardNext == \E h \in Users : PciSetIrq(h) \/ PciClearIrq(h)

RoutingNext == \E line \in RouteValues :
    \/ \E c \in Cards : SetIrqRouting(PinOf[c], line)
    \/ \E m \in Mirqs : SetMirqRouting(m, line)

PciNext == PicNext \/ CardNext \/ RoutingNext \/ TrcReset \/ PciHardReset

PciSpec == PciInit /\ [][PciNext]_vars
-----------------------------------------------------------------------------
(* Properties.  While pins are raised the guest leaves routing, ELCR and   *)
(* controllers alone (QuietGuest); what happens otherwise is in README.md. *)

\* pci_irq_hold is exactly the wired OR it stands for: a line is held by the
\* cards and MIRQs that raise their pin and are routed to it now, so a card
\* that raises or lowers its pin twice, or after another one, neither loses
\* nor leaves a hold (pci_set_irq, pci_clear_irq and the _mirq pair).
HoldsAreWiredOr ==
    \A line \in AllIrqs :
        pci_irq_hold[line] =
            IF IsLevel(line) THEN {h \in raised : LineOf(h) = line} ELSE {}

\* The controllers see a level triggered line raised exactly while some card
\* holds it: the first holder raises it and only the last one lowers it.
\* (No ISA device drives the line too.)
LineFollowsHolds ==
    \A line \in AllIrqs \ IrqLines :
        IsLevel(line) => (line \in pic_current <=> line \in Held)

\* A line a card holds is requested or in service at the controllers, so
\* that the card's driver runs: pci_set_irq raises a shared line only once
\* and relies on the EOI to request it again for the cards that remain.
HeldLineWaits == Held \subseteq Waiting
=============================================================================
