----------------------------- MODULE Interrupts -----------------------------
(***************************************************************************)
(* Devices, PCI cards, the interrupt controllers and the processor         *)
(* together: the guest's handlers are entered through pic_interrupt        *)
(* (cpu/386.c), nest when they enable interrupts, service their device and *)
(* end with a non-specific EOI, on the slave first for its lines.  The     *)
(* guest is an environment: it is the code every PC operating system has,  *)
(* and no part of src/.                                                    *)
(*                                                                         *)
(* The machine starts as the BIOS leaves it: both chips initialised, no    *)
(* line masked, the ELCR and the routing of the cards set.                 *)
(***************************************************************************)
EXTENDS PciIrq, Sequences

CONSTANTS
    PciLine  \* the level triggered line all cards are routed to

VARIABLES
    if_flag,  \* the processor's interrupt flag
    handlers  \* the guest's active handlers, the innermost first

cpuVars == <<if_flag, handlers>>
intVars == <<vars, cpuVars>>

ASSUME IntAssumption == PciLine \in ElcrLines

\* A handler services its device, then ends the chips in turn, then returns.
Steps == {"service", "eoi_second", "iret"}

Programmed(icw3) ==
    [Zeroed(icw3) EXCEPT !.icw1 = {"ic4"}, !.vector = 8]

IntInit ==
    /\ pic = Programmed({CascadeLine}) /\ pic2 = Programmed(CascadeLine)
    /\ pic_pending = {} /\ pic_current = {} /\ elcr = {PciLine}
    /\ pci_irq_hold = NoHolds
    /\ raised = {}
    /\ pci_irqs = [pin \in 0 .. 3 |-> PciLine]
    /\ pci_mirqs = [m \in {0, 1} |-> Disabled]
    /\ if_flag = TRUE /\ handlers = <<>>

Top == Head(handlers)

AtStep(step) == handlers # <<>> /\ Top.step = step

GoTo(step) == handlers' = <<[Top EXCEPT !.step = step]>> \o Tail(handlers)

\* ISA devices raise edge triggered lines, and may lower them again.
IsaDevice ==
    /\ \E irq \in IrqLines : PicInt(irq) \/ PicIntC(irq)
    /\ UNCHANGED <<pciVars, cpuVars>>

CardRaises(h) == PciSetIrq(h) /\ UNCHANGED cpuVars

\* The cards a handler of this line has to look at.
CardsOn(irq) == IF irq = PciLine THEN Users ELSE {}

\* The processor takes the interrupt unless pic_interrupt returns 255.
TakeInterrupt ==
    /\ if_flag
    /\ \E irq \in AllIrqs :
          /\ PicInterrupt(irq)
          /\ IF IntVector(irq) = 255
             THEN UNCHANGED cpuVars
             ELSE /\ if_flag' = FALSE
                  /\ handlers' = <<[irq |-> irq, step |-> "service",
                                    todo |-> CardsOn(irq)]>> \o handlers
    /\ UNCHANGED pciVars

\* A handler may enable interrupts until it writes its last EOI.
Sti ==
    /\ AtStep("service") \/ AtStep("eoi_second")
    /\ ~if_flag /\ if_flag' = TRUE
    /\ UNCHANGED <<vars, handlers>>

\* The drivers of a shared line look at each card once, and make the one
\* they find raising its pin lower it.
ServiceCard(h) ==
    /\ AtStep("service") /\ h \in Top.todo
    /\ handlers' = <<[Top EXCEPT !.todo = @ \ {h}]>> \o Tail(handlers)
    /\ IF h \in raised THEN PciClearIrq(h) ELSE UNCHANGED vars
    /\ UNCHANGED if_flag

\* The first EOI of two, to the slave, for a line of the slave.
FirstEoi ==
    /\ AtStep("service") /\ Top.irq >= 8 /\ Top.todo = {}
    /\ NonSpecificEoi(TRUE)
    /\ GoTo("eoi_second")
    /\ UNCHANGED <<pciVars, if_flag>>

\* The handler's last EOI, with interrupts disabled until it returns.
LastEoi ==
    /\ \/ /\ AtStep("service") /\ Top.irq < 8 /\ Top.todo = {}
          /\ NonSpecificEoi(FALSE)
       \/ AtStep("eoi_second") /\ NonSpecificEoi(FALSE)
    /\ GoTo("iret")
    /\ if_flag' = FALSE
    /\ UNCHANGED pciVars

Iret ==
    /\ AtStep("iret")
    /\ handlers' = Tail(handlers)
    /\ if_flag' = TRUE
    /\ UNCHANGED vars

\* The steps of one handler, which the guest takes one after another.
HandlerNext == (\E h \in Users : ServiceCard(h)) \/ FirstEoi \/ LastEoi \/ Iret

IntNext ==
    \/ IsaDevice
    \/ \E h \in Users : CardRaises(h)
    \/ TakeInterrupt
    \/ Sti
    \/ HandlerNext

IntSpec == IntInit /\ [][IntNext]_intVars

\* The processor asks pic_interrupt before every instruction while its
\* interrupt flag is set, and the guest's handlers run to their end.
FairIntSpec == IntSpec /\ WF_intVars(TakeInterrupt) /\ WF_intVars(HandlerNext)
-----------------------------------------------------------------------------
(* Properties.                                                             *)

\* The lines with a handler that still has to write an EOI to the chip.
Unended(steps) ==
    {handlers[n].irq : n \in {n \in DOMAIN handlers : handlers[n].step \in steps}}

Open == Unended({"service", "eoi_second"})

\* What the chips hold in service is what the guest's handlers have yet to
\* end: each non-specific EOI ends the input of the handler that writes it,
\* however handlers nested, and no input stays in service without a handler.
ServiceMatchesHandlers ==
    /\ pic2.ins = {i - 8 : i \in Unended({"service"}) \ Lines}
    /\ pic.ins = (Open \cap Lines) \cup IF Open \subseteq Lines THEN {}
                                       ELSE {CascadeLine}

\* The place of the fifteen inputs of the pair, first served first: 0, 1, the
\* slave's, then 3 to 7.
Priority == [i \in AllIrqs \ {CascadeLine} |->
                IF i < CascadeLine THEN i ELSE IF i >= 8 THEN i - 6 ELSE i + 7]

\* The pair of chips implements one controller with fifteen inputs: what is
\* requested is what is pending on both but the cascade input, what is
\* served is what handlers have not ended (only the innermost handler is ever
\* between its last EOI and its return).
InService ==
    LET open == IF AtStep("iret") THEN Tail(handlers) ELSE handlers
    IN  [n \in DOMAIN open |-> open[n].irq]

OneController == INSTANCE PriorityInt WITH
    Inputs <- DOMAIN Priority,
    RankOf <- Priority,
    requested <- (pic.pend \ {CascadeLine}) \cup {8 + l : l \in pic2.pend},
    serving <- InService

ImplementsOneController == OneController!Spec

Requested(i) == IF i < 8 THEN i \in pic.pend ELSE i - 8 \in pic2.pend

\* No input before this one asks for service.
NothingBefore(i) ==
    \A j \in DOMAIN Priority : Priority[j] < Priority[i] => ~Requested(j)

\* A request is answered, or withdrawn, once the inputs before it stop
\* asking: no chip stays blocked by an input nobody serves.
RequestsAnswered ==
    \A i \in IrqLines \cup {PciLine} :
        (<>[]NothingBefore(i)) => (Requested(i) ~> ~Requested(i))

\* A card's raised pin is serviced although several cards share the line
\* and raise it again while its handler runs, once the inputs before the
\* line stop asking.
PinsServiced ==
    (<>[]NothingBefore(PciLine)) =>
        \A h \in Users : h \in raised ~> h \notin raised
=============================================================================
