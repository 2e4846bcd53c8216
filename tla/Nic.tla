-------------------------------- MODULE Nic --------------------------------
(***************************************************************************)
(* The receive ring of an NE2000: the poll thread of the network provider  *)
(* runs nic_rx, which puts a frame in the pages from CURR on, while the    *)
(* guest's driver, on the emulator thread, reads frames and moves BNRY.    *)
(* Neither takes a lock.  A page holds a part of a frame; the header of a  *)
(* frame is with its first part.                                           *)
(*                                                                         *)
(* Left out: the address filter and runts (a frame may always be dropped), *)
(* loopback, remote DMA but for its interrupt, and what is transmitted.    *)
(***************************************************************************)
EXTENDS Integers, Sequences

CONSTANTS
    PageStart, PageStop,    \* PSTART and PSTOP as the driver sets them
    FrameSizes,             \* frames occupy these numbers of pages
    AckValues,              \* the driver writes these bits to ISR
    Frames                  \* bound: frames put in the ring

ASSUME NicAssumption ==
    /\ PageStart \in Nat \ {0} /\ PageStop \in Nat /\ PageStart + 1 < PageStop
    /\ FrameSizes \subseteq Nat \ {0} /\ FrameSizes # {} /\ Frames \in Nat \ {0}

Bits == {"rx", "tx", "rdma"}
ASSUME AckAssumption == AckValues \subseteq SUBSET Bits

Pages == PageStart .. PageStop - 1
Size == PageStop - PageStart

VARIABLES
    stop,               \* CR.stop
    curr, bound,        \* curr_page, bound_ptr
    mem,                \* [frame, part, next], by page
    isr, imr, line,     \* ISR, IMR, and what nic_interrupt said last
    rx, npg, below,     \* nic_rx: where it is, its frame's pages, a test's result
    next, lag,          \* the driver: next page to read, and how far before it BNRY is
    driver, acked, old, \* a write to ISR: where it is, its bits, the ISR it loaded
    unread              \* history: the frames in the ring, [frame, page, pages]

rxVars == <<rx, npg, below>>
driverVars == <<next, lag, driver, acked, old>>
nicVars == <<stop, curr, bound, mem, isr, imr, line, rxVars, driverVars, unread>>

Blank == [frame |-> 0, part |-> 0, next |-> 0]

\* nic_reset, in a hard reset: the poll thread has ended, the guest begins anew.
NicReset ==
    /\ rx = "idle" /\ driver = "run"
    /\ stop' = TRUE /\ curr' = 0 /\ bound' = 0
    /\ mem' = [p \in Pages |-> Blank]
    /\ isr' = {} /\ imr' = {} /\ line' = FALSE
    /\ rx' = "idle" /\ npg' = 0 /\ below' = FALSE
    /\ next' = 0 /\ lag' = 0 /\ driver' = "run" /\ acked' = {} /\ old' = {}
    /\ unread' = <<>>

NicInit ==
    /\ stop = TRUE /\ curr = 0 /\ bound = 0
    /\ mem = [p \in Pages |-> Blank]
    /\ isr = {} /\ imr = {} /\ line = FALSE
    /\ rx = "idle" /\ npg = 0 /\ below = FALSE
    /\ next = 0 /\ lag = 0 /\ driver = "run" /\ acked = {} /\ old = {}
    /\ unread = <<>>

-----------------------------------------------------------------------------
(* nic_rx.                                                                 *)

\* CURR and BNRY are compared, and read again to compute the room.
RxCalled(pages) ==
    /\ rx = "idle"
    /\ rx' = IF stop THEN "done" ELSE "room"
    /\ npg' = pages
    /\ below' = (curr < bound)
    /\ UNCHANGED <<stop, curr, bound, mem, isr, imr, line, driverVars, unread>>

Avail == IF below THEN bound - curr ELSE Size - (curr - bound)

\* Mutant: the ring may be filled to the last page, DP8390_NEVER_FULL_RING off.
RxRoomFull ==
    /\ rx = "room"
    /\ \/ Avail >= npg /\ rx' = "copy"
       \/ rx' = "done"
    /\ UNCHANGED <<stop, curr, bound, mem, isr, imr, line, npg, below, driverVars,
                   unread>>

\* A frame without room is dropped, and so is one that is not for this card.
RxRoom ==
    /\ rx = "room"
    /\ \/ Avail > npg /\ rx' = "copy"
       \/ rx' = "done"
    /\ UNCHANGED <<stop, curr, bound, mem, isr, imr, line, npg, below, driverVars,
                   unread>>

Wrap(page) == IF page >= PageStop THEN page - Size ELSE page

NextPage == Wrap(curr + npg)

FrameId == IF unread = <<>> THEN 1 ELSE (unread[Len(unread)].frame % Frames) + 1

\* Both copies, up to PSTOP and from PSTART on.
RxCopy ==
    /\ rx = "copy" /\ rx' = "curr"
    /\ LET part(p) == IF p >= curr THEN p - curr ELSE p - curr + Size
       IN  mem' = [p \in Pages |->
                     IF part(p) < npg
                     THEN [frame |-> FrameId, part |-> part(p),
                           next |-> IF part(p) = 0 THEN NextPage ELSE 0]
                     ELSE mem[p]]
    /\ UNCHANGED <<stop, curr, bound, isr, imr, line, npg, below, driverVars, unread>>

RxCurrent ==
    /\ rx = "curr" /\ rx' = "status"
    /\ curr' = NextPage
    /\ unread' = Append(unread, [frame |-> mem[curr].frame, page |-> curr,
                                 pages |-> npg])
    /\ UNCHANGED <<stop, bound, mem, isr, imr, line, npg, below, driverVars>>

RxStatus ==
    /\ rx = "status" /\ rx' = "interrupt"
    /\ isr' = isr \cup {"rx"}
    /\ UNCHANGED <<stop, curr, bound, mem, imr, line, npg, below, driverVars, unread>>

RxInterrupt ==
    /\ rx = "interrupt" /\ rx' = "done"
    /\ line' = (line \/ "rx" \in imr)
    /\ UNCHANGED <<stop, curr, bound, mem, isr, imr, npg, below, driverVars, unread>>

RxReturns ==
    /\ rx = "done" /\ rx' = "idle"
    /\ UNCHANGED <<stop, curr, bound, mem, isr, imr, line, npg, below, driverVars,
                   unread>>

RxNext ==
    \/ RxRoom \/ RxCopy \/ RxCurrent \/ RxStatus \/ RxInterrupt \/ RxReturns

-----------------------------------------------------------------------------
(* The guest's driver, and the register accesses it makes.                 *)

\* It stops the card, and waits until a reception that has begun is over.
DriverStops ==
    /\ driver = "run" /\ ~stop
    /\ stop' = TRUE
    /\ UNCHANGED <<curr, bound, mem, isr, imr, line, rxVars, driverVars, unread>>

\* An empty ring is one whose next frame is at CURR; drivers keep BNRY there or
\* a page before.  ISR is cleared before IMR is set.
DriverStarts(l) ==
    /\ driver = "run" /\ stop /\ rx \in {"idle", "done"}
    /\ stop' = FALSE
    /\ bound' = PageStart
    /\ lag' = l /\ next' = PageStart + l /\ curr' = PageStart + l
    /\ isr' = {} /\ imr' = {"rx", "tx"} /\ line' = FALSE
    /\ unread' = <<>>
    /\ UNCHANGED <<mem, rxVars, driver, acked, old>>

\* The reset port; the line is left as it is.
NicSoftReset ==
    /\ driver = "run"
    /\ isr' = {}
    /\ UNCHANGED <<stop, curr, bound, mem, imr, line, rxVars, driverVars, unread>>

\* A frame is read by remote DMA; the next one is where its header says.
DriverReads ==
    /\ driver = "run" /\ ~stop /\ next # curr
    /\ next' = mem[next].next
    /\ unread' = Tail(unread)
    /\ isr' = isr \cup {"rdma"}
    /\ line' = (line \/ "rdma" \in imr)
    /\ UNCHANGED <<stop, curr, bound, mem, imr, rxVars, lag, driver, acked, old>>

\* BNRY.
DriverFrees ==
    /\ driver = "run" /\ ~stop
    /\ bound' = IF next - lag < PageStart THEN PageStop - 1 ELSE next - lag
    /\ UNCHANGED <<stop, curr, mem, isr, imr, line, rxVars, driverVars, unread>>

\* A write to ISR clears its bits by a load and a store of every flag ...
AckLoad(bits) ==
    /\ driver = "run" /\ driver' = "store"
    /\ acked' = bits /\ old' = isr
    /\ UNCHANGED <<stop, curr, bound, mem, isr, imr, line, rxVars, next, lag, unread>>

AckStore ==
    /\ driver = "store" /\ driver' = "test"
    /\ isr' = old \ acked
    /\ UNCHANGED <<stop, curr, bound, mem, imr, line, rxVars, next, lag, acked, old,
                   unread>>

\* ... and lowers the line if no bit is left that has an interrupt enabled.
AckTest ==
    /\ driver = "test"
    /\ driver' = IF isr \cap imr = {} THEN "lower" ELSE "run"
    /\ acked' = {} /\ old' = {}
    /\ UNCHANGED <<stop, curr, bound, mem, isr, imr, line, rxVars, next, lag, unread>>

AckLower ==
    /\ driver = "lower" /\ driver' = "run"
    /\ line' = FALSE
    /\ UNCHANGED <<stop, curr, bound, mem, isr, imr, rxVars, next, lag, acked, old,
                   unread>>

\* nic_tx, after network_tx.
NicTx ==
    /\ driver = "run" /\ ~stop
    /\ isr' = isr \cup {"tx"}
    /\ line' = (line \/ "tx" \in imr)
    /\ UNCHANGED <<stop, curr, bound, mem, imr, rxVars, driverVars, unread>>

DriverNext ==
    \/ DriverStops \/ \E l \in {0, 1} : DriverStarts(l)
    \/ NicSoftReset \/ DriverReads \/ DriverFrees
    \/ \E bits \in AckValues : AckLoad(bits)
    \/ NicTx \/ AckStore \/ AckTest \/ AckLower

NicNext ==
    \/ \E pages \in FrameSizes : RxCalled(pages)
    \/ RxNext
    \/ DriverNext
    \/ NicReset

NicSpec == NicInit /\ [][NicNext]_nicVars

-----------------------------------------------------------------------------
\* The driver finds the frames that were received, whole and in their order:
\* none is overwritten before it is read, however the ring wraps, and a full
\* ring is not taken for an empty one (nic_rx, DP8390_NEVER_FULL_RING).
RingIntact ==
    LET first(i) == unread[i].page IN
    /\ next = curr <=> unread = <<>>
    /\ unread # <<>> => first(1) = next
    /\ \A i \in DOMAIN unread :
         /\ \A k \in 0 .. unread[i].pages - 1 :
              LET page == mem[Wrap(first(i) + k)]
              IN  page.frame = unread[i].frame /\ page.part = k
         /\ mem[first(i)].next = IF i < Len(unread) THEN first(i + 1) ELSE curr
=============================================================================
