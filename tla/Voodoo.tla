------------------------------- MODULE Voodoo -------------------------------
(***************************************************************************)
(* The Voodoo as the guest sees it: the emulator thread queues commands    *)
(* and reads the frame buffer back, the FIFO thread executes commands, and *)
(* vertical retrace, a timer of the emulator thread, swaps the buffers.    *)
(* The emulator thread's timers run only while it is not inside a read or  *)
(* write of the card.  The render threads are those of VoodooRender: here  *)
(* the triangles they have yet to draw, each with the frame it is part of. *)
(* A frame is numbered by the swap command that ends it; frame f is drawn  *)
(* into, and shown from, buffer f % Buffers.                               *)
(*                                                                         *)
(* Left out: SLI, the command FIFO of the Voodoo 2, drawing into the front *)
(* buffer, and what the ring of CardFifo shows of its indices.             *)
(***************************************************************************)
EXTENDS Naturals, Sequences

CONSTANTS
    FullAt,     \* FIFO_SIZE - 4, the number of entries of FIFO_FULL
    WakeAbove,  \* 0xe000
    BufferCounts,   \* the buffers a mode may have: 2, or 3 for TRIPLE_BUFFER
    Careful,    \* the guest keeps the two rules of GuestMayQueue
    Writes      \* bound: commands the guest writes

ASSUME VoodooAssumption ==
    /\ FullAt \in Nat \ {0} /\ WakeAbove \in Nat /\ Writes \in Nat
    /\ BufferCounts \subseteq {2, 3} /\ Careful \in BOOLEAN

\* A triangle, a write to the frame buffer, and swapbufferCMD, at once or at
\* the next vertical retrace.
Commands == {"triangle", "fb", "swap", "vsync swap"}

VARIABLES
    buffers,            \* 3 when TRIPLE_BUFFER
    fifo,               \* the commands between the indices
    cpu, card,          \* where the emulator thread and the FIFO thread are
    hand,               \* the command the emulator thread waits to store
    count,              \* commands the guest has written
    busy, wake,         \* voodoo_busy, wake_fifo_thread is set
    wake_timer, flush,
    swap_pending,
    frame,              \* swaps begun: disp_buffer
    swap_offset, front, \* the frames to be shown and shown
    drawing             \* the frames of the triangles still to be drawn

swapVars == <<swap_pending, swap_offset, front>>
guestVars == <<cpu, hand, count, wake_timer, flush>>
cardVars == <<card, busy, frame>>
vars == <<buffers, fifo, wake, drawing, swapVars, guestVars, cardVars>>

Init ==
    /\ buffers \in BufferCounts
    /\ fifo = <<>> /\ drawing = <<>>
    /\ cpu = "run" /\ card = "wait" /\ hand = "triangle" /\ count = 0
    /\ busy = FALSE /\ wake = FALSE /\ wake_timer = FALSE /\ flush = FALSE
    /\ swap_pending = FALSE /\ frame = 0 /\ swap_offset = 0 /\ front = 0

FIFO_FULL == Len(fifo) >= FullAt

FIFO_EMPTY == fifo = <<>>

-----------------------------------------------------------------------------
(* The emulator thread.  A command wakes an idle thread after 100          *)
(* microseconds; other writes only when the FIFO is long.  The write and   *)
(* the look at voodoo_busy are one step: a FIFO thread that has seen an    *)
(* empty FIFO and is still busy is a step of its own.                      *)

Store(c) ==
    /\ fifo' = Append(fifo, c)
    /\ wake_timer' = \/ wake_timer
                     \/ Len(fifo') > WakeAbove
                     \/ c # "fb" /\ ~busy

\* Guests poll for room while a swap waits for retrace, and do not mix the
\* two kinds of swap with three buffers: an immediate one would be undone by
\* the retrace that an earlier one waits for.
GuestMayQueue(c) ==
    /\ FIFO_FULL => "vsync swap" \notin {fifo[i] : i \in DOMAIN fifo}
    /\ buffers = 3 => c # "swap"

Queue(c) ==
    /\ cpu = "run" /\ count < Writes
    /\ Careful => GuestMayQueue(c)
    /\ count' = count + 1
    /\ hand' = c
    /\ IF FIFO_FULL
       THEN cpu' = "full" /\ UNCHANGED <<fifo, wake_timer>>
       ELSE Store(c) /\ UNCHANGED cpu
    /\ UNCHANGED <<buffers, wake, drawing, flush, swapVars, cardVars>>

\* Mutant: the FIFO thread is not woken while there is no room.
QueueWaitsQuiet ==
    /\ cpu = "full" /\ ~FIFO_FULL
    /\ cpu' = "run" /\ Store(hand)
    /\ UNCHANGED <<buffers, wake, drawing, hand, count, flush, swapVars, cardVars>>

\* queue_command: a millisecond at a time until there is room.
QueueWaits ==
    /\ cpu = "full"
    /\ IF FIFO_FULL
       THEN wake' = TRUE /\ UNCHANGED <<cpu, fifo, wake_timer>>
       ELSE cpu' = "run" /\ Store(hand) /\ UNCHANGED wake
    /\ UNCHANGED <<buffers, drawing, hand, count, flush, swapVars, cardVars>>

\* Mutant: the read does not say that it waits.
ReadCardUnsaid ==
    /\ cpu = "run"
    /\ cpu' = "flush"
    /\ UNCHANGED <<buffers, fifo, wake, drawing, hand, count, wake_timer, flush,
                   swapVars, cardVars>>

\* A read of the frame buffer or of a register.
ReadCard ==
    /\ cpu = "run"
    /\ cpu' = "flush"
    /\ flush' = TRUE
    /\ UNCHANGED <<buffers, fifo, wake, drawing, hand, count, wake_timer,
                   swapVars, cardVars>>

\* Mutant: an idle FIFO thread is taken for an empty FIFO.
FlushFifoBusy ==
    /\ cpu = "flush"
    /\ IF ~busy
       THEN cpu' = "flush render" /\ UNCHANGED wake
       ELSE wake' = TRUE /\ UNCHANGED cpu
    /\ UNCHANGED <<buffers, fifo, drawing, hand, count, wake_timer, flush,
                   swapVars, cardVars>>

FlushFifo ==
    /\ cpu = "flush"
    /\ IF FIFO_EMPTY
       THEN cpu' = "flush render" /\ UNCHANGED wake
       ELSE wake' = TRUE /\ UNCHANGED cpu
    /\ UNCHANGED <<buffers, fifo, drawing, hand, count, wake_timer, flush,
                   swapVars, cardVars>>

FlushRender ==
    /\ cpu = "flush render" /\ drawing = <<>>
    /\ cpu' = "read"
    /\ flush' = FALSE
    /\ UNCHANGED <<buffers, fifo, wake, drawing, hand, count, wake_timer,
                   swapVars, cardVars>>

ReadValue ==
    /\ cpu = "read"
    /\ cpu' = "run"
    /\ UNCHANGED <<buffers, fifo, wake, drawing, hand, count, wake_timer, flush,
                   swapVars, cardVars>>

\* Mutant: the status register wakes a thread that is busy.
ReadStatusBusy ==
    /\ cpu = "run" /\ busy
    /\ wake_timer' = TRUE
    /\ UNCHANGED <<buffers, fifo, wake, drawing, cpu, hand, count, flush,
                   swapVars, cardVars>>

ReadStatus ==
    /\ cpu = "run" /\ ~busy
    /\ wake_timer' = TRUE
    /\ UNCHANGED <<buffers, fifo, wake, drawing, cpu, hand, count, flush,
                   swapVars, cardVars>>

WakeTimer ==
    /\ cpu = "run" /\ wake_timer
    /\ wake_timer' = FALSE
    /\ wake' = TRUE
    /\ UNCHANGED <<buffers, fifo, drawing, cpu, hand, count, flush, swapVars,
                   cardVars>>

\* voodoo_callback at the last line; retrace_count > swap_interval in the end.
Retrace ==
    /\ cpu = "run" /\ swap_pending
    /\ swap_pending' = FALSE
    /\ front' = swap_offset
    /\ wake' = TRUE
    /\ UNCHANGED <<buffers, fifo, drawing, swap_offset, guestVars, cardVars>>

CpuResumes == QueueWaits \/ FlushFifo \/ FlushRender \/ ReadValue

Timers == WakeTimer \/ Retrace

CpuNext ==
    \/ \E c \in Commands : Queue(c)
    \/ ReadCard \/ ReadStatus \/ CpuResumes \/ Timers

-----------------------------------------------------------------------------
(* fifo_thread.                                                            *)

At(s) == card' = s

CardWakes ==
    /\ card = "wait" /\ wake /\ At("test")
    /\ wake' = FALSE
    /\ busy' = TRUE
    /\ UNCHANGED <<buffers, fifo, drawing, frame, swapVars, guestVars>>

\* disp_buffer and draw_buffer advance as a swap begins.
CardTakes ==
    /\ card = "test" /\ ~FIFO_EMPTY
    /\ At(IF Head(fifo) = "triangle" THEN "triangle" ELSE "idle")
    /\ frame' = IF Head(fifo) \in {"swap", "vsync swap"} THEN frame + 1 ELSE frame
    /\ UNCHANGED <<buffers, fifo, wake, drawing, busy, swapVars, guestVars>>

CardTriangle ==
    /\ card = "triangle" /\ At("index")
    /\ drawing' = Append(drawing, frame + 1)
    /\ UNCHANGED <<buffers, fifo, wake, busy, frame, swapVars, guestVars>>

\* Mutant: the offset of the frame is not stored.
PendSwapOld == swap_pending' = TRUE /\ UNCHANGED <<swap_offset, front>>

PendSwap == swap_pending' = TRUE /\ swap_offset' = frame /\ UNCHANGED front

\* A write to the frame buffer, or a swap.
Execute ==
    \/ Head(fifo) = "fb" /\ At("index") /\ UNCHANGED swapVars
    \/ Head(fifo) = "swap" /\ At("index") /\ front' = frame
       /\ UNCHANGED <<swap_pending, swap_offset>>
    \/ Head(fifo) = "vsync swap" /\ buffers = 2 /\ At("swap") /\ PendSwap
    \/ Head(fifo) = "vsync swap" /\ buffers = 3 /\ swap_pending /\ At("swap")
       /\ UNCHANGED swapVars
    \/ Head(fifo) = "vsync swap" /\ buffers = 3 /\ ~swap_pending /\ At("index")
       /\ PendSwap

\* Mutant: a swap does not wait for the render threads.
CardIdleAtOnce ==
    /\ card = "idle" /\ Execute
    /\ UNCHANGED <<buffers, fifo, wake, drawing, busy, frame, guestVars>>

\* wait_for_render_thread_idle is over.
CardIdle ==
    /\ card = "idle" /\ drawing = <<>> /\ Execute
    /\ UNCHANGED <<buffers, fifo, wake, drawing, busy, frame, guestVars>>

-----------------------------------------------------------------------------
(* wait_for_swap_complete: the loop's test of swap_pending, and the wait.  *)
(* A retrace may come before the test, which then leaves the event set, or *)
(* between the two, and the wait resets it.                                *)

SwapTest ==
    /\ card = "swap" /\ swap_pending /\ At("swap wait")
    /\ UNCHANGED <<buffers, fifo, wake, drawing, busy, frame, swapVars, guestVars>>

\* The loop is over; with three buffers the swap it waited for is the last one.
SwapDone ==
    /\ card = "swap" /\ ~swap_pending /\ At("index")
    /\ IF buffers = 3 THEN PendSwap ELSE UNCHANGED swapVars
    /\ UNCHANGED <<buffers, fifo, wake, drawing, busy, frame, guestVars>>

\* FIFO_ENTRIES >= 65536, the other condition, is beyond what FIFO_FULL lets in.
\* After the break the test would find swap_pending clear as well: nobody else
\* sets it.
SwapWait ==
    /\ card = "swap wait" /\ wake /\ At("swap")
    /\ wake' = FALSE
    /\ IF swap_pending /\ flush
       THEN swap_pending' = FALSE /\ front' = frame /\ UNCHANGED swap_offset
       ELSE UNCHANGED swapVars
    /\ UNCHANGED <<buffers, fifo, drawing, busy, frame, guestVars>>
-----------------------------------------------------------------------------

CardIndex ==
    /\ card = "index" /\ At("test")
    /\ fifo' = Tail(fifo)
    /\ UNCHANGED <<buffers, wake, drawing, busy, frame, swapVars, guestVars>>

CardSleeps ==
    /\ \/ card = "test" /\ FIFO_EMPTY /\ At("free") /\ UNCHANGED busy
       \/ card = "free" /\ At("wait") /\ busy' = FALSE
    /\ UNCHANGED <<buffers, fifo, wake, drawing, frame, swapVars, guestVars>>

CardNext ==
    \/ CardWakes \/ CardTakes \/ CardTriangle \/ CardIdle \/ SwapTest
    \/ SwapDone \/ SwapWait \/ CardIndex \/ CardSleeps

\* The render threads finish a triangle (VoodooRender).
Render ==
    /\ drawing # <<>>
    /\ drawing' = Tail(drawing)
    /\ UNCHANGED <<buffers, fifo, wake, swapVars, guestVars, cardVars>>

Next == CpuNext \/ CardNext \/ Render

Spec == Init /\ [][Next]_vars

\* Threads are scheduled and time passes for the guest while its processor
\* runs; a guest that has commands in the FIFO polls the status register.
FairSpec ==
    /\ Spec
    /\ WF_vars(CpuResumes) /\ WF_vars(WakeTimer) /\ WF_vars(Retrace)
    /\ WF_vars(CardNext) /\ WF_vars(Render)
    /\ WF_vars(ReadStatus)

-----------------------------------------------------------------------------
VoodooTypeOK ==
    /\ buffers \in {2, 3}
    /\ fifo \in Seq(Commands) /\ Len(fifo) <= FullAt
    /\ cpu \in {"run", "full", "flush", "flush render", "read"}
    /\ card \in {"wait", "test", "triangle", "idle", "swap", "swap wait", "index",
                 "free"}
    /\ card \in {"triangle", "idle", "swap", "swap wait", "index"} => fifo # <<>>
    /\ hand \in Commands /\ count \in Nat
    /\ busy \in BOOLEAN /\ wake \in BOOLEAN /\ wake_timer \in BOOLEAN
    /\ flush \in BOOLEAN /\ swap_pending \in BOOLEAN
    /\ frame \in Nat /\ swap_offset \in Nat /\ front \in Nat
    /\ drawing \in Seq(Nat)

\* What the guest reads back shows every command it wrote before: none is in
\* the FIFO or half done, and no triangle is still being drawn.
ReadSeesAll ==
    cpu = "read" => fifo = <<>> /\ drawing = <<>> /\ card \in {"test", "free", "wait"}

\* The buffer shown is never one that triangles are still drawn into.
BuffersApart ==
    \A i \in DOMAIN drawing : drawing[i] % buffers # front % buffers

\* Frames are shown in the order they were drawn, by retrace and FIFO thread.
FramesInOrder == [][front' >= front]_vars

\* A read comes to an end, whatever the FIFO thread waits for: a swap that
\* waits for a retrace which cannot come is cut short.
ReadsReturn == cpu = "flush" ~> cpu = "run"

\* Every write comes to an end.
QueueNotStuck == cpu = "full" ~> cpu = "run"

\* Every command is executed in the end, for a guest that polls the status.
FifoDrains == []<>FIFO_EMPTY
=============================================================================
