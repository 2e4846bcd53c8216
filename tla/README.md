# VARCem in TLA+

TLA+ modules, model-checking configurations and machine-checked proofs for the core of
VARCem, the emulator in `src/src`: how it delivers interrupts, how it keeps time for its
devices, how its threads share the screen, how accelerated video cards hand their commands to
threads of their own, and how the network reaches a card.  Paths below are relative to `src/src`.

* [1 The system](#1-the-system): inventory, interactions, what is hard
* [2 The models](#2-the-models): module by module, against the code
* [3 The runs](#3-the-runs): what TLC checks, bounds, fairness
* [4 The proofs](#4-the-proofs): what TLAPS proves, and along which argument
* [5 What the checks found](#5-what-the-checks-found)
* [6 What is not modelled](#6-what-is-not-modelled)
* [7 Plan](#7-plan)

## 1 The system

VARCem emulates PCs, from the 8088 to the Pentium.  One thread, `pc_thread` (`pc.c`), runs the guest
in slices of 10 ms; inside a slice the CPU core interprets or recompiles guest instructions, calls
device handlers on port and memory cycles, and at the end of each of its own short slices brings the
timers of the devices up to date.  A second thread draws the picture (`blit_thread`,
`devices/video/video.c`), the first thread of the program is the user interface (`win/win_ui.c`), and
some devices have threads of their own: a FIFO thread for each accelerated video card, one or two
render threads more for the Voodoo and the ViRGE, a poll thread for the network, and threads for
sound and CD audio.

| Component | State it keeps | Operations | Correct when |
|---|---|---|---|
| Interrupt controllers `devices/system/pic.c` | per chip: requests, in-service, masks (guest's and its own), initialisation state, cached pending requests | ICW1-4, OCW1-3, `picint*`, `picintc`, `pic_interrupt`, auto EOI, reset | the cache is fresh; a level line is not lost; an input in service stays masked until its EOI; the CPU gets the highest input |
| PCI interrupts `devices/system/pci.c` | holders of each line, routing, MIRQ routing, ELCR | `pci_set_irq`, `pci_clear_irq`, MIRQs, routing, resets | a line is raised while and only while somebody holds it |
| CPU loop `cpu/386.c`, `386_dynarec.c`, `808x.c` | registers, cycles left | run, take interrupts, end a timer period | requests are answered, in order of priority |
| Timers `timer.c`, `timer.h` | table of (count, enable, callback), `latch`, `timer_count`, `timer_start` | `timer_process`, `timer_update_outstanding`, `timer_clock`, `timer_end_period`, `timer_add`, `timer_reset` | a timer rings when its time has run, once, in order |
| Display pipeline `devices/video/video.c` | `busy`, `inuse`, three events, renderer function | `video_blit_start`, `_wait`, `_wait_buffer`, `_done`, `video_setblit` | no frame is drawn into while it is copied; no renderer is replaced while it is used; nobody waits for ever |
| Emulator thread `pc.c` | pause, resize and quit flags, the blit mutex | slices, `ui_resize`, `pc_reset`, `pc_close` | slices are atomic for the other threads |
| User interface `win/win_ui.c`, `ui/*.c` | window state, renderer in use | menu commands, window messages, status bar | it always comes back to its message loop |
| Accelerated cards `devices/video/vid_et4000w32.c`, `vid_ati_mach64.c`, `vid_s3.c`, `vid_s3_virge.c`, `vid_tgui9440.c` | ring of commands, two indices, a busy flag, two events | queue, execute, wait for idle, status | commands are executed once and in order; a register read back shows the writes before it; no thread sleeps on work |
| Voodoo `devices/video/vid_voodoo.c` | the same, with a ring of triangles, a texture cache, up to three buffers and a pending swap | writes, reads, triangles, textures, swaps, retrace | the same, and frames are shown whole and in order, with the textures they were drawn with |
| Interval timers `devices/system/pit.c` | three counters, six modes | control words, counts, gates, latches | periods and outputs follow the mode |
| DMA `devices/system/dma.c` | eight channels | read, write, reset | counts and terminal count |
| Serial `devices/ports/serial.c` | registers, receive ring | read, write, receive | bytes in order; interrupt lines follow their causes |
| Keyboard and mouse `devices/input/*` | queues, controller status | commands, scan codes | every byte is delivered once, with its interrupt |
| Floppy `devices/floppy/*`, disks `devices/disk/*` | command phase, result bytes, sector buffer | commands, data, interrupts | phases follow each other |
| Clock and CMOS `nvr.c`, `nvr_at.c` | time, alarm, flags, RAM | read, write, tick, save | flags and interrupts agree |
| Network `devices/network/*` | provider, its handle and poll thread, the card that receives | attach, poll, receive, send, close | no handle is used after it is closed, no frame goes to a freed card, closing ends |
| Network cards `devices/network/net_ne2000.c` and others | receive ring (CURR, BNRY), interrupt status | receive, transmit, remote DMA, registers | frames are whole and in order, none overwrites another |
| Device registry, I/O and memory maps `device.c`, `io.c`, `mem.c` | lists of devices and handlers | add, remove, walk | a walk sees a consistent list |
| CPU cores, frame buffers, sound, SCSI, chip sets, machines, configuration, ROMs | large; mostly data paths | | |

How they interact: devices call the interrupt controllers (`picint`, `pci_set_irq`), the CPU loop
polls them (`pic_interrupt`); devices put their counts in the timer table and are called back from it;
video cards call the blit functions from their timers; the UI thread and the emulator thread exclude
each other with the blit mutex (`plat_startblit`); video cards hand commands to their threads through
rings without locks and wait for them when the guest reads back; the network's poll thread calls the
card's receive function, which writes the card's memory and raises its interrupt, while the guest
programs the card; a hard reset closes and attaches the network from the UI thread; and the emulator thread sends the UI thread
synchronous window messages (status bar icons, `MoveWindow`).

What is hard, and what the properties are for: caches of the interrupt state that a dozen writes must
refresh; lines shared by cards, in two trigger modes, across resets; EOI protocols of two chips with
nested handlers; time that is charged to timers in arrears, from three places, by code that runs
callbacks which set timers; and a hand-made protocol of flags and auto-reset events among three
threads, with a mutex, synchronous messages and renderers that can fail; rings that two or three
threads read and write with plain integers for indices and an event that may be left over from before;
waits of two threads for each other through a timer that only one of them drives; and threads
whose handles, events and card are taken away while they work.  The list, line by line, is
under `hazards` in `PROJECT.json`.

## 2 The models

### Pic: the two 8259s (`devices/system/pic.c`)

Registers are sets of inputs: `pic` and `pic2` are records with the fields of `PIC` (`pic.h`),
`pic_pending` and `pic_current` the variables of the same names, `elcr` the trigger modes that
`pci.c` keeps for it.  One action per command word (`Icw1` .. `Icw4`, `Ocw1`, `SpecificEoi`,
`NonSpecificEoi`, `Ocw3`), per call of a device (`PicInt`, `PicIntLevel`, `PicIntC`), `PicInterrupt` for
the CPU's poll and acknowledge with the automatic EOI inside it, and the two resets.  Each action
computes the whole handler, the `update_pending` at its end included.  Constants choose an AT (two chips) or
XT (one), PCI, the lines devices drive and the values the guest programs.  Abstracted: the read-back of
registers, the PIT gate that IRQ 0 pokes, and register bits nobody reads.  One thing is assumed of
software: it acknowledges interrupts only from chips it has initialised (`Initialised`, external).

### PciIrq: shared lines (`devices/system/pci.c`)

Extends Pic.  `pci_irq_hold` is the set of holders of each line, `pci_irqs` and `pci_mirqs` the
routing, and `raised` (not in the code) the pins cards hold active, for the properties to refer to.
`PciSetIrq`, `PciClearIrq`, `Mirq`, the routing writes, the reset register (`TrcReset`) and the hard
reset are actions.  `QuietGuest` restricts the guest to reprogramming routing and trigger mode only
when no card holds a line; without it three properties fail (hazards at `pci.c:297` and `pci.c:193`).
`UserResets` lets the user hard-reset the machine while lines are active too (section 5).

### Interrupts and PriorityInt: the whole path

`Interrupts` extends PciIrq with the CPU's interrupt flag and the guest's stack of handlers, taken as
every PC operating system writes them: service the device, EOI the slave first, EOI the master, return.
`PriorityInt` is what the pair of chips promises: one controller with fifteen inputs in a fixed order.
`ImplementsOneController` is the refinement.

### Timer and AlarmClock: the devices' timers (`timer.c`, `timer.h`)

Time is counted in ticks (64 to a CPU cycle).  `count`, `latch` and `timer_count` are those of the
code; `enable` is the set of timers whose flag is set; `spent` is `timer_start - cycles`, what has run
and not been taken off `timer_count`; `ran` is how long the CPU's slice has run (not in the code);
`calls` is the stack of calls of `timer_process` with the local array `enable[]` of each and what the
caller does after it.  `Execute` runs some instructions; `EndPeriod` is the macro `timer_end_period`;
`DeviceAccess` is a device bringing the timers up to date, with `timer_clock` (`Synced`) or with
`timer_process` alone; `Fire` is one round of the loop with its callback; `FireNested` is the start of
`fdc_callback`, which calls `timer_process` again; `Return` is the end of the loop, what the caller then
does to its timer, and `timer_update_outstanding`.  What a callback may do (`CallbackSets`) is the union
of what the callbacks in the tree do: `+=` a period, `=` a period, stop by zero or by flag, set another
timer.

`AlarmClock` is the abstract specification: alarms with the time left, which the guest's running takes
down; an alarm rings when its time is up, the earliest first, and no slice ends with one overdue by more
than the rounding.  A device that does not synchronise has its alarm counted from some earlier
moment of the slice, never more.  `RingsOnTime` is the refinement: `left` is `count` minus what is not
charged yet, `armed` the enabled timers and those of the current pass that are still to ring.

### Blitter: three threads and a screen (`video.c`, `pc.c`, `win_ui.c`, `win.c`)

`pc` says where the emulator thread ("cpu"), the UI thread and the blit thread are, one step per access
to shared state; `video_blit` has the flags and events of `struct blitter`; `mutex` is the blit mutex;
`sent` the synchronous message under way; `work` what is left of the current slice; `scan` whether lines
of this frame have been drawn; `op` the UI's critical section; `host` the flags of the window and the
renderer.  Events are Windows auto-reset events: setting one releases one waiter or stays set until a
wait consumes it (`Signal`, `BlitDoneEvent`).  Constants select the host: a window the emulator sizes,
status icons, renderers that fail to initialise, a lost Direct3D device, cards that blit blank frames
through a palette.

### CardFifo and Accelerator: the command ring of an accelerated card

Written from `vid_et4000w32.c`; Mach64, S3, ViRGE and TGUI have the same lines with other constants
(`vid_s3.c:949-1030`, `vid_ati_mach64.c:621-965`, `vid_s3_virge.c:1015-1386`,
`vid_tgui9440.c:1418-1497`).  `read_idx`, `write_idx`, `busy` and the events are the fields of the
driver; `cpu` and `card` say where the two threads are, one step per access to what they share, so
that every test may be stale when it is used.  A command is its number, a slot holds the number or
`FIFO_INVALID`, `engine` is the last command executed and `seen` what a register read back shows.
`Accelerator` is the abstract card: commands are written, executed in order, and a read back shows all of
them.  `ImplementsAccelerator` is the refinement.  Constants are the size, what the driver calls full, its
two thresholds, and whether the status register wakes an idle thread (`StatusWakes`, S3 and ViRGE).

### VoodooRender: one ring, two readers, a cache

`queue_triangle`, `use_texture`, `flush_texture_cache`, `wait_for_render_thread_idle` and
`render_thread` of `vid_voodoo.c`.  `write` and `read[r]` are the indices, `params` the ring (an entry
knows its triangle's number, its cache entry and, as a history, which contents of which texture the
guest meant); `refcount` and `refcount_r` count the uses of a cache entry, queued and drawn.  The
FIFO thread is `fifo`, with one step per access to the rings; the render threads' own waits, which
CardFifo has one by one, are single steps.

### Voodoo: the whole card

Composes the emulator thread (writes, reads, status, its timers), the FIFO thread with
`wait_for_swap_complete`, the render threads (abstracted to the triangles still to be drawn, each with its
frame) and vertical retrace.  A frame is numbered by the swap that ends it and drawn into buffer
`frame % buffers`; `front` is the frame shown.  `GuestMayQueue`, external, states two things of a careful
guest: it polls for room while a swap waits for retrace, and does not mix the two kinds of swap with
three buffers.  The ring is a sequence here, which CardFifo justifies.  `wait_for_swap_complete` is its
loop's test and its wait (`SwapTest`, `SwapWait`, `SwapDone`): a retrace before the test leaves the
event set, one after it does not.

### Network: sessions of a provider (`network.c`, `net_slirp.c`, `net_pcap.c`)

Session `s` is the `s`-th `network_attach`: its card, its handle of the library and its poll thread are
all called `s`, so that a stale one can be told from a fresh one.  `netdata`'s mutex, owner, `poll_busy`,
`poll_wake` and card, the provider's `handle`, `poll_tid` and `poll_state`, and where each thread is,
are the state.  The UI thread resets (`HostCloses` to `HostRuns` or `CreateEvents`), the poll thread
of each session loops, the emulator thread sends.  An event that is NULL is "none": setting it does
nothing and waiting for it ends at once, as `thread_set_event` and `thread_wait_event` do.

### Nic: the receive ring of an NE2000 (`net_ne2000.c`)

`nic_rx`, on the poll thread, against the guest's driver, on the emulator thread: `curr` and `bound` are
`curr_page` and `bound_ptr`; a page of `mem` holds a part of a frame; `rx` and `driver` are where the two
are; `unread` (not in the code) lists the frames between.  The driver follows the data sheet: it keeps BNRY
at the next frame or a page before it, stops the card before it sets it up, and waits for a reception that
has begun.

### MC modules

`MCPciIrq`, `MCInterrupts`, `MCTimer` and `MCBlitter` extend the modules with the values that
configurations refer to.

## 3 The runs

| Run | Checks | Bounds |
|---|---|---|
| `pci_shared` | `TypeOK`, `PendingIsFresh`, `InServiceMasked` of the two chips and `LineFollowsHolds`, `HeldLineWaits`, `HoldsAreWiredOr` of the shared line | two cards and a MIRQ on one line, edge or level, routed or not, and an ISA line; all or no masks; auto EOI or not; every order of initialisation; hard resets only while no line is recorded as active (`pic_current`) |
| `interrupts_handlers` | `ServiceMatchesHandlers`, `ImplementsOneController`, `RequestsAnswered`, `PinsServiced` | lines on both chips, before and after the PCI line that two cards share |
| `blit_safe` | `RendererNotShared`, `NoTornCopy`, `SliceNotCut` with a window the emulator sizes, status icons and renderers that fail | none: the state of the pipeline is finite |
| `blit_live` | `NoLostWakeup`, `UiServes`, `EmulatorProceeds`, `CloseCompletes` without icons, with a window the user sizes, a device that can be lost and blank frames | none |
| `timer_table` | `NeverVeryLate`, `RingsOnTime` | four timers, one of each kind; periods 2 and 5, slices up to 3, rounding 1 |
| `timer_live` | `CpuResumes` with nested calls | the same, slices up to 2 |
| `card_fifo` | `CardIsWoken`, `RoomIsSignalled`, `ImplementsAccelerator`, `CpuNotStuck` | a ring of 5, full at 4, thresholds at 2; 12 commands, so that the ring fills and goes round twice |
| `voodoo_render` | `ParamsAsQueued`, `TextureAsQueued`, `FramebufferQuiet`, `RendererIsWoken`, `FifoNotStuck` | two threads, a ring of 2, 3 commands (triangles or texture writes), two textures that compete for one cache entry |
| `voodoo_flush` | `ReadSeesAll`, `BuffersApart`, `FramesInOrder`, `ReadsReturn`, `QueueNotStuck`, `FifoDrains` | a FIFO of 3, 6 commands of four kinds in any order, two or three buffers |
| `voodoo_full` | `QueueNotStuck` without `GuestMayQueue`: violated (section 5) | the same, 5 commands |
| `network_session` | `LibraryOpen`, `FrameToLiveCard`, `CloseEnds`, `PollResumes` | three sessions, each SLiRP or Pcap, any of which may fail to attach |
| `nic_ring` | `RingIntact` | a ring of 4 pages, frames of 1 and 2 pages, numbers modulo 3; BNRY kept at or one before the next frame |

Type invariants are part of the proofs (section 4) rather than of the runs, except that of the chips.

Why the bounds are enough.  *Interrupts*: priority, cascade and sharing are relations of two inputs, on
one chip or across the two; every run has such pairs, and the chips' inputs differ in nothing else.
*Timers*: the periods straddle the slice (one shorter than it, one longer), so several timers fall due
in one slice, in both orders, and one falls due twice; what the length of slice, the number of timers
and the values of periods could still change is covered by the proofs, which have no bounds.
*Blitter*: nothing is bounded; one slice is the set of display operations that it performs once, and
more of the same repeat states.
*CardFifo*, *VoodooRender*: what matters of a ring is whether it is empty, below one threshold, above the
other, or full, and whether an index has gone round: all are met, at both ends, and the proofs have
no bounds for the first.  One cache entry for two textures makes every second triangle wait for it.
*Voodoo*: the FIFO fills behind a swap that waits, and three swaps use every buffer.
*Network*: three sessions show a close, an attach after it, and what a second close finds; the third
repeats the second.  *Nic*: two frames of two pages fill the ring but for the page that must stay free;
in four pages a frame of two wraps at every place a wrap can be.

Fairness.  *Interrupts*: weak fairness of the CPU's poll, which it does before every instruction with
interrupts enabled, and of the handlers' steps; none of devices.  Liveness is stated under the
assumption that earlier inputs stop asking, since a fixed-priority controller promises no more.
*Timer*: weak fairness of the loop of `timer_process` and its return: it is sequential code of a thread
that is not stopped in it.  *CardFifo*, *Network*: weak fairness of what a thread does once it has begun; none of new writes,
sends, frames or resets.  *VoodooRender*: the same, and one assumption on timing, `ShortPasses`:
`wait_for_render_thread_idle` wakes an idle thread once a millisecond, and the thread sets its busy flag for
a moment each time; without a word on how long the moment is, the wait could always meet it.  The formula
says that there are moments without such a pass and that the check meets one.  *Voodoo*: also of the two timers
while the guest's processor runs, and of reads of the status register, which every driver polls: it
alone gets the last command executed if it was stored as the FIFO thread fell asleep
(`vid_voodoo.c:6318`, `:6103`).  *Nic* has safety only.  *Blitter*: weak fairness of each thread's own steps (the host schedules
every thread that can run); strong fairness of what competes for the mutex and of dispatching sent
messages: Windows grants a mutex in the order it was asked for, and dispatches sent messages before
posted ones.

`blit_live` leaves `StatusIcons`, `FixedWindow` and `InitMayFail` off because each makes one of its
properties false (section 5).  `blit_safe` has all three on: the safety properties hold even
then.  `CHECK_DEADLOCK FALSE` stands in `blit_safe`, in which the pipeline really can stop, for the same
reasons.  `network_session` leaves
`StatusIcons` and `EarlyFrames` off for the like reasons.

No run checks an XT (`AT = FALSE`): its single chip is in the model and in the proofs of section 4, which
hold for both machines.

## 4 The proofs

| Module | Theorems |
|---|---|
| `Pic_proofs` | `PicInvariant`, `PicTypeCorrect`, `PicPendingIsFresh`, `PicInServiceMasked` |
| `Interrupts_proofs` | of `PciIrq`: `PciPicInvariant`, `PciHoldsAreWiredOr`, `PciLineFollowsHolds`, `PciHeldLineWaits`; of `Interrupts`: `IntInvariant`, `IntServiceMatchesHandlers`, `IntImplementsOneController` |
| `Blitter_proofs` | `BlitterInvariant`, `BlitterTypeCorrect`, `BlitterRendererNotShared`, `BlitterNoTornCopy`, `BlitterNoLostWakeup`, `BlitterSliceNotCut` |
| `CardFifo_proofs` | `FifoTypeCorrect`, `CardWoken`, `RoomSignalled`, `RingImplements` |
| `VoodooRender_proofs` | `RenderTypeCorrect`, `RenderParamsAsQueued`, `RenderFramebufferQuiet`, `RenderRendererIsWoken`, `RenderTextureAsQueued` |
| `Voodoo_proofs` | `VoodooTypeCorrect`, `VoodooReadSeesAll`, `VoodooBuffersApart`, `VoodooFramesInOrder` |
| `Network_proofs` | `NetworkLibraryOpen`, `NetworkFrameToLiveCard`, and of `Nic` `NicRingIntact` |
| `Timer_proofs` | `TimerInvariant`, `TimerTypeCorrect`, `TimerNeverVeryLate`, `TimerRingsOnTime` |

**Pic.**  `PicInv` is the type invariant, `InServiceMasked`, `PendingIsFresh`, and two facts they need:
a chip that is being initialised has nothing in service (`InitialisingIsIdle`: without it ICW4's
`update_pending` could expose an unmasked in-service input) and the cascade wiring does not change
(`CascadeWired`: the slave's requests reach the master at the input its EOI looks at).  One lemma per
command, with `UpdatePending` characterised once.  No assumption but `ConstantsAssumption`.

**PciIrq.**  For every set of cards, wiring of their pins, routing and ISA lines.  `PicInv` and the
types of routings and holds survive everything, the resets included (`PciPicInvariant`).
`HoldsAreWiredOr` is inductive with them, if the guest reprograms nothing while a pin is raised
(`QuietGuest = TRUE`). `LineInv` adds what `picintlevel` remembers, in both directions: a line in
`pic_current` that is no ISA line has a card that raises it (`CurrentHasCause`), and a held line is in
`pic_current` (`HeldIsCurrent`); it is about edge triggered lines too, since the ELCR may make them level
triggered later.  `WaitInv` adds that a held line is requested or in service, for which no command may
forget one: an EOI takes the line out of service and requests it again because it is still in
`pic_current`; an acknowledge moves it from requested to in service, and with automatic EOI back; and
`picintc` of another line of the slave withdraws the master's request at the slave's identity only, which
must not be a level line's: `SlaveIdentified`, the slave's ICW3 is 2, or 0 as long as it is not written.
The two theorems assume `UserResets = FALSE` and `LinesApart`: ISA devices and cards use different lines,
and nobody line 2, which an AT redirects to line 9.  An ISA device that lowers a line the cards hold
does lower it in the code.  The instance of `pci_shared` satisfies all these hypotheses.

**Interrupts.**  For every set of ISA lines and cards and every level line they share, any depth of
nesting, no hypothesis.  `IntInv` has three parts.  `ChipsInv`: `PicInv`, the settings the BIOS made,
and `CascadeFollows`, the master's input 2 is requested exactly while the slave has an unmasked request;
it is no part of `PicInv` because it does not hold before the master's ICW3 is written.  `Nested`: only
the innermost handler is past its last EOI, and each handler interrupted only handlers of later inputs of
the master; so what a non-specific EOI finds first in service is the innermost handler's own
(`TopIsFirst`), and at most one input of the slave is in service. The third equates what is in service at
each chip with what the handlers have yet to end there: `ServiceMatchesHandlers`.  From it
`IntImplementsOneController` maps every step: a line driven changes one request of the fifteen, an
acknowledge at one chip or at both takes the request that is first by the order 0, 1, 8 to 15, 3 to 7 and
is before all in service (`TakeIsFirst`), the last EOI ends the first in service, and all else stutters.

**Blitter.**  The invariant is a conjunction of five protocols, each proved inductive from those before it:
types, `MutexOwned` (who is in a slice or a section owns the mutex), `BusyProtocol` (between
`video_blit_start` and the end of the blit the flag `busy` is set, so a thread that found it clear
knows the blit thread idle), `BufferProtocol` and `WakeupProtocol`.  The theorems that fail in some
configurations assume it away in their statement: `RendererNotShared` no lost device, `NoTornCopy` no
blank palette frame, `NoLostWakeup` a window the user sizes.

**Timer.**  `TimerInv` relates the four places where time is kept: while the guest runs, the counter
covers every enabled timer (`LatchCovers`) and no count is negative (`CountsAhead`); while
`timer_process` runs, its snapshot has every timer that is due and none that was stopped
(`SnapshotFresh`), and what is not charged is only what the slice has run (`OneCall`).  From it,
`TimerRingsOnTime` maps each action to a step of the alarm clock: charging time (`ProcessStep`) changes
neither who is armed nor anybody's time left, which is the heart of it.  All are proved for
`Nested = {}`: with a nested call they do not hold (section 5).

**CardFifo.**  For every size, threshold and number of commands.  The two wake-up theorems are
inductive with the types alone.  `RingImplements` needs to know what is in the ring: every slot between
the indices holds the command of its index, but for the one slot the card has given back and not yet
marked, and a writer that passed the test has a slot for its own (`SlotsDiffer` on remainders keeps the
two apart).  It assumes `FullAt = Size - 1`: drivers that fill the last slot can lose a command
(section 5).

**VoodooRender.**  For rings and caches of every size, any textures, one or two threads.  `Queue` says where
the readers are and what the slots between a reader and the writer hold; `RendererIsWoken` is a part of
it and inductive as it stands.  `Cache` adds the meaning of the use counts: what a thread has not yet
counted are the triangles it has still to draw with the entry (`Counted`, by cardinalities), so an
entry whose counts agree belongs to none, and refilling it (`use_texture`) or writing its texture
(`voodoo_tex_writel`) changes nothing under a queued triangle.

**Voodoo.**  For FIFOs of every size, any number of frames.  `ReadSeesAll` needs only that the FIFO stays empty
once `voodoo_flush` has seen it so (`Flushed`), whatever the guest does.  The two properties of frames are read
off `SwapInv`: with `Asked` the frame the last swap command but the one in flight asked for, every triangle
still to be drawn belongs to the next one (`OneFrame`), and what is shown is `Asked`, one less while a retrace
is awaited, or the frame in flight when a read has cut the wait short (`Shown`).  `OneKind` is why the guest must
not mix the kinds of swap with three buffers; the theorems assume `Careful = TRUE`.

**Network.**  For any number of sessions, whatever fails to attach, with and without status icons.  `Session`
ties the phases of a reset to the one poll thread there can be: it exists from `CreateThread` to `CloseWaits`
and belongs to the last session (`OneThread`), its handle stays open until the reset has heard that it
ended, and `poll_state`, one event for "started" and "ended", cannot be heard as the wrong one
(`StateProtocol`).  `NetworkFrameToLiveCard` assumes `EarlyFrames = FALSE`: a frame that arrives before
`network_attach` has saved the card goes to the previous one (section 5).

**Nic.**  For rings of two pages and more, frames of any size.  Distances are counted round the ring: BNRY
is behind the driver, the driver behind CURR, less than a ring in all (`Room`), the frames between lie apart
(`Apart`) and hold what was received (`Intact`).  The heart of it is `RoomKeepsInv`: `nic_rx` compares CURR
and BNRY once and subtracts them later, and BNRY may move in between; the room it then finds is free, or
it finds none.

Only model-checked: liveness (`RequestsAnswered`, `PinsServiced`, `UiServes`, `EmulatorProceeds`,
`CloseCompletes`, `CpuResumes`, `CpuNotStuck`, `FifoNotStuck`, `ReadsReturn`, `QueueNotStuck`, `FifoDrains`,
`CloseEnds`, `PollResumes`): the prover has no means for fairness and `ENABLED`.  Every invariant and
every refinement the runs check is also a theorem, in the configurations the theorem names.

## 5 What the checks found

`voodoo_full` is a run and an entry under `findings`: a write to a full FIFO whose thread waits for a retrace never
returns, because the way out of that wait needs more entries than the FIFO lets in
(`vid_voodoo.c:132`, `:4357`).

The others are switched off in the runs by a constant, or excluded by a guard; turning it on shows them.
They are hazards with notes in `PROJECT.json`.

* `UserResets` in `pci_shared`: after a hard reset in an edge-mode PCI interrupt `pic_current` keeps the line,
  and the first level interrupt there is swallowed (`pci.c:440`, `pic.c:478`).
* `StatusIcons` in `blit_live`: an icon lit in a slice is a `SendMessage` to a UI thread that may be
  waiting for that slice's mutex; both stop (`win_ui.c:1268`, `win.c:600`).  In `network_session`: the same
  between a reset that waits for the poll thread and the icon that thread lights (`net_slirp.c:281`).
* `FixedWindow` in `blit_live`: `ui_resize` waits for the blitter outside the mutex; it and the UI thread
  share an auto-reset event and one of them is never woken (`win_ui.c:963`).
* `InitMayFail` in `blit_live`: a renderer that does not initialise leaves the buffer in use and the emulator
  waiting in its next frame, with the mutex held (`ui_main.c:434`, `video.c:453`).
* `Nested` in `timer_table`, and devices that call `timer_process` in the middle of a slice: timers are
  charged the wrong time (`fdc.c:1021`, `:1698`; `timer.c:72`).
* `FullAt = Size` in `card_fifo`, as S3 and ViRGE have it: the card marks a slot `FIFO_INVALID` after it has
  given it back, and a command stored in between is lost (`vid_s3.c:112`).
* `EarlyFrames` in `network_session`: the poll thread runs before `network_attach` has stored the new card;
  a frame that is there by then goes to the card of the last session, which is freed
  (`network.c:261-273`).
* In `Nic`, without a switch: a write to ISR is a load and a store of bit fields that `nic_rx` sets from
  another thread, so a frame's `pkt_rx` can be lost and its interrupt lowered
  (`net_ne2000.c:910`, `:931`); no property states that frames are announced.
* In `Network`, without a switch: the poll thread and the emulator thread may be in the library at the same
  time (`net_slirp.c:311`), and a poll thread that has waited through a close calls it with NULL
  (`net_slirp.c:134`); whether the library minds is not in this repository.

## 6 What is not modelled

Listed per component in `PROJECT.json`.  Out of reach: instruction semantics, recompiler and FPU; video and sound
data paths; file formats.  Vendored: zlib, munt, reSID, LZF, contrib.  Left for later: section 7.
Inside the modelled parts: PCI configuration cycles; `pc_reset` and the hard reset as seen by the
pipeline; callbacks that stop the timer of another device; timers set without
`timer_update_outstanding`; renderers other than by what they do to the pipeline; SLI, the second TMU, the
command FIFO of the Voodoo 2 and its `swap_count`; the render thread of the ViRGE, whose wake-up differs
(`vid_s3_virge.c:3386`); interrupts of S3 and ViRGE; the UDP provider; remote DMA, transmission and the
address filter of the network cards.  `Network` and `Nic` are checked apart: together they exceed
what TLC can explore in minutes, and all that passes between them is the call of `nic_rx`.

## 7 Plan

Done: `Pic`, `PciIrq`, `Interrupts` (composes them) with `PriorityInt`; `Blitter`; `Timer` with `AlarmClock`;
`CardFifo` with `Accelerator`; `VoodooRender`, `Voodoo`; `Network`; `Nic`.

Next, most important first:

1. `Dma`: channel counters with their wrap, terminal count and auto-initialisation.
2. `Pit`: the six modes, composed with `Timer` through its one timer per channel.
3. `Serial`: receive ring, interrupt causes, OUT2, composed with `Pic`. Abstract specification: a FIFO.
4. `KeyboardAt`: queues, command state, delayed interrupts.
5. `Fdc`: phases and its uses of the timer table; a run with callbacks that stop other timers.
6. `NvrAt`: flags and alarms. `Io`: handler lists changed while walked. `Ide`: BSY, DRQ, interrupt.
