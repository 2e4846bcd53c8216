------------------------------ MODULE CardFifo ------------------------------
(***************************************************************************)
(* The command FIFO between the emulator thread and the thread of an       *)
(* accelerated video card, as the ET4000/W32, Mach64, S3, ViRGE and TGUI   *)
(* drivers have it: a ring with a read and a write index that one thread   *)
(* each advances, a flag, and two auto-reset events.  One step per access  *)
(* to what the threads share.  Entry i is the command number i + 1: a      *)
(* slot holds the number of the command in it, or FIFO_INVALID.  Drivers   *)
(* differ in how many entries they call full (FullAt) and in whether the   *)
(* status register wakes an idle thread (StatusWakes).                     *)
(*                                                                         *)
(* Left out: what commands draw, the interrupts of S3 and ViRGE, and       *)
(* closing, which kills the thread.  The indices are 32 bit integers that  *)
(* wrap at a multiple of the size: here they count on.                     *)
(***************************************************************************)
EXTENDS Integers

CONSTANTS
    Size,       \* FIFO_SIZE
    FullAt,     \* the number of entries of FIFO_FULL
    Threshold,  \* 0xe000: with more entries both sides use their events
    WakeBelow,  \* 8: with fewer entries a write wakes the thread
    StatusWakes,
    Writes      \* the bound on what the guest writes

ASSUME FifoAssumption ==
    /\ Size \in Nat /\ Threshold \in Nat /\ WakeBelow \in Nat /\ Writes \in Nat
    /\ FullAt \in {Size - 1, Size}
    /\ Threshold + 1 < FullAt
    /\ WakeBelow > 1
    /\ StatusWakes \in BOOLEAN

VARIABLES
    fifo,       \* the ring: command numbers or FIFO_INVALID
    read_idx, write_idx,
    busy,       \* blitter_busy
    not_full,   \* fifo_not_full_event is set
    wake,       \* wake_fifo_thread is set
    cpu, card,  \* where the emulator thread and the FIFO thread are
    engine,     \* the last command the card has executed
    seen        \* the last command a register that was read back shows

cpuVars == <<write_idx, cpu, seen>>
cardVars == <<read_idx, busy, card, engine>>
vars == <<fifo, not_full, wake, cpuVars, cardVars>>

FIFO_INVALID == 0

Slot(i) == i % Size

FIFO_ENTRIES == write_idx - read_idx
FIFO_FULL == FIFO_ENTRIES >= FullAt
FIFO_EMPTY == read_idx = write_idx

CpuStates == {"run", "full", "again", "room", "store", "index", "entries",
              "wake", "idle", "poke", "nap"}
CardStates == {"ready", "wait", "reset", "busy", "test", "execute", "index",
               "invalid", "entries", "signal", "free"}

Init ==
    /\ fifo = [s \in 0 .. Size - 1 |-> FIFO_INVALID]
    /\ read_idx = 0 /\ write_idx = 0
    /\ busy = FALSE /\ not_full = FALSE /\ wake = FALSE
    /\ cpu = "run" /\ card = "ready"
    /\ engine = 0 /\ seen = 0

-----------------------------------------------------------------------------
(* The emulator thread.  et4000w32p_queue: the slot is chosen first, the   *)
(* wait for room is done once and not in a loop.                           *)

Goto(s) == cpu' = s

\* Mutant: a command is stored whether there is room or not.
QueueNoCheck ==
    /\ cpu = "run" /\ write_idx < Writes
    /\ Goto("store")
    /\ UNCHANGED <<fifo, not_full, wake, write_idx, seen, cardVars>>

Queue ==
    /\ cpu = "run" /\ write_idx < Writes
    /\ Goto(IF FIFO_FULL THEN "full" ELSE "store")
    /\ UNCHANGED <<fifo, not_full, wake, write_idx, seen, cardVars>>

QueueReset ==
    /\ cpu = "full"
    /\ Goto("again")
    /\ not_full' = FALSE
    /\ UNCHANGED <<fifo, wake, write_idx, seen, cardVars>>

QueueCheckAgain ==
    /\ cpu = "again"
    /\ Goto(IF FIFO_FULL THEN "room" ELSE "store")
    /\ UNCHANGED <<fifo, not_full, wake, write_idx, seen, cardVars>>

\* thread_wait_event consumes the event; what made it set may be long past.
QueueRoom ==
    /\ cpu = "room" /\ not_full
    /\ Goto("store")
    /\ not_full' = FALSE
    /\ UNCHANGED <<fifo, wake, write_idx, seen, cardVars>>

QueueStore ==
    /\ cpu = "store"
    /\ Goto("index")
    /\ fifo' = [fifo EXCEPT ![Slot(write_idx)] = write_idx + 1]
    /\ UNCHANGED <<not_full, wake, write_idx, seen, cardVars>>

QueueIndex ==
    /\ cpu = "index"
    /\ Goto("entries")
    /\ write_idx' = write_idx + 1
    /\ UNCHANGED <<fifo, not_full, wake, seen, cardVars>>

\* Mutant: only a ring that is nearly full wakes the thread.
QueueEntriesNearlyFull ==
    /\ cpu = "entries"
    /\ Goto(IF FIFO_ENTRIES > Threshold THEN "wake" ELSE "run")
    /\ UNCHANGED <<fifo, not_full, wake, write_idx, seen, cardVars>>

QueueEntries ==
    /\ cpu = "entries"
    /\ Goto(IF FIFO_ENTRIES > Threshold \/ FIFO_ENTRIES < WakeBelow
            THEN "wake" ELSE "run")
    /\ UNCHANGED <<fifo, not_full, wake, write_idx, seen, cardVars>>

WakeFifoThread ==
    /\ cpu \in {"wake", "poke"}
    /\ Goto(IF cpu = "wake" THEN "run" ELSE "nap")
    /\ wake' = TRUE
    /\ UNCHANGED <<fifo, not_full, write_idx, seen, cardVars>>

(* A register is read back: et4000w32p_wait_fifo_idle, then the register.  *)

ReadRegister ==
    /\ cpu = "run"
    /\ Goto("idle")
    /\ UNCHANGED <<fifo, not_full, wake, write_idx, seen, cardVars>>

WaitFifoIdle ==
    /\ cpu = "idle"
    /\ IF FIFO_EMPTY
       THEN Goto("run") /\ seen' = engine
       ELSE Goto("poke") /\ UNCHANGED seen
    /\ UNCHANGED <<fifo, not_full, wake, write_idx, cardVars>>

\* thread_wait_event(fifo_not_full_event, 1): the event, or a millisecond.
WaitFifoNap ==
    /\ cpu = "nap"
    /\ Goto("idle")
    /\ not_full' = FALSE
    /\ UNCHANGED <<fifo, wake, write_idx, seen, cardVars>>

\* The status register of the S3 and ViRGE; others only look.
ReadStatus ==
    /\ StatusWakes
    /\ cpu = "run" /\ ~busy
    /\ Goto("wake")
    /\ UNCHANGED <<fifo, not_full, wake, write_idx, seen, cardVars>>

CpuResumes ==
    \/ QueueReset \/ QueueCheckAgain \/ QueueRoom \/ QueueStore \/ QueueIndex
    \/ QueueEntries \/ WakeFifoThread \/ WaitFifoIdle \/ WaitFifoNap

CpuNext == Queue \/ ReadRegister \/ ReadStatus \/ CpuResumes

-----------------------------------------------------------------------------
(* fifo_thread.                                                            *)

At(s) == card' = s

CardReady ==
    /\ card = "ready"
    /\ At("wait")
    /\ not_full' = TRUE
    /\ UNCHANGED <<fifo, wake, read_idx, busy, engine, cpuVars>>

CardWait ==
    /\ card = "wait" /\ wake
    /\ At("reset")
    /\ wake' = FALSE
    /\ UNCHANGED <<fifo, not_full, read_idx, busy, engine, cpuVars>>

CardReset ==
    /\ card = "reset"
    /\ At("busy")
    /\ wake' = FALSE
    /\ UNCHANGED <<fifo, not_full, read_idx, busy, engine, cpuVars>>

CardBusy ==
    /\ card = "busy"
    /\ At("test")
    /\ busy' = TRUE
    /\ UNCHANGED <<fifo, not_full, wake, read_idx, engine, cpuVars>>

\* Mutant: the last entry is left in the ring.
CardTestOffByOne ==
    /\ card = "test"
    /\ At(IF FIFO_ENTRIES <= 1 THEN "free" ELSE "execute")
    /\ UNCHANGED <<fifo, not_full, wake, read_idx, busy, engine, cpuVars>>

CardTest ==
    /\ card = "test"
    /\ At(IF FIFO_EMPTY THEN "free" ELSE "execute")
    /\ UNCHANGED <<fifo, not_full, wake, read_idx, busy, engine, cpuVars>>

\* An entry that is FIFO_INVALID is none of the cases of the switch.
CardExecute ==
    /\ card = "execute"
    /\ At("index")
    /\ engine' = IF fifo[Slot(read_idx)] = FIFO_INVALID
                 THEN engine ELSE fifo[Slot(read_idx)]
    /\ UNCHANGED <<fifo, not_full, wake, read_idx, busy, cpuVars>>

CardIndex ==
    /\ card = "index"
    /\ At("invalid")
    /\ read_idx' = read_idx + 1
    /\ UNCHANGED <<fifo, not_full, wake, busy, engine, cpuVars>>

\* The slot is marked after it has been given back.
CardInvalid ==
    /\ card = "invalid"
    /\ At("entries")
    /\ fifo' = [fifo EXCEPT ![Slot(read_idx - 1)] = FIFO_INVALID]
    /\ UNCHANGED <<not_full, wake, read_idx, busy, engine, cpuVars>>

\* Mutant: the event is set only while the ring is still full.
CardEntriesFull ==
    /\ card = "entries"
    /\ At(IF FIFO_FULL THEN "signal" ELSE "test")
    /\ UNCHANGED <<fifo, not_full, wake, read_idx, busy, engine, cpuVars>>

CardEntries ==
    /\ card = "entries"
    /\ At(IF FIFO_ENTRIES > Threshold THEN "signal" ELSE "test")
    /\ UNCHANGED <<fifo, not_full, wake, read_idx, busy, engine, cpuVars>>

CardSignal ==
    /\ card = "signal"
    /\ At("test")
    /\ not_full' = TRUE
    /\ UNCHANGED <<fifo, wake, read_idx, busy, engine, cpuVars>>

CardFree ==
    /\ card = "free"
    /\ At("ready")
    /\ busy' = FALSE
    /\ UNCHANGED <<fifo, not_full, wake, read_idx, engine, cpuVars>>

CardNext ==
    \/ CardReady \/ CardWait \/ CardReset \/ CardBusy \/ CardTest
    \/ CardExecute \/ CardIndex \/ CardInvalid \/ CardEntries \/ CardSignal
    \/ CardFree

Next == CpuNext \/ CardNext

Spec == Init /\ [][Next]_vars

\* The host schedules both threads; the guest need not do anything.
FairSpec == Spec /\ WF_vars(CpuResumes) /\ WF_vars(CardNext)

-----------------------------------------------------------------------------
FifoTypeOK ==
    /\ fifo \in [0 .. Size - 1 -> 0 .. Writes]
    /\ write_idx \in 0 .. Writes /\ read_idx \in 0 .. write_idx
    /\ engine \in 0 .. Writes /\ seen \in 0 .. Writes
    /\ busy \in BOOLEAN /\ not_full \in BOOLEAN /\ wake \in BOOLEAN
    /\ cpu \in CpuStates /\ card \in CardStates

Ideal == INSTANCE Accelerator WITH written <- write_idx

\* Commands are executed in the order they were written, none is lost,
\* repeated or overwritten, and a register that is read back shows every
\* write before it: in the ring, whose full mark, stale events and late
\* FIFO_INVALID the two threads race through.
ImplementsAccelerator == Ideal!AccSpec

\* The FIFO thread is not left asleep with commands to execute: the event it
\* waits for is set, or the emulator thread is about to set it.
CardIsWoken ==
    (card \in {"free", "ready", "wait"} /\ ~FIFO_EMPTY)
        => wake \/ cpu \in {"entries", "wake"}

\* The emulator thread is not left waiting for room without a FIFO thread
\* that will signal it.
RoomIsSignalled ==
    cpu = "room" => \/ not_full
                    \/ FIFO_ENTRIES > Threshold + 1
                    \/ card \in {"invalid", "entries", "signal", "free", "ready"}

\* Every write and every read of a register comes to an end.
CpuNotStuck == cpu # "run" ~> cpu = "run"
=============================================================================
