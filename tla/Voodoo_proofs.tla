---------------------------- MODULE Voodoo_proofs ----------------------------
(***************************************************************************)
(* Proofs about Voodoo, for FIFOs of every size and any number of frames.  *)
(***************************************************************************)
EXTENDS Voodoo, SequenceTheorems, TLAPS

USE VoodooAssumption DEF VoodooAssumption

\* Nothing is left in the FIFO while the emulator thread reads.
Flushed ==
    /\ cpu \in {"flush render", "read"} => fifo = <<>>
    /\ cpu = "read" => drawing = <<>>

Swaps == {"swap", "vsync swap"}

\* The FIFO thread is in wait_for_swap_complete.
Swapping == {"swap", "swap wait"}

\* disp_buffer has advanced for the swap command at the head of the FIFO.
InFlight == card \in {"idle"} \cup Swapping /\ Head(fifo) \in Swaps

\* The last frame that was to be shown before the command in flight.
Asked == IF InFlight /\ (card = "idle" \/ buffers = 3) THEN frame - 1 ELSE frame

\* With three buffers there is no swap but at a retrace.
OneKind ==
    buffers = 3 => /\ \A i \in 1 .. Len(fifo) : fifo[i] # "swap"
                   /\ cpu = "full" => hand # "swap"

\* All triangles still to be drawn are of the frame that comes next.
OneFrame ==
    /\ \A i \in 1 .. Len(drawing) :
         drawing[i] = IF InFlight THEN frame ELSE frame + 1
    /\ card \in Swapping => Head(fifo) = "vsync swap" /\ drawing = <<>>

\* What is shown is what was asked for last, or one before while a retrace is
\* waited for; a read that cuts the wait short shows the frame in flight.
Shown ==
    /\ swap_pending => swap_offset = Asked /\ front \in {Asked - 1, Asked}
    /\ ~swap_pending => front = Asked \/ (card \in Swapping /\ front = frame)
    /\ buffers = 2 /\ swap_pending => card \in Swapping

SwapInv == VoodooTypeOK /\ OneKind /\ OneFrame /\ Shown

(* Sequences.                                                              *)

LEMMA AppendKeeps ==
    ASSUME NEW S, NEW s \in Seq(S), NEW c \in S
    PROVE  /\ Append(s, c) \in Seq(S) /\ Append(s, c) # <<>>
           /\ Len(Append(s, c)) = Len(s) + 1
           /\ \A i \in 1 .. Len(s) : Append(s, c)[i] = s[i]
           /\ Append(s, c)[Len(s) + 1] = c
           /\ s # <<>> => Head(Append(s, c)) = Head(s)
<1>1. Len(s) \in Nat  OBVIOUS
<1> QED BY <1>1, AppendProperties

LEMMA HeadIn ==
    ASSUME NEW S, NEW s \in Seq(S), s # <<>>
    PROVE  Head(s) \in S /\ 1 \in 1 .. Len(s) /\ Head(s) = s[1]
OBVIOUS

(* Types and the flush.                                                    *)

LEMMA StoreKeeps ==
    ASSUME VoodooTypeOK, ~FIFO_FULL, NEW c \in Commands, Store(c)
    PROVE  /\ fifo' \in Seq(Commands) /\ Len(fifo') <= FullAt /\ fifo' # <<>>
           /\ wake_timer' \in BOOLEAN
           /\ fifo # <<>> => Head(fifo') = Head(fifo)
           /\ Len(fifo') = Len(fifo) + 1 /\ fifo'[Len(fifo) + 1] = c
           /\ \A i \in 1 .. Len(fifo) : fifo'[i] = fifo[i]
<1>1. fifo \in Seq(Commands) /\ fifo' = Append(fifo, c)  BY DEF VoodooTypeOK, Store
<1>2. wake_timer' \in BOOLEAN  BY Zenon DEF VoodooTypeOK, Store
<1>3. Len(fifo) \in Nat /\ Len(fifo) < FullAt  BY <1>1 DEF FIFO_FULL
<1> QED BY <1>1, <1>2, <1>3, AppendKeeps

LEMMA TypeInit == Init => VoodooTypeOK
<1> SUFFICES ASSUME Init PROVE VoodooTypeOK
  OBVIOUS
<1>1. buffers \in {2, 3}  BY DEF Init
<1>2. fifo \in Seq(Commands) /\ Len(fifo) <= FullAt /\ drawing \in Seq(Nat)
  BY DEF Init
<1> QED BY <1>1, <1>2 DEF Init, VoodooTypeOK, Commands

LEMMA CpuKeepsType == ASSUME VoodooTypeOK, CpuNext PROVE VoodooTypeOK'
<1> USE DEF swapVars, guestVars, cardVars
<1>1. ASSUME NEW c \in Commands, Queue(c) PROVE VoodooTypeOK'
  <2>0. /\ UNCHANGED <<buffers, wake, drawing, flush, swap_pending, swap_offset>>
        /\ UNCHANGED <<front, card, busy, frame>>
        /\ cpu' \in {"run", "full"} /\ hand' \in Commands /\ count' \in Nat
    <3>1. UNCHANGED <<buffers, wake, drawing, flush, swapVars, cardVars>>
      BY <1>1 DEF Queue
    <3>2. cpu' \in {"run", "full"} /\ hand' = c /\ count' = count + 1
      BY <1>1 DEF Queue
    <3>3. count \in Nat  BY DEF VoodooTypeOK
    <3> QED BY <3>1, <3>2, <3>3
  <2>1. CASE FIFO_FULL
    <3>1. UNCHANGED <<fifo, wake_timer>>  BY <1>1, <2>1 DEF Queue
    <3> QED BY <2>0, <3>1 DEF VoodooTypeOK
  <2>2. CASE ~FIFO_FULL
    <3>1. Store(c)  BY <1>1, <2>2 DEF Queue
    <3>2. fifo' \in Seq(Commands) /\ Len(fifo') <= FullAt /\ fifo' # <<>>
          /\ wake_timer' \in BOOLEAN
      BY <2>2, <3>1, StoreKeeps
    <3> QED BY <2>0, <3>2 DEF VoodooTypeOK
  <2> QED BY <2>1, <2>2
<1>2. CASE QueueWaits
  <2>1. CASE FIFO_FULL  BY <1>2, <2>1 DEF QueueWaits, VoodooTypeOK
  <2>2. CASE ~FIFO_FULL
    <3>1. Store(hand) /\ hand \in Commands
      BY <1>2, <2>2 DEF QueueWaits, VoodooTypeOK
    <3>2. fifo' \in Seq(Commands) /\ Len(fifo') <= FullAt /\ fifo' # <<>>
          /\ wake_timer' \in BOOLEAN
      BY <2>2, <3>1, StoreKeeps
    <3> QED BY <1>2, <2>2, <3>2 DEF QueueWaits, VoodooTypeOK
  <2> QED BY <2>1, <2>2
<1>3. CASE ReadCard     BY <1>3 DEF ReadCard, VoodooTypeOK
<1>4. CASE ReadStatus   BY <1>4 DEF ReadStatus, VoodooTypeOK
<1>5. CASE FlushFifo    BY <1>5 DEF FlushFifo, VoodooTypeOK
<1>6. CASE FlushRender  BY <1>6 DEF FlushRender, VoodooTypeOK
<1>7. CASE ReadValue    BY <1>7 DEF ReadValue, VoodooTypeOK
<1>8. CASE WakeTimer    BY <1>8 DEF WakeTimer, VoodooTypeOK
<1>9. CASE Retrace      BY <1>9 DEF Retrace, VoodooTypeOK
<1> QED BY <1>1, <1>2, <1>3, <1>4, <1>5, <1>6, <1>7, <1>8, <1>9
        DEF CpuNext, CpuResumes, Timers

LEMMA CardKeepsType == ASSUME VoodooTypeOK, CardNext \/ Render PROVE VoodooTypeOK'
<1> USE DEF At, swapVars, guestVars, cardVars
<1>1. CASE CardWakes    BY <1>1 DEF CardWakes, VoodooTypeOK
<1>2. CASE CardTakes
  <2>1. frame \in Nat  BY DEF VoodooTypeOK
  <2>2. frame' = frame \/ frame' = frame + 1  BY <1>2 DEF CardTakes
  <2>3. frame' \in Nat  BY <2>1, <2>2
  <2> QED BY <1>2, <2>3 DEF CardTakes, FIFO_EMPTY, VoodooTypeOK
<1>3. CASE CardTriangle
  <2>0. drawing \in Seq(Nat) /\ frame \in Nat  BY DEF VoodooTypeOK
  <2>1. frame + 1 \in Nat  BY <2>0
  <2>2. drawing' \in Seq(Nat)  BY <1>3, <2>0, <2>1, AppendKeeps DEF CardTriangle
  <2> QED BY <1>3, <2>2 DEF CardTriangle, VoodooTypeOK
<1>4. CASE CardIdle
  <2>1. frame \in Nat /\ front \in Nat /\ swap_offset \in Nat
        /\ swap_pending \in BOOLEAN /\ fifo # <<>>
    BY <1>4 DEF CardIdle, VoodooTypeOK
  <2>2. card' \in {"swap", "index"} /\ front' \in {front, frame}
        /\ swap_offset' \in {swap_offset, frame}
        /\ (swap_pending' = swap_pending \/ swap_pending' = TRUE)
    BY <1>4 DEF CardIdle, Execute, PendSwap
  <2>3. front' \in Nat /\ swap_offset' \in Nat /\ swap_pending' \in BOOLEAN
    BY <2>1, <2>2
  <2>4. UNCHANGED <<buffers, fifo, wake, drawing, busy, frame, guestVars>>
    BY <1>4 DEF CardIdle
  <2> QED BY <2>1, <2>2, <2>3, <2>4 DEF VoodooTypeOK
<1>5. CASE SwapDone     BY <1>5 DEF SwapDone, PendSwap, VoodooTypeOK
<1>6. CASE SwapTest     BY <1>6 DEF SwapTest, VoodooTypeOK
<1>10. CASE SwapWait    BY <1>10 DEF SwapWait, VoodooTypeOK
<1>7. CASE CardIndex
  <2>1. fifo \in Seq(Commands) /\ fifo # <<>>
    BY <1>7 DEF CardIndex, VoodooTypeOK
  <2>2. fifo' \in Seq(Commands) /\ Len(fifo') = Len(fifo) - 1
    BY <1>7, <2>1, HeadTailProperties DEF CardIndex
  <2>3. Len(fifo') <= FullAt
    <3>1. Len(fifo) <= FullAt  BY DEF VoodooTypeOK
    <3>2. Len(fifo) \in Nat  BY <2>1
    <3> QED BY <2>2, <3>1, <3>2
  <2> QED BY <1>7, <2>2, <2>3 DEF CardIndex, VoodooTypeOK
<1>8. CASE CardSleeps   BY <1>8 DEF CardSleeps, VoodooTypeOK
<1>9. CASE Render
  <2>1. drawing' \in Seq(Nat)
    BY <1>9, HeadTailProperties DEF Render, VoodooTypeOK
  <2> QED BY <1>9, <2>1 DEF Render, VoodooTypeOK
<1> QED BY <1>1, <1>2, <1>3, <1>4, <1>5, <1>6, <1>7, <1>8, <1>9, <1>10 DEF CardNext

LEMMA TypeStep == VoodooTypeOK /\ [Next]_vars => VoodooTypeOK'
<1> SUFFICES ASSUME VoodooTypeOK, [Next]_vars PROVE VoodooTypeOK'
  OBVIOUS
<1>1. CASE UNCHANGED vars
  BY <1>1 DEF vars, swapVars, guestVars, cardVars, VoodooTypeOK
<1> QED BY <1>1, CpuKeepsType, CardKeepsType DEF Next

\* The FIFO never holds more than FIFO_FULL lets in, and the FIFO thread is in
\* the middle of a command only while that command is in the FIFO.
THEOREM VoodooTypeCorrect == Spec => []VoodooTypeOK
<1> QED BY TypeInit, TypeStep, PTL DEF Spec

LEMMA FlushedStep == VoodooTypeOK /\ Flushed /\ [Next]_vars => Flushed'
<1> SUFFICES ASSUME VoodooTypeOK, Flushed, [Next]_vars PROVE Flushed'
  OBVIOUS
<1> USE DEF Flushed, swapVars, guestVars, cardVars, At
<1>1. ASSUME NEW c \in Commands, Queue(c) PROVE Flushed'  BY <1>1 DEF Queue
<1>2. CASE QueueWaits   BY <1>2 DEF QueueWaits
<1>3. CASE ReadCard     BY <1>3 DEF ReadCard
<1>4. CASE ReadStatus   BY <1>4 DEF ReadStatus
<1>5. CASE FlushFifo    BY <1>5 DEF FlushFifo, FIFO_EMPTY
<1>6. CASE FlushRender  BY <1>6 DEF FlushRender
<1>7. CASE ReadValue    BY <1>7 DEF ReadValue
<1>8. CASE WakeTimer    BY <1>8 DEF WakeTimer
<1>9. CASE Retrace      BY <1>9 DEF Retrace
<1>10. CASE CardWakes   BY <1>10 DEF CardWakes
<1>11. CASE CardTakes   BY <1>11 DEF CardTakes
<1>12. CASE CardTriangle  BY <1>12 DEF CardTriangle, VoodooTypeOK
<1>13. CASE CardIdle    BY <1>13 DEF CardIdle
<1>14. CASE SwapDone    BY <1>14 DEF SwapDone
<1>15. CASE SwapWait    BY <1>15 DEF SwapWait
<1>20. CASE SwapTest    BY <1>20 DEF SwapTest
<1>16. CASE CardIndex   BY <1>16 DEF CardIndex, VoodooTypeOK
<1>17. CASE CardSleeps  BY <1>17 DEF CardSleeps
<1>18. CASE Render      BY <1>18 DEF Render
<1>19. CASE UNCHANGED vars  BY <1>19 DEF vars
<1> QED BY <1>1, <1>2, <1>3, <1>4, <1>5, <1>6, <1>7, <1>8, <1>9, <1>10, <1>11, <1>12,
           <1>13, <1>14, <1>15, <1>16, <1>17, <1>18, <1>19, <1>20
        DEF Next, CpuNext, CpuResumes, Timers, CardNext

\* What the guest reads back shows every command it has written: a read waits
\* for the FIFO and then for the render threads, and nothing new can come.
THEOREM VoodooReadSeesAll == Spec => []ReadSeesAll
<1>1. Init => Flushed  BY DEF Init, Flushed
<1>2. VoodooTypeOK /\ Flushed => ReadSeesAll
  BY DEF VoodooTypeOK, Flushed, ReadSeesAll
<1> QED BY <1>1, <1>2, TypeInit, TypeStep, FlushedStep, PTL DEF Spec

(* Frames.                                                                 *)

LEMMA SwapInit == Init => SwapInv
<1> SUFFICES ASSUME Init PROVE SwapInv
  OBVIOUS
<1>1. OneKind  BY DEF Init, OneKind
<1>2. ~InFlight /\ Asked = 0 /\ card \notin Swapping
  <2>1. card = "wait" /\ frame = 0  BY DEF Init
  <2> QED BY <2>1 DEF InFlight, Asked, Swapping
<1>3. OneFrame
  <2>1. drawing = <<>> /\ Len(<<>>) = 0  BY DEF Init
  <2>2. Len(drawing) = 0  BY <2>1, Zenon
  <2>3. \A i \in 1 .. Len(drawing) : FALSE  BY <2>2
  <2> QED BY <1>2, <2>3 DEF OneFrame
<1>4. Shown  BY <1>2 DEF Init, Shown
<1> QED BY TypeInit, <1>1, <1>3, <1>4 DEF SwapInv

\* Steps after which the command in flight is the same, and nothing is shown.
LEMMA SameFrames ==
    ASSUME OneFrame, Shown, UNCHANGED <<buffers, drawing, card, frame, swapVars>>,
           card \in {"idle"} \cup Swapping => Head(fifo') = Head(fifo)
    PROVE  OneFrame' /\ Shown'
<1>1. InFlight' = InFlight /\ Asked' = Asked  BY DEF InFlight, Asked
<1>2. OneFrame'  BY <1>1 DEF OneFrame
<1>3. Shown'  BY <1>1 DEF Shown, swapVars
<1> QED BY <1>2, <1>3

LEMMA StoreKeepsSwaps ==
    ASSUME SwapInv, ~FIFO_FULL, NEW c \in Commands, Store(c),
           buffers = 3 => c # "swap",
           UNCHANGED <<buffers, drawing, card, frame, swapVars>>
    PROVE  /\ buffers' = 3 => \A i \in 1 .. Len(fifo') : fifo'[i] # "swap"
           /\ OneFrame' /\ Shown'
<1>1. /\ fifo # <<>> => Head(fifo') = Head(fifo)
      /\ Len(fifo') = Len(fifo) + 1 /\ fifo'[Len(fifo) + 1] = c
      /\ \A i \in 1 .. Len(fifo) : fifo'[i] = fifo[i]
  BY StoreKeeps DEF SwapInv
<1>2. card \in {"idle"} \cup Swapping => Head(fifo') = Head(fifo)
  <2>1. card \in {"idle"} \cup Swapping => fifo # <<>>
    BY DEF SwapInv, VoodooTypeOK, Swapping
  <2> QED BY <1>1, <2>1
<1>3. OneFrame' /\ Shown'  BY <1>2, SameFrames DEF SwapInv
<1>4. ASSUME buffers = 3, NEW i \in 1 .. Len(fifo) + 1 PROVE fifo'[i] # "swap"
  <2>0. fifo \in Seq(Commands)  BY DEF SwapInv, VoodooTypeOK
  <2>1. Len(fifo) \in Nat  BY <2>0
  <2>2. CASE i = Len(fifo) + 1  BY <1>1, <1>4, <2>2
  <2>3. CASE i \in 1 .. Len(fifo)  BY <1>1, <1>4, <2>3 DEF SwapInv, OneKind
  <2> QED BY <2>1, <2>2, <2>3
<1> QED BY <1>1, <1>3, <1>4

LEMMA CpuKeepsSwaps ==
    ASSUME SwapInv, Careful, CpuNext PROVE OneKind' /\ OneFrame' /\ Shown'
<1> USE DEF cardVars
<1>1. ASSUME NEW c \in Commands, Queue(c) PROVE OneKind' /\ OneFrame' /\ Shown'
  <2>1. buffers = 3 => c # "swap"  BY <1>1 DEF Queue, GuestMayQueue
  <2>2. UNCHANGED <<buffers, drawing, card, frame, swapVars>> /\ hand' = c
    BY <1>1 DEF Queue
  <2>3. CASE FIFO_FULL
    <3>1. fifo' = fifo  BY <1>1, <2>3 DEF Queue
    <3>2. OneKind'  BY <2>1, <2>2, <3>1 DEF SwapInv, OneKind
    <3> QED BY <2>2, <3>1, <3>2, SameFrames DEF SwapInv
  <2>4. CASE ~FIFO_FULL
    <3>1. Store(c)  BY <1>1, <2>4 DEF Queue
    <3>2. /\ buffers' = 3 => \A i \in 1 .. Len(fifo') : fifo'[i] # "swap"
          /\ OneFrame' /\ Shown'
      BY <2>1, <2>2, <2>4, <3>1, StoreKeepsSwaps
    <3> QED BY <2>1, <2>2, <3>2 DEF OneKind
  <2> QED BY <2>3, <2>4
<1>2. CASE QueueWaits
  <2>1. UNCHANGED <<buffers, drawing, card, frame, swapVars, hand>> /\ cpu = "full"
    BY <1>2 DEF QueueWaits
  <2>2. CASE FIFO_FULL
    <3>1. fifo' = fifo  BY <1>2, <2>2 DEF QueueWaits
    <3>2. OneKind'  BY <2>1, <3>1 DEF SwapInv, OneKind
    <3> QED BY <2>1, <3>1, <3>2, SameFrames DEF SwapInv
  <2>3. CASE ~FIFO_FULL
    <3>1. Store(hand) /\ hand \in Commands /\ (buffers = 3 => hand # "swap")
      BY <1>2, <2>1, <2>3 DEF QueueWaits, SwapInv, VoodooTypeOK, OneKind
    <3>2. /\ buffers' = 3 => \A i \in 1 .. Len(fifo') : fifo'[i] # "swap"
          /\ OneFrame' /\ Shown'
      BY <2>1, <2>3, <3>1, StoreKeepsSwaps
    <3> QED BY <2>1, <3>1, <3>2 DEF OneKind
  <2> QED BY <2>2, <2>3
<1>3. ASSUME UNCHANGED <<buffers, fifo, drawing, card, frame, swapVars, hand>>,
             cpu' = "full" => cpu = "full"
      PROVE  OneKind' /\ OneFrame' /\ Shown'
  BY <1>3, SameFrames DEF SwapInv, OneKind
<1>4. CASE ReadCard     BY <1>3, <1>4 DEF ReadCard
<1>5. CASE ReadStatus   BY <1>3, <1>5 DEF ReadStatus
<1>6. CASE FlushFifo    BY <1>3, <1>6 DEF FlushFifo
<1>7. CASE FlushRender  BY <1>3, <1>7 DEF FlushRender
<1>8. CASE ReadValue    BY <1>3, <1>8 DEF ReadValue
<1>9. CASE WakeTimer    BY <1>3, <1>9 DEF WakeTimer
<1>10. CASE Retrace
  <2>1. OneKind'  BY <1>10 DEF Retrace, guestVars, SwapInv, OneKind
  <2>2. InFlight' = InFlight /\ Asked' = Asked
    BY <1>10 DEF Retrace, InFlight, Asked
  <2>3. OneFrame'  BY <1>10, <2>2 DEF Retrace, SwapInv, OneFrame
  <2>4. Shown'  BY <1>10, <2>2 DEF Retrace, SwapInv, Shown
  <2> QED BY <2>1, <2>3, <2>4
<1> QED BY <1>1, <1>2, <1>4, <1>5, <1>6, <1>7, <1>8, <1>9, <1>10
        DEF CpuNext, CpuResumes, Timers

LEMMA CardKeepsSwaps ==
    ASSUME SwapInv, CardNext PROVE OneKind' /\ OneFrame' /\ Shown'
<1> USE DEF At, guestVars, Swaps, Swapping
<1>0. /\ frame \in Nat /\ front \in Nat /\ swap_offset \in Nat /\ buffers \in {2, 3}
      /\ card \in {"triangle", "idle", "swap", "swap wait", "index"} => fifo # <<>>
      /\ fifo \in Seq(Commands) /\ drawing \in Seq(Nat)
  BY DEF SwapInv, VoodooTypeOK
<1>1. CASE CardIndex
  <2>1. fifo # <<>>  BY <1>0, <1>1 DEF CardIndex
  <2>2. /\ Len(fifo') = Len(fifo) - 1 /\ Len(fifo) \in Nat
        /\ \A i \in 1 .. Len(fifo') : fifo'[i] = fifo[i + 1]
    BY <1>0, <1>1, <2>1, HeadTailProperties DEF CardIndex
  <2>3. OneKind'
    <3>1. \A i \in 1 .. Len(fifo') : i + 1 \in 1 .. Len(fifo)  BY <2>2
    <3> QED BY <1>1, <2>2, <3>1 DEF CardIndex, SwapInv, OneKind
  <2>4. ~InFlight /\ ~InFlight'  BY <1>1 DEF CardIndex, InFlight
  <2>5. OneFrame'  BY <1>1, <2>4 DEF CardIndex, SwapInv, OneFrame
  <2>6. Shown'  BY <1>1, <2>4 DEF CardIndex, SwapInv, Shown, swapVars, Asked
  <2> QED BY <2>3, <2>5, <2>6
<1>2. SUFFICES ASSUME ~CardIndex PROVE OneFrame' /\ Shown'
  <2>1. ~CardIndex => UNCHANGED <<buffers, fifo, cpu, hand>>
    BY DEF CardNext, CardWakes, CardTakes, CardTriangle, CardIdle, SwapDone,
           SwapTest, SwapWait, CardSleeps, cardVars
  <2> QED BY <1>1, <2>1 DEF SwapInv, OneKind
<1>3. CASE CardWakes \/ CardSleeps
  <2>1. ~InFlight /\ ~InFlight'
    BY <1>3 DEF CardWakes, CardSleeps, InFlight
  <2>2. UNCHANGED <<buffers, drawing, frame, swapVars>> /\ card' \notin Swapping
        /\ card \notin Swapping
    BY <1>3 DEF CardWakes, CardSleeps
  <2>3. OneFrame'  BY <2>1, <2>2 DEF SwapInv, OneFrame
  <2>4. Shown'  BY <2>1, <2>2 DEF SwapInv, Shown, Asked, swapVars
  <2> QED BY <2>3, <2>4
<1>4. CASE CardTakes
  <2>1. ~InFlight /\ card = "test" /\ card' \notin Swapping
        /\ UNCHANGED <<buffers, fifo, drawing, swapVars>>
    BY <1>4 DEF CardTakes, InFlight
  <2>2. IF Head(fifo) \in Swaps THEN InFlight' /\ card' = "idle" /\ frame' = frame + 1
                                ELSE ~InFlight' /\ frame' = frame
    BY <1>4 DEF CardTakes, InFlight
  <2>3. Asked' = Asked
    <3>1. Asked = frame  BY <2>1 DEF Asked
    <3>2. CASE Head(fifo) \in Swaps
      <4>1. Asked' = frame' - 1  BY <2>2, <3>2 DEF Asked
      <4>2. frame' = frame + 1  BY <2>2, <3>2
      <4>3. frame \in Nat  BY <1>0
      <4> QED BY <3>1, <4>1, <4>2, <4>3
    <3>3. CASE Head(fifo) \notin Swaps
      <4>0. ~InFlight'  BY <2>2, <3>3
      <4>1. Asked' = frame'  BY <4>0 DEF Asked
      <4> QED BY <2>2, <3>1, <3>3, <4>1
    <3> QED BY <3>2, <3>3
  <2>4. OneFrame'
    <3>1. \A i \in 1 .. Len(drawing) : drawing[i] = frame + 1
      BY <2>1 DEF SwapInv, OneFrame
    <3>2. frame + 1 = IF InFlight' THEN frame' ELSE frame' + 1  BY <2>2
    <3> QED BY <2>1, <3>1, <3>2 DEF OneFrame
  <2>5. Shown'  BY <2>1, <2>3 DEF SwapInv, Shown, swapVars
  <2> QED BY <2>4, <2>5
<1>5. CASE CardTriangle
  <2>1. ~InFlight /\ ~InFlight' /\ card' \notin Swapping /\ card \notin Swapping
        /\ UNCHANGED <<buffers, frame, swapVars>> /\ drawing' = Append(drawing, frame + 1)
    BY <1>5 DEF CardTriangle, InFlight
  <2>2. /\ Len(drawing') = Len(drawing) + 1 /\ drawing'[Len(drawing) + 1] = frame + 1
        /\ \A i \in 1 .. Len(drawing) : drawing'[i] = drawing[i]
        /\ Len(drawing) \in Nat
    <3>1. drawing \in Seq(Nat)  BY <1>0
    <3>2. frame + 1 \in Nat
      <4>1. frame \in Nat  BY <1>0
      <4> QED BY <4>1
    <3>3. drawing' = Append(drawing, frame + 1)  BY <2>1
    <3> QED BY <3>1, <3>2, <3>3, AppendKeeps
  <2>3. ASSUME NEW i \in 1 .. Len(drawing) + 1 PROVE drawing'[i] = frame + 1
    <3>1. CASE i = Len(drawing) + 1  BY <2>2, <3>1
    <3>2. CASE i \in 1 .. Len(drawing)
      BY <2>1, <2>2, <3>2 DEF SwapInv, OneFrame
    <3> QED BY <2>2, <3>1, <3>2
  <2>4. OneFrame'  BY <2>1, <2>2, <2>3 DEF OneFrame
  <2>5. Shown'  BY <2>1 DEF SwapInv, Shown, Asked, swapVars
  <2> QED BY <2>4, <2>5
<1>6. CASE CardIdle
  <2>1. card = "idle" /\ drawing = <<>> /\ UNCHANGED <<buffers, fifo, drawing, frame>>
    BY <1>6 DEF CardIdle
  <2>2. Len(drawing') = 0
    <3>1. drawing' = <<>> /\ Len(<<>>) = 0  BY <2>1
    <3> QED BY <3>1, Zenon
  <2>3. /\ swap_pending => swap_offset = Asked /\ front \in {Asked - 1, Asked}
        /\ ~swap_pending => front = Asked
        /\ ~(buffers = 2 /\ swap_pending)
    BY <2>1 DEF SwapInv, Shown
  <2>4. Head(fifo) \in Commands  BY <1>0, <2>1
  <2>5. CASE Head(fifo) = "fb"
    <3>1. ~InFlight /\ ~InFlight' /\ card' = "index" /\ UNCHANGED swapVars
      BY <1>6, <2>5 DEF CardIdle, Execute, InFlight
    <3>2. OneFrame'  BY <2>2, <3>1 DEF OneFrame
    <3>3. Shown'  BY <2>1, <2>3, <3>1 DEF Shown, Asked, swapVars
    <3> QED BY <3>2, <3>3
  <2>6. CASE Head(fifo) = "swap"
    <3>1. InFlight /\ ~InFlight' /\ card' = "index" /\ front' = frame
          /\ UNCHANGED <<swap_pending, swap_offset>>
      BY <1>6, <2>6 DEF CardIdle, Execute, InFlight
    <3>2. buffers = 2 /\ ~swap_pending
      <4>1. fifo[1] = "swap" /\ 1 \in 1 .. Len(fifo)
        BY <1>0, <2>1, <2>6, HeadIn
      <4>2. buffers # 3  BY <4>1 DEF SwapInv, OneKind
      <4> QED BY <1>0, <2>3, <4>2
    <3>3. OneFrame'  BY <2>2, <3>1 DEF OneFrame
    <3>4. Shown'  BY <2>1, <3>1, <3>2 DEF Shown, Asked
    <3> QED BY <3>3, <3>4
  <2>7. CASE Head(fifo) = "vsync swap"
    <3>0. InFlight  BY <2>1, <2>7 DEF InFlight
    <3>1. Asked = frame - 1  BY <2>1, <3>0 DEF Asked
    <3>2. CASE buffers = 2
      <4>0. card' = "swap" /\ PendSwap
        <5>1. Execute  BY <1>6 DEF CardIdle
        <5>2. Head(fifo) # "fb" /\ Head(fifo) # "swap"  BY <2>7, Zenon
        <5>3. buffers # 3  BY <3>2
        <5> QED BY <5>1, <5>2, <5>3 DEF Execute
      <4>1. card' = "swap" /\ swap_pending' = TRUE /\ swap_offset' = frame
            /\ front' = front
        BY <4>0 DEF PendSwap
      <4>2. OneFrame'
        <5>1. Head(fifo') = "vsync swap" /\ drawing' = <<>>  BY <2>1, <2>7
        <5>2. \A i \in 1 .. Len(drawing') :
                drawing'[i] = IF InFlight' THEN frame' ELSE frame' + 1
          BY <2>2
        <5> QED BY <5>1, <5>2 DEF OneFrame
      <4>3. Asked' = frame  BY <2>1, <3>2, <4>1 DEF Asked
      <4>4. front = frame - 1  BY <2>3, <3>1, <3>2
      <4>5. Shown'  BY <1>0, <2>1, <4>1, <4>3, <4>4 DEF Shown
      <4> QED BY <4>2, <4>5
    <3>3. CASE buffers = 3 /\ swap_pending
      <4>1. card' = "swap" /\ UNCHANGED swapVars
        <5>1. Execute  BY <1>6 DEF CardIdle
        <5>2. Head(fifo) # "fb" /\ Head(fifo) # "swap"  BY <2>7, Zenon
        <5>3. buffers # 2 /\ swap_pending  BY <3>3
        <5> QED BY <5>1, <5>2, <5>3 DEF Execute
      <4>2. OneFrame'
        <5>1. Head(fifo') = "vsync swap" /\ drawing' = <<>>  BY <2>1, <2>7
        <5>2. \A i \in 1 .. Len(drawing') :
                drawing'[i] = IF InFlight' THEN frame' ELSE frame' + 1
          BY <2>2
        <5> QED BY <5>1, <5>2 DEF OneFrame
      <4>3. Asked' = Asked  BY <2>1, <2>7, <3>1, <3>3, <4>1 DEF Asked, InFlight
      <4>4. Shown'  BY <2>1, <2>3, <3>3, <4>1, <4>3 DEF Shown, swapVars
      <4> QED BY <4>2, <4>4
    <3>4. CASE buffers = 3 /\ ~swap_pending
      <4>0. card' = "index" /\ PendSwap
        <5>1. Execute  BY <1>6 DEF CardIdle
        <5>2. Head(fifo) # "fb" /\ Head(fifo) # "swap"  BY <2>7, Zenon
        <5>3. buffers # 2 /\ ~swap_pending  BY <3>4
        <5> QED BY <5>1, <5>2, <5>3 DEF Execute
      <4>1. card' = "index" /\ swap_pending' = TRUE /\ swap_offset' = frame
            /\ front' = front
        BY <4>0 DEF PendSwap
      <4>2. OneFrame'  BY <2>2, <4>1 DEF OneFrame
      <4>3. Asked' = frame  BY <2>1, <4>1 DEF Asked, InFlight
      <4>4. front = frame - 1  BY <2>3, <3>1, <3>4
      <4>5. Shown'  BY <1>0, <2>1, <3>4, <4>1, <4>3, <4>4 DEF Shown
      <4> QED BY <4>2, <4>5
    <3> QED BY <1>0, <3>2, <3>3, <3>4
  <2>8. Head(fifo) # "triangle"
    BY <1>6 DEF CardIdle, Execute
  <2> QED BY <2>4, <2>5, <2>6, <2>7, <2>8 DEF Commands
<1>7. CASE SwapDone
  <2>1. card = "swap" /\ card' = "index" /\ ~swap_pending
        /\ UNCHANGED <<buffers, fifo, drawing, frame>>
    BY <1>7 DEF SwapDone
  <2>2. drawing = <<>> /\ InFlight /\ ~InFlight'
    BY <2>1 DEF SwapInv, OneFrame, InFlight
  <2>3. OneFrame'
    <3>1. drawing' = <<>> /\ Len(<<>>) = 0  BY <2>1, <2>2
    <3>2. Len(drawing') = 0  BY <3>1, Zenon
    <3> QED BY <2>1, <3>2 DEF OneFrame
  <2>4. Asked' = frame  BY <2>1, <2>2 DEF Asked
  <2>5. front = Asked \/ front = frame  BY <2>1 DEF SwapInv, Shown
  <2>6. CASE buffers = 2
    <3>1. UNCHANGED swapVars  BY <1>7, <2>6 DEF SwapDone
    <3>2. Asked = frame  BY <2>1, <2>6 DEF Asked
    <3> QED BY <2>1, <2>3, <2>4, <2>5, <3>1, <3>2 DEF Shown, swapVars
  <2>7. CASE buffers = 3
    <3>1. swap_pending' = TRUE /\ swap_offset' = frame /\ front' = front
      BY <1>7, <2>7 DEF SwapDone, PendSwap
    <3>2. Asked = frame - 1  BY <2>2, <2>7 DEF Asked
    <3> QED BY <1>0, <2>1, <2>3, <2>4, <2>5, <2>7, <3>1, <3>2 DEF Shown
  <2> QED BY <1>0, <2>6, <2>7
<1>8. CASE SwapWait
  <2>1. /\ card = "swap wait" /\ card' = "swap"
        /\ UNCHANGED <<buffers, fifo, drawing, frame>>
    BY <1>8 DEF SwapWait
  <2>2. InFlight' = InFlight /\ Asked' = Asked  BY <2>1 DEF InFlight, Asked
  <2>3. OneFrame'  BY <2>1, <2>2 DEF SwapInv, OneFrame
  <2>4. Shown'
    <3>1. CASE swap_pending /\ flush
      <4>1. swap_pending' = FALSE /\ front' = frame  BY <1>8, <3>1 DEF SwapWait
      <4> QED BY <2>1, <4>1 DEF Shown
    <3>2. CASE ~(swap_pending /\ flush)
      <4>1. UNCHANGED swapVars  BY <1>8, <3>2 DEF SwapWait
      <4> QED BY <2>1, <2>2, <4>1 DEF SwapInv, Shown, swapVars
    <3> QED BY <3>1, <3>2
  <2> QED BY <2>3, <2>4
<1>9. CASE SwapTest
  <2>1. /\ card = "swap" /\ card' = "swap wait"
        /\ UNCHANGED <<buffers, fifo, drawing, frame, swapVars>>
    BY <1>9 DEF SwapTest
  <2>2. InFlight' = InFlight /\ Asked' = Asked  BY <2>1 DEF InFlight, Asked
  <2>3. OneFrame'  BY <2>1, <2>2 DEF SwapInv, OneFrame
  <2>4. Shown'  BY <2>1, <2>2 DEF SwapInv, Shown, swapVars
  <2> QED BY <2>3, <2>4
<1> QED BY <1>2, <1>3, <1>4, <1>5, <1>6, <1>7, <1>8, <1>9 DEF CardNext

LEMMA RenderKeepsSwaps ==
    ASSUME SwapInv, Render PROVE OneKind' /\ OneFrame' /\ Shown'
<1> USE DEF guestVars, cardVars
<1>1. drawing \in Seq(Nat) /\ drawing # <<>> /\ card \notin Swapping
  BY DEF Render, SwapInv, VoodooTypeOK, OneFrame
<1>2. /\ Len(drawing') = Len(drawing) - 1 /\ Len(drawing) \in Nat
      /\ \A i \in 1 .. Len(drawing') : drawing'[i] = drawing[i + 1]
  BY <1>1, HeadTailProperties DEF Render
<1>3. InFlight' = InFlight /\ Asked' = Asked  BY DEF Render, InFlight, Asked
<1>4. OneKind'  BY DEF Render, SwapInv, OneKind
<1>5. OneFrame'
  <2>1. \A i \in 1 .. Len(drawing') : i + 1 \in 1 .. Len(drawing)  BY <1>2
  <2>2. UNCHANGED <<card, frame>>  BY DEF Render
  <2>3. \A i \in 1 .. Len(drawing) :
          drawing[i] = IF InFlight THEN frame ELSE frame + 1
    BY DEF SwapInv, OneFrame
  <2> QED BY <1>1, <1>2, <1>3, <2>1, <2>2, <2>3 DEF OneFrame
<1>6. Shown'  BY <1>3 DEF Render, SwapInv, Shown, swapVars
<1> QED BY <1>4, <1>5, <1>6

LEMMA SwapStep ==
    ASSUME Careful = TRUE
    PROVE  SwapInv /\ [Next]_vars => SwapInv'
<1> SUFFICES ASSUME SwapInv, [Next]_vars PROVE SwapInv'
  OBVIOUS
<1>1. VoodooTypeOK'  BY TypeStep DEF SwapInv
<1>2. CASE CpuNext   BY <1>1, <1>2, CpuKeepsSwaps DEF SwapInv
<1>3. CASE CardNext  BY <1>1, <1>3, CardKeepsSwaps DEF SwapInv
<1>4. CASE Render    BY <1>1, <1>4, RenderKeepsSwaps DEF SwapInv
<1>5. CASE UNCHANGED vars
  <2>1. UNCHANGED <<buffers, fifo, drawing, card, frame, swapVars, hand, cpu>>
    BY <1>5 DEF vars, guestVars, cardVars
  <2> QED BY <1>1, <2>1, SameFrames DEF SwapInv, OneKind
<1> QED BY <1>2, <1>3, <1>4, <1>5 DEF Next

\* The buffer on the screen is never one that triangles are still drawn into,
\* for a guest that does not mix the kinds of swap with three buffers.
THEOREM VoodooBuffersApart ==
    ASSUME Careful = TRUE
    PROVE  Spec => []BuffersApart
<1>1. SwapInv => BuffersApart
  <2> SUFFICES ASSUME SwapInv, NEW i \in DOMAIN drawing
               PROVE  drawing[i] % buffers # front % buffers
    BY DEF BuffersApart
  <2>1. /\ frame \in Nat /\ front \in Nat /\ buffers \in {2, 3}
        /\ drawing \in Seq(Nat)
    BY DEF SwapInv, VoodooTypeOK
  <2>10. i \in 1 .. Len(drawing) /\ drawing # <<>>  BY <2>1
  <2>2. card \notin Swapping  BY <2>10 DEF SwapInv, OneFrame
  <2>3. drawing[i] = IF InFlight THEN frame ELSE frame + 1
    BY <2>10 DEF SwapInv, OneFrame
  <2>4. Asked = IF InFlight THEN frame - 1 ELSE frame  BY <2>2 DEF Asked, InFlight, Swapping
  <2>5. drawing[i] = Asked + 1  BY <2>1, <2>3, <2>4
  <2>6. front = Asked \/ (front = Asked - 1 /\ buffers = 3)
    BY <2>1, <2>2 DEF SwapInv, Shown
  <2>7. drawing[i] = front + 1 \/ (drawing[i] = front + 2 /\ buffers = 3)
    <3>1. Asked \in Int  BY <2>1, <2>4
    <3> QED BY <2>1, <2>5, <2>6, <3>1
  <2>8. (front + 1) % 2 # front % 2  BY <2>1
  <2>9. (front + 1) % 3 # front % 3 /\ (front + 2) % 3 # front % 3  BY <2>1
  <2> QED BY <2>1, <2>7, <2>8, <2>9
<1> QED BY <1>1, SwapInit, SwapStep, PTL DEF Spec

\* Frames are shown in the order they were drawn, though both the retrace and
\* the FIFO thread show them.
THEOREM VoodooFramesInOrder ==
    ASSUME Careful = TRUE
    PROVE  Spec => FramesInOrder
<1>1. SwapInv /\ [Next]_vars => [front' >= front]_vars
  <2> SUFFICES ASSUME SwapInv, [Next]_vars PROVE front' >= front \/ UNCHANGED vars
    OBVIOUS
  <2>1. frame \in Nat /\ front \in Nat /\ buffers \in {2, 3}
    BY DEF SwapInv, VoodooTypeOK
  <2>2. Asked \in {frame, frame - 1}  BY DEF Asked
  <2>3. front \in {Asked - 1, Asked, frame}  BY DEF SwapInv, Shown
  <2>4. front <= frame  BY <2>1, <2>2, <2>3
  <2>5. CASE Retrace
    <3>1. front' = Asked /\ front \in {Asked - 1, Asked}
      BY <2>5 DEF Retrace, SwapInv, Shown
    <3> QED BY <2>1, <2>2, <3>1
  <2>6. CASE CardIdle
    <3>1. front' = front \/ front' = frame
      BY <2>6 DEF CardIdle, Execute, PendSwap, swapVars
    <3> QED BY <2>1, <2>4, <3>1
  <2>7. CASE SwapWait
    <3>1. front' = front \/ front' = frame  BY <2>7 DEF SwapWait, swapVars
    <3> QED BY <2>1, <2>4, <3>1
  <2>8. CASE SwapDone  BY <2>1, <2>8 DEF SwapDone, PendSwap, swapVars
  <2>9. ASSUME front' = front PROVE front' >= front  BY <2>1, <2>9
  <2>10. CASE CpuNext
    BY <2>5, <2>9, <2>10 DEF CpuNext, Queue, QueueWaits, ReadCard, ReadStatus, CpuResumes,
       FlushFifo, FlushRender, ReadValue, Timers, WakeTimer, swapVars
  <2>11. CASE CardNext
    BY <2>6, <2>7, <2>8, <2>9, <2>11 DEF CardNext, CardWakes, CardTakes, CardTriangle, SwapTest,
       CardIndex, CardSleeps, swapVars
  <2>12. CASE Render  BY <2>9, <2>12 DEF Render, swapVars
  <2> QED BY <2>10, <2>11, <2>12 DEF Next
<1> QED BY <1>1, SwapInit, SwapStep, PTL DEF Spec, FramesInOrder
=============================================================================
