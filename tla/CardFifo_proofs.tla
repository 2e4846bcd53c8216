--------------------------- MODULE CardFifo_proofs ---------------------------
(***************************************************************************)
(* Proofs about CardFifo for rings of every size.  Asleep and Room hold    *)
(* for every driver; that no entry is overwritten or erased before it is   *)
(* executed, and with it the refinement of Accelerator, is proved for the  *)
(* drivers that keep one slot free (FullAt = Size - 1).                    *)
(***************************************************************************)
EXTENDS CardFifo, TLAPS

USE FifoAssumption DEF FifoAssumption

IdxOK ==
    /\ FifoTypeOK
    /\ (card \in {"execute", "index"} => read_idx < write_idx)
    /\ (card = "invalid" => read_idx > 0)
    /\ (cpu \in {"full", "again", "room", "store", "index"} => write_idx < Writes)

\* A sleeping card with commands has its event set or about to be set.
Asleep ==
    (card \in {"free", "ready", "wait"} /\ read_idx < write_idx)
        => \/ wake
           \/ cpu = "wake"
           \/ cpu = "entries" /\ (FIFO_ENTRIES < WakeBelow
                                  \/ FIFO_ENTRIES > Threshold)

\* A thread that waits for room has been signalled or will be.
Room ==
    cpu = "room" => \/ not_full
                    \/ FIFO_ENTRIES > Threshold + 1
                    \/ card \in {"invalid", "entries"} /\ FIFO_ENTRIES > Threshold
                    \/ card \in {"signal", "free", "ready"}

LiveInv == IdxOK /\ Asleep /\ Room

(* Slots.                                                                  *)

LEMMA SizePositive == Size \in Nat /\ Size > 1 /\ FullAt \in Nat
BY DEF FifoAssumption

LEMMA SlotRange == \A i \in Nat : Slot(i) \in 0 .. Size - 1
BY SizePositive DEF Slot

\* Two numbers less than Size apart have different remainders.
LEMMA SlotsDiffer ==
    ASSUME NEW i \in Nat, NEW j \in Nat, i < j, j - i < Size
    PROVE  Slot(i) # Slot(j)
<1>1. Size \in Nat /\ Size > 0  BY SizePositive
<1>2. PICK p \in Int : i = Size * p + (i % Size)
  <2>1. i = Size * (i \div Size) + (i % Size)  BY <1>1
  <2>2. i \div Size \in Int  BY <1>1
  <2> QED BY <2>1, <2>2
<1>3. PICK q \in Int : j = Size * q + (j % Size)
  <2>1. j = Size * (j \div Size) + (j % Size)  BY <1>1
  <2>2. j \div Size \in Int  BY <1>1
  <2> QED BY <2>1, <2>2
<1>4. SUFFICES ASSUME i % Size = j % Size PROVE FALSE  BY DEF Slot
<1>5. j - i = Size * (q - p)
  <2>1. Size * (q - p) = Size * q - Size * p  BY <1>1
  <2>2. i % Size \in Int  BY <1>1
  <2> QED BY <1>1, <1>2, <1>3, <1>4, <2>1, <2>2
<1>6. q - p > 0
  <2>1. ASSUME q - p <= 0 PROVE FALSE
    <3>1. \A s, d \in Int : s > 0 /\ d <= 0 => s * d <= 0  OBVIOUS
    <3> QED BY <1>1, <1>5, <2>1, <3>1
  <2> QED BY <2>1
<1>7. Size * (q - p) >= Size
  <2>1. \A s, d \in Int : s > 0 /\ d > 0 => s * d >= s  OBVIOUS
  <2> QED BY <1>1, <1>6, <2>1
<1> QED BY <1>1, <1>5, <1>7

LEMMA UpdateType ==
    ASSUME NEW D, NEW R, NEW f \in [D -> R], NEW x, NEW v \in R
    PROVE  [f EXCEPT ![x] = v] \in [D -> R]
OBVIOUS

LEMMA LiveInit == Init => LiveInv
<1> SUFFICES ASSUME Init PROVE LiveInv
  OBVIOUS
<1> USE DEF Init, CpuStates, CardStates
<1>1. IdxOK
  <2>0. fifo \in [0 .. Size - 1 -> 0 .. Writes]
    BY DEF FIFO_INVALID, FifoAssumption
  <2>1. busy \in BOOLEAN /\ not_full \in BOOLEAN /\ wake \in BOOLEAN  BY Zenon
  <2>2. Writes \in Nat  BY DEF FifoAssumption
  <2>3. read_idx = 0 /\ write_idx = 0 /\ engine = 0 /\ seen = 0
    OBVIOUS
  <2>4. cpu = "run" /\ card = "ready"
    OBVIOUS
  <2> HIDE DEF Init
  <2> QED BY <2>0, <2>1, <2>2, <2>3, <2>4 DEF IdxOK, FifoTypeOK
<1>2. Asleep /\ Room  BY DEF Asleep, Room
<1> QED BY <1>1, <1>2 DEF LiveInv

LEMMA CpuKeepsLive == LiveInv /\ CpuNext => LiveInv'
<1> SUFFICES ASSUME LiveInv, CpuNext PROVE LiveInv'
  OBVIOUS
<1> USE DEF LiveInv, IdxOK, FifoTypeOK, Asleep, Room, CpuStates, CardStates, cardVars,
        FIFO_ENTRIES, FIFO_EMPTY, FIFO_FULL, Goto
<1>1. CASE Queue          BY <1>1 DEF Queue
<1>2. CASE ReadRegister   BY <1>2 DEF ReadRegister
<1>3. CASE ReadStatus     BY <1>3 DEF ReadStatus
<1>4. CASE QueueReset     BY <1>4 DEF QueueReset
<1>5. CASE QueueCheckAgain BY <1>5 DEF QueueCheckAgain
<1>6. CASE QueueRoom      BY <1>6 DEF QueueRoom
<1>7. CASE QueueStore
  <2>0. write_idx + 1 \in 0 .. Writes
    BY <1>7 DEF QueueStore, FifoAssumption
  <2>1. fifo' \in [0 .. Size - 1 -> 0 .. Writes]
    BY <1>7, <2>0, UpdateType DEF QueueStore
  <2> QED BY <1>7, <2>1 DEF QueueStore
<1>8. CASE QueueIndex     BY <1>8 DEF QueueIndex
<1>9. CASE QueueEntries   BY <1>9 DEF QueueEntries
<1>10. CASE WakeFifoThread BY <1>10 DEF WakeFifoThread
<1>11. CASE WaitFifoIdle  BY <1>11 DEF WaitFifoIdle
<1>12. CASE WaitFifoNap   BY <1>12 DEF WaitFifoNap
<1> QED BY <1>1, <1>2, <1>3, <1>4, <1>5, <1>6, <1>7, <1>8, <1>9, <1>10,
           <1>11, <1>12 DEF CpuNext, CpuResumes

LEMMA CardKeepsLive == LiveInv /\ CardNext => LiveInv'
<1> SUFFICES ASSUME LiveInv, CardNext PROVE LiveInv'
  OBVIOUS
<1>0. Slot(read_idx) \in 0 .. Size - 1
  <2>1. read_idx \in Nat  BY DEF LiveInv, IdxOK, FifoTypeOK
  <2> QED BY <2>1, SlotRange
<1> USE DEF LiveInv, IdxOK, FifoTypeOK, Asleep, Room, CpuStates, CardStates, cpuVars,
        FIFO_ENTRIES, FIFO_EMPTY, FIFO_FULL, At
<1>1. CASE CardReady   BY <1>1 DEF CardReady
<1>2. CASE CardWait    BY <1>2 DEF CardWait
<1>3. CASE CardReset   BY <1>3 DEF CardReset
<1>4. CASE CardBusy    BY <1>4 DEF CardBusy
<1>5. CASE CardTest    BY <1>5 DEF CardTest
<1>6. CASE CardExecute
  <2>1. engine' \in 0 .. Writes  BY <1>0, <1>6 DEF CardExecute, FIFO_INVALID
  <2> QED BY <1>6, <2>1 DEF CardExecute
<1>7. CASE CardIndex   BY <1>7 DEF CardIndex
<1>8. CASE CardInvalid
  <2>0. FIFO_INVALID \in 0 .. Writes
    BY DEF FIFO_INVALID, FifoAssumption
  <2>1. fifo' \in [0 .. Size - 1 -> 0 .. Writes]
    BY <1>8, <2>0, UpdateType DEF CardInvalid
  <2> QED BY <1>8, <2>1 DEF CardInvalid
<1>9. CASE CardEntries BY <1>9 DEF CardEntries
<1>10. CASE CardSignal BY <1>10 DEF CardSignal
<1>11. CASE CardFree   BY <1>11 DEF CardFree
<1> QED BY <1>1, <1>2, <1>3, <1>4, <1>5, <1>6, <1>7, <1>8, <1>9, <1>10,
           <1>11 DEF CardNext

LEMMA LiveStep == LiveInv /\ [Next]_vars => LiveInv'
<1> SUFFICES ASSUME LiveInv, [Next]_vars PROVE LiveInv'
  OBVIOUS
<1>1. CASE UNCHANGED vars
  BY <1>1 DEF LiveInv, IdxOK, FifoTypeOK, Asleep, Room, FIFO_ENTRIES, vars,
              cpuVars, cardVars
<1> QED BY <1>1, CpuKeepsLive, CardKeepsLive DEF Next

LEMMA Live == Spec => []LiveInv
BY LiveInit, LiveStep, PTL DEF Spec

\* Indices, events and command numbers stay in their ranges, for every size
\* of the ring and either full mark.
THEOREM FifoTypeCorrect == Spec => []FifoTypeOK
<1>1. LiveInv => FifoTypeOK  BY DEF LiveInv, IdxOK
<1> QED BY <1>1, Live, PTL

\* No driver leaves its FIFO thread asleep on a ring that is not empty.
THEOREM CardWoken == Spec => []CardIsWoken
<1>1. LiveInv => CardIsWoken
  BY DEF LiveInv, IdxOK, FifoTypeOK, Asleep, CardIsWoken, FIFO_EMPTY
<1> QED BY <1>1, Live, PTL

\* No driver leaves the emulator thread waiting for room unsignalled.
THEOREM RoomSignalled == Spec => []RoomIsSignalled
<1>1. LiveInv => RoomIsSignalled  BY DEF LiveInv, Room, RoomIsSignalled
<1> QED BY <1>1, Live, PTL
-----------------------------------------------------------------------------
(* The ring of a driver that keeps one slot free.  An event that is set    *)
(* late lets one command in at Size - 1 entries: then the FIFO thread has  *)
(* already marked its last entry, and the event cannot be set again before *)
(* the next one is taken.                                                  *)

OneFree == FullAt = Size - 1

PrePop == {"wait", "reset", "busy", "test", "execute", "index"}

Counts ==
    /\ FIFO_ENTRIES <= Size
    /\ (FIFO_ENTRIES = Size => card \in PrePop /\ ~not_full)
    /\ (cpu \in {"store", "index"} =>
           /\ FIFO_ENTRIES <= Size - 1
           /\ (FIFO_ENTRIES = Size - 1 => card \in PrePop /\ ~not_full))
    /\ (cpu \in {"again", "room"} /\ not_full =>
           /\ FIFO_ENTRIES <= Size - 1
           /\ (FIFO_ENTRIES = Size - 1 => card \in PrePop))

LEMMA CountsInit == Init => Counts
BY SizePositive DEF Init, Counts, FIFO_ENTRIES

LEMMA CpuKeepsCounts == OneFree /\ LiveInv /\ Counts /\ CpuNext => Counts'
<1> SUFFICES ASSUME OneFree, LiveInv, Counts, CpuNext PROVE Counts'
  OBVIOUS
<1>0. Size \in Nat /\ read_idx \in Nat /\ write_idx \in Nat
  BY SizePositive DEF LiveInv, IdxOK, FifoTypeOK
<1> USE <1>0 DEF OneFree, Counts, PrePop, FIFO_ENTRIES, FIFO_FULL, cardVars, Goto
<1>1. CASE Queue          BY <1>1 DEF Queue
<1>2. CASE ReadRegister   BY <1>2 DEF ReadRegister
<1>3. CASE ReadStatus     BY <1>3 DEF ReadStatus
<1>4. CASE QueueReset     BY <1>4 DEF QueueReset
<1>5. CASE QueueCheckAgain BY <1>5 DEF QueueCheckAgain
<1>6. CASE QueueRoom      BY <1>6 DEF QueueRoom
<1>7. CASE QueueStore     BY <1>7 DEF QueueStore
<1>8. CASE QueueIndex     BY <1>8 DEF QueueIndex
<1>9. CASE QueueEntries   BY <1>9 DEF QueueEntries
<1>10. CASE WakeFifoThread BY <1>10 DEF WakeFifoThread
<1>11. CASE WaitFifoIdle  BY <1>11 DEF WaitFifoIdle
<1>12. CASE WaitFifoNap   BY <1>12 DEF WaitFifoNap
<1> QED BY <1>1, <1>2, <1>3, <1>4, <1>5, <1>6, <1>7, <1>8, <1>9, <1>10,
           <1>11, <1>12 DEF CpuNext, CpuResumes

LEMMA CardKeepsCounts == OneFree /\ LiveInv /\ Counts /\ CardNext => Counts'
<1> SUFFICES ASSUME OneFree, LiveInv, Counts, CardNext PROVE Counts'
  OBVIOUS
<1>0. Size \in Nat /\ read_idx \in Nat /\ write_idx \in Nat /\ Size > 1
  BY SizePositive DEF LiveInv, IdxOK, FifoTypeOK
<1> USE <1>0 DEF OneFree, Counts, PrePop, FIFO_ENTRIES, FIFO_EMPTY, FIFO_FULL,
        cpuVars, At
<1>1. CASE CardReady   BY <1>1 DEF CardReady
<1>2. CASE CardWait    BY <1>2 DEF CardWait
<1>3. CASE CardReset   BY <1>3 DEF CardReset
<1>4. CASE CardBusy    BY <1>4 DEF CardBusy
<1>5. CASE CardTest    BY <1>5 DEF CardTest
<1>6. CASE CardExecute BY <1>6 DEF CardExecute
<1>7. CASE CardIndex   BY <1>7 DEF CardIndex
<1>8. CASE CardInvalid BY <1>8 DEF CardInvalid
<1>9. CASE CardEntries BY <1>9 DEF CardEntries
<1>10. CASE CardSignal BY <1>10 DEF CardSignal
<1>11. CASE CardFree   BY <1>11 DEF CardFree
<1> QED BY <1>1, <1>2, <1>3, <1>4, <1>5, <1>6, <1>7, <1>8, <1>9, <1>10,
           <1>11 DEF CardNext

\* The entries between the indices are the commands the indices count.
Content ==
    /\ \A i \in read_idx .. write_idx - 1 : fifo[Slot(i)] = i + 1
    /\ (cpu = "index" => fifo[Slot(write_idx)] = write_idx + 1)
    /\ (card = "index" => engine = read_idx + 1)
    /\ (card # "index" => engine = read_idx)

LEMMA ContentInit == Init => Content
BY DEF Init, Content

\* The store hits none of the entries that are still to be executed.
LEMMA StoreKeepsContent == LiveInv /\ Counts /\ Content /\ QueueStore => Content'
<1> SUFFICES ASSUME LiveInv, Counts, Content, QueueStore PROVE Content'
  OBVIOUS
<1>1. /\ Size \in Nat /\ read_idx \in Nat /\ write_idx \in Nat
      /\ fifo \in [0 .. Size - 1 -> 0 .. Writes]
  BY SizePositive DEF LiveInv, IdxOK, FifoTypeOK
<1>2. write_idx - read_idx <= Size - 1
  BY DEF Counts, QueueStore, FIFO_ENTRIES
<1>3. Slot(write_idx) \in 0 .. Size - 1  BY <1>1, SlotRange
<1>4. fifo'[Slot(write_idx)] = write_idx + 1  BY <1>1, <1>3 DEF QueueStore
<1>5. ASSUME NEW i \in read_idx .. write_idx - 1 PROVE fifo'[Slot(i)] = i + 1
  <2>1. i \in Nat /\ i < write_idx /\ write_idx - i < Size  BY <1>1, <1>2
  <2>2. Slot(i) # Slot(write_idx)  BY <1>1, <2>1, SlotsDiffer
  <2>3. Slot(i) \in 0 .. Size - 1  BY <2>1, SlotRange
  <2>4. fifo'[Slot(i)] = fifo[Slot(i)]  BY <1>1, <2>2, <2>3 DEF QueueStore
  <2> QED BY <1>5, <2>4 DEF Content
<1>6. Slot(write_idx)' = Slot(write_idx)  BY DEF QueueStore, Slot
<1>7. /\ read_idx' = read_idx /\ write_idx' = write_idx /\ cpu' = "index"
      /\ card' = card /\ engine' = engine
  BY DEF QueueStore, Goto, cardVars
<1>8. \A i \in (read_idx .. write_idx - 1)' : fifo'[Slot(i)] = i + 1
  BY <1>5, <1>7
<1> QED BY <1>4, <1>6, <1>7, <1>8 DEF Content

\* The late FIFO_INVALID hits none of them either.
LEMMA InvalidKeepsContent ==
    OneFree /\ LiveInv /\ Counts /\ Content /\ CardInvalid => Content'
<1> SUFFICES ASSUME OneFree, LiveInv, Counts, Content, CardInvalid PROVE Content'
  OBVIOUS
<1>1. /\ Size \in Nat /\ read_idx \in Nat /\ write_idx \in Nat
      /\ fifo \in [0 .. Size - 1 -> 0 .. Writes] /\ read_idx <= write_idx
  BY SizePositive DEF LiveInv, IdxOK, FifoTypeOK
<1>2. /\ write_idx - read_idx <= Size - 1
      /\ (cpu = "index" => write_idx - read_idx <= Size - 2)
  BY <1>1 DEF Counts, PrePop, CardInvalid, FIFO_ENTRIES
<1>3. read_idx - 1 \in Nat
  BY <1>1 DEF CardInvalid, LiveInv, IdxOK
<1>4. ASSUME NEW i \in read_idx .. write_idx,
             i = write_idx => cpu = "index"
      PROVE  fifo'[Slot(i)] = fifo[Slot(i)]
  <2>1. i \in Nat /\ read_idx - 1 < i /\ i - (read_idx - 1) < Size
    BY <1>1, <1>2, <1>4
  <2>2. Slot(read_idx - 1) # Slot(i)  BY <1>1, <1>3, <2>1, SlotsDiffer
  <2>3. Slot(i) \in 0 .. Size - 1  BY <2>1, SlotRange
  <2> QED BY <1>1, <2>2, <2>3 DEF CardInvalid
<1>5. /\ read_idx' = read_idx /\ write_idx' = write_idx /\ cpu' = cpu
      /\ card = "invalid" /\ card' = "entries" /\ engine' = engine
  BY DEF CardInvalid, At, cpuVars
<1>6. \A i \in (read_idx .. write_idx - 1)' : fifo'[Slot(i)] = i + 1
  BY <1>1, <1>4, <1>5 DEF Content
<1>7. Slot(write_idx)' = Slot(write_idx)  BY <1>5 DEF Slot
<1>8. cpu' = "index" => fifo'[Slot(write_idx)] = write_idx + 1
  BY <1>1, <1>4, <1>5 DEF Content
<1> QED BY <1>5, <1>6, <1>7, <1>8 DEF Content

\* What Content is about, but for the place of the two threads.
Ring == <<fifo, read_idx, write_idx, engine>>

LEMMA QuietKeepsContent ==
    ASSUME Content, UNCHANGED Ring,
           cpu' = "index" => cpu = "index",
           (card' = "index") <=> (card = "index")
    PROVE  Content'
BY DEF Content, Ring, Slot

LEMMA ContentStep ==
    OneFree /\ LiveInv /\ Counts /\ Content /\ [Next]_vars => Content'
<1> SUFFICES ASSUME OneFree, LiveInv, Counts, Content, [Next]_vars PROVE Content'
  OBVIOUS
<1>0. /\ Size \in Nat /\ read_idx \in Nat /\ write_idx \in Nat
      /\ read_idx <= write_idx
  BY SizePositive DEF LiveInv, IdxOK, FifoTypeOK
<1>1. CASE QueueStore  BY <1>1, StoreKeepsContent
<1>2. CASE CardInvalid  BY <1>2, InvalidKeepsContent
<1>3. CASE QueueIndex
  <2>1. /\ write_idx' = write_idx + 1 /\ cpu' = "entries" /\ cpu = "index"
        /\ fifo' = fifo /\ read_idx' = read_idx /\ card' = card
        /\ engine' = engine
    BY <1>3 DEF QueueIndex, Goto, cardVars
  <2>2. \A i \in (read_idx .. write_idx - 1)' : fifo'[Slot(i)] = i + 1
    <3> SUFFICES ASSUME NEW i \in read_idx .. write_idx
                 PROVE  fifo[Slot(i)] = i + 1
      BY <1>0, <2>1
    <3>1. CASE i = write_idx  BY <2>1, <3>1 DEF Content
    <3>2. CASE i # write_idx  BY <1>0, <3>2 DEF Content
    <3> QED BY <3>1, <3>2
  <2> QED BY <2>1, <2>2 DEF Content
<1>4. CASE CardExecute
  <2>1. /\ card = "execute" /\ card' = "index" /\ fifo' = fifo
        /\ read_idx' = read_idx /\ write_idx' = write_idx /\ cpu' = cpu
        /\ read_idx < write_idx
    BY <1>4 DEF CardExecute, At, cpuVars, LiveInv, IdxOK
  <2>2. fifo[Slot(read_idx)] = read_idx + 1  BY <1>0, <2>1 DEF Content
  <2>3. engine' = read_idx + 1
    BY <1>0, <1>4, <2>2 DEF CardExecute, FIFO_INVALID
  <2> QED BY <2>1, <2>3 DEF Content, Slot
<1>5. CASE CardIndex
  <2>1. /\ card = "index" /\ card' = "invalid" /\ fifo' = fifo
        /\ read_idx' = read_idx + 1 /\ write_idx' = write_idx /\ cpu' = cpu
        /\ engine' = engine
    BY <1>5 DEF CardIndex, At, cpuVars
  <2> QED BY <1>0, <2>1 DEF Content, Slot
<1>6. ASSUME \/ Queue \/ ReadRegister \/ ReadStatus \/ QueueReset
             \/ QueueCheckAgain \/ QueueRoom \/ QueueEntries \/ WakeFifoThread
             \/ WaitFifoIdle \/ WaitFifoNap
      PROVE  Content'
  <2>1. UNCHANGED Ring /\ card' = card /\ cpu' # "index"
    BY <1>6 DEF Queue, ReadRegister, ReadStatus, QueueReset, QueueCheckAgain,
                QueueRoom, QueueEntries, WakeFifoThread, WaitFifoIdle,
                WaitFifoNap, Goto, cardVars, Ring
  <2> QED BY <2>1, QuietKeepsContent
<1>7. ASSUME \/ CardReady \/ CardWait \/ CardReset \/ CardBusy \/ CardTest
             \/ CardEntries \/ CardSignal \/ CardFree
      PROVE  Content'
  <2>1. UNCHANGED Ring /\ cpu' = cpu /\ card # "index" /\ card' # "index"
    BY <1>7 DEF CardReady, CardWait, CardReset, CardBusy, CardTest, CardEntries,
                CardSignal, CardFree, At, cpuVars, Ring
  <2> QED BY <2>1, QuietKeepsContent
<1>8. CASE UNCHANGED vars
  BY <1>8, QuietKeepsContent DEF vars, cpuVars, cardVars, Ring
<1> QED BY <1>1, <1>2, <1>3, <1>4, <1>5, <1>6, <1>7, <1>8
        DEF Next, CpuNext, CpuResumes, CardNext

LEMMA CountsStep == OneFree /\ LiveInv /\ Counts /\ [Next]_vars => Counts'
<1>1. Counts /\ UNCHANGED vars => Counts'
  BY DEF Counts, FIFO_ENTRIES, vars, cpuVars, cardVars
<1> QED BY <1>1, CpuKeepsCounts, CardKeepsCounts DEF Next

RingInv == LiveInv /\ Counts /\ Content

LEMMA RingHolds ==
    ASSUME OneFree
    PROVE  Spec => []RingInv
<1>1. Init => RingInv
  BY LiveInit, CountsInit, ContentInit DEF RingInv
<1>2. RingInv /\ [Next]_vars => RingInv'
  BY LiveStep, CountsStep, ContentStep DEF RingInv
<1> QED BY <1>1, <1>2, PTL DEF Spec

-----------------------------------------------------------------------------
(* The refinement.                                                         *)

LEMMA StepImplements ==
    RingInv /\ RingInv' /\ [Next]_vars => [Ideal!AccNext]_(Ideal!card)
<1> SUFFICES ASSUME RingInv, RingInv', [Next]_vars
             PROVE  Ideal!AccNext \/ UNCHANGED <<write_idx, engine, seen>>
  BY DEF Ideal!card
<1>0. /\ read_idx \in Nat /\ write_idx \in Nat /\ engine \in Nat
  BY DEF RingInv, LiveInv, IdxOK, FifoTypeOK
<1>1. CASE QueueIndex
  <2>1. write_idx < Writes  BY <1>1 DEF QueueIndex, RingInv, LiveInv, IdxOK
  <2>2. Ideal!Write  BY <1>1, <2>1 DEF QueueIndex, cardVars, Ideal!Write
  <2> QED BY <2>2 DEF Ideal!AccNext
<1>2. CASE CardExecute
  <2>1. /\ card = "execute" /\ card' = "index" /\ read_idx' = read_idx
        /\ write_idx' = write_idx /\ seen' = seen
    BY <1>2 DEF CardExecute, At, cpuVars
  <2>2. engine = read_idx /\ read_idx < write_idx
    BY <2>1 DEF RingInv, LiveInv, IdxOK, Content
  <2>3. engine' = read_idx + 1
    BY <2>1 DEF RingInv, Content
  <2>4. Ideal!Execute  BY <2>1, <2>2, <2>3 DEF Ideal!Execute
  <2> QED BY <2>4 DEF Ideal!AccNext
<1>3. CASE WaitFifoIdle
  <2>1. CASE FIFO_EMPTY
    <3>1. engine = write_idx
      BY <1>0, <2>1 DEF RingInv, LiveInv, IdxOK, Content, FIFO_EMPTY
    <3>2. Ideal!ReadBack
      BY <1>3, <2>1, <3>1 DEF WaitFifoIdle, cardVars, Ideal!ReadBack
    <3> QED BY <3>2 DEF Ideal!AccNext
  <2>2. CASE ~FIFO_EMPTY
    BY <1>3, <2>2 DEF WaitFifoIdle, cardVars
  <2> QED BY <2>1, <2>2
<1>4. CASE Queue \/ ReadRegister \/ ReadStatus \/ QueueReset \/ QueueCheckAgain
           \/ QueueRoom \/ QueueStore \/ QueueEntries \/ WakeFifoThread
           \/ WaitFifoNap
  BY <1>4 DEF Queue, ReadRegister, ReadStatus, QueueReset, QueueCheckAgain,
              QueueRoom, QueueStore, QueueEntries, WakeFifoThread, WaitFifoNap,
              cardVars
<1>5. CASE CardReady \/ CardWait \/ CardReset \/ CardBusy \/ CardTest
           \/ CardIndex \/ CardInvalid \/ CardEntries \/ CardSignal \/ CardFree
  BY <1>5 DEF CardReady, CardWait, CardReset, CardBusy, CardTest, CardIndex,
              CardInvalid, CardEntries, CardSignal, CardFree, cpuVars
<1>6. CASE UNCHANGED vars  BY <1>6 DEF vars, cpuVars, cardVars
<1> QED BY <1>1, <1>2, <1>3, <1>4, <1>5, <1>6
        DEF Next, CpuNext, CpuResumes, CardNext

\* A ring with one slot kept free executes what the guest writes in order,
\* once, and shows all of it in a register that is read back: for every size
\* and threshold.
THEOREM RingImplements ==
    ASSUME OneFree
    PROVE  Spec => ImplementsAccelerator
<1>1. Init => Ideal!AccInit  BY DEF Init, Ideal!AccInit
<1> QED BY <1>1, RingHolds, StepImplements, PTL
        DEF Spec, ImplementsAccelerator, Ideal!AccSpec
=============================================================================
