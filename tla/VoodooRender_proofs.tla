------------------------- MODULE VoodooRender_proofs -------------------------
(***************************************************************************)
(* Proofs about VoodooRender, for rings and caches of every size and one   *)
(* or two render threads.  Queue says where the readers are in the ring    *)
(* and what it holds; Cache says what the texture cache holds, and that    *)
(* use counts count the triangles still to be drawn.                       *)
(***************************************************************************)
EXTENDS VoodooRender, FiniteSetTheorems, TLAPS

USE RenderAssumption, GoneAssumption DEF RenderAssumption

\* The writer is at most a ring ahead of each reader.
Ring ==
    /\ \A r \in Threads : read[r] <= write /\ write <= read[r] + ParamSize
    /\ \A r \in Threads : at[r] \in {"draw", "index"} => read[r] < write
    /\ fifo \in {"find", "store", "idle:find"} =>
         \A r \in Threads : write < read[r] + ParamSize

\* Each slot between a reader and the writer holds the triangle of its number.
Filled ==
    \A r \in Threads : \A i \in read[r] .. write - 1 : params[Slot(i)].n = i + 1

\* A thread that is not busy has seen its ring empty.
Quiet ==
    /\ \A r \in Threads : ~busy[r] => at[r] \in {"wait", "free"}
    /\ fifo = "fb" => \A r \in Threads : read[r] = write

Queue == RenderTypeOK /\ Ring /\ Filled /\ Quiet /\ RendererIsWoken

\* The triangles that a thread has still to draw, and those with a texture.
Pending(r) == {i \in read[r] .. write - 1 : at[r] = "index" => i # read[r]}
Uses(r, e) == {i \in Pending(r) : params[Slot(i)].entry = e}

\* The triangle in hand is counted before it is stored.
InHand(e) == IF fifo = "store" /\ tri.entry = e THEN 1 ELSE 0

Coherent ==
    /\ \A e \in Entries : base[e] # Gone =>
         data[e] = [t |-> base[e], version |-> memory[base[e]]]
    /\ fifo \in {"idle:upload", "upload"} => \A e \in Entries : base[e] # tri.t
    /\ fifo = "store" =>
         data[tri.entry] = [t |-> tri.t, version |-> memory[tri.t]]

AsQueued ==
    \A r \in Threads : \A i \in Pending(r) :
        data[params[Slot(i)].entry] = params[Slot(i)].tex

Counted ==
    \A r \in Threads, e \in Entries :
        refcount[e] = refcount_r[r][e] + Cardinality(Uses(r, e)) + InHand(e)

Cache == Coherent /\ AsQueued /\ Counted

(* Slots.                                                                  *)

LEMMA SlotRange == \A i \in Nat : Slot(i) \in 0 .. ParamSize - 1
BY DEF Slot

\* Two numbers less than ParamSize apart have different remainders.
LEMMA SlotsDiffer ==
    ASSUME NEW i \in Nat, NEW j \in Nat, i < j, j - i < ParamSize
    PROVE  Slot(i) # Slot(j)
<1>1. ParamSize \in Nat /\ ParamSize > 0  OBVIOUS
<1>2. PICK p \in Int : i = ParamSize * p + (i % ParamSize)
  <2>1. i = ParamSize * (i \div ParamSize) + (i % ParamSize)  BY <1>1
  <2>2. i \div ParamSize \in Int  BY <1>1
  <2> QED BY <2>1, <2>2
<1>3. PICK q \in Int : j = ParamSize * q + (j % ParamSize)
  <2>1. j = ParamSize * (j \div ParamSize) + (j % ParamSize)  BY <1>1
  <2>2. j \div ParamSize \in Int  BY <1>1
  <2> QED BY <2>1, <2>2
<1>4. SUFFICES ASSUME i % ParamSize = j % ParamSize PROVE FALSE  BY DEF Slot
<1>5. j - i = ParamSize * (q - p)
  <2>1. ParamSize * (q - p) = ParamSize * q - ParamSize * p  BY <1>1
  <2>2. i % ParamSize \in Int  BY <1>1
  <2> QED BY <1>1, <1>2, <1>3, <1>4, <2>1, <2>2
<1>6. q - p > 0
  <2>1. ASSUME q - p <= 0 PROVE FALSE
    <3>1. \A s, d \in Int : s > 0 /\ d <= 0 => s * d <= 0  OBVIOUS
    <3> QED BY <1>1, <1>5, <2>1, <3>1
  <2> QED BY <2>1
<1>7. ParamSize * (q - p) >= ParamSize
  <2>1. \A s, d \in Int : s > 0 /\ d > 0 => s * d >= s  OBVIOUS
  <2> QED BY <1>1, <1>6, <2>1
<1> QED BY <1>1, <1>5, <1>7

LEMMA UpdateType ==
    ASSUME NEW D, NEW R, NEW f \in [D -> R], NEW x, NEW v \in R
    PROVE  [f EXCEPT ![x] = v] \in [D -> R]
OBVIOUS

(* Types.                                                                  *)

LEMMA TypeInit == Init => RenderTypeOK
<1> SUFFICES ASSUME Init PROVE RenderTypeOK
  OBVIOUS
<1>1. busy \in [Threads -> BOOLEAN] /\ not_full \in [Threads -> BOOLEAN]
      /\ wake \in [Threads -> BOOLEAN]
  BY Zenon DEF Init
<1>2. NoTexture \in Contents  BY DEF NoTexture, Contents
<1>3. params \in [0 .. ParamSize - 1 ->
                    [n : Nat, entry : Entries, tex : Contents]]
  BY <1>2 DEF Init
<1>4. at \in [Threads -> RenderStates] /\ fifo \in FifoStates /\ fifo # "wait"
      /\ turn \in 1 .. NThreads + 1 /\ write \in Nat /\ read \in [Threads -> Nat]
  BY DEF Init, RenderStates, FifoStates
<1>5. base \in [Entries -> Textures \cup {Gone}] /\ data \in [Entries -> Contents]
      /\ memory \in [Textures -> Nat] /\ count \in Nat
  BY <1>2 DEF Init
<1>6. refcount \in [Entries -> Nat] /\ refcount_r \in [Threads -> [Entries -> Nat]]
  BY DEF Init
<1>7. tri \in [t : Textures, entry : Entries]  BY DEF Init
<1> QED BY <1>1, <1>3, <1>4, <1>5, <1>6, <1>7 DEF RenderTypeOK

LEMMA Successor == \A n \in Nat : n + 1 \in Nat
OBVIOUS

LEMMA FifoKeepsType == RenderTypeOK /\ FifoNext => RenderTypeOK'
<1> SUFFICES ASSUME RenderTypeOK, FifoNext PROVE RenderTypeOK'
  OBVIOUS
<1>a. count + 1 \in Nat /\ write + 1 \in Nat
  BY Successor DEF RenderTypeOK
<1>b. ASSUME NEW e \in Entries
      PROVE  [refcount EXCEPT ![e] = @ + 1] \in [Entries -> Nat]
  <2>1. refcount \in [Entries -> Nat]  BY DEF RenderTypeOK
  <2> QED BY <2>1, Successor, UpdateType
<1> USE DEF RenderTypeOK, FifoStates, IdleWaits, ring, cache, renderVars, Goto
<1>1. ASSUME NEW t \in Textures, Triangle(t) PROVE RenderTypeOK'
  <2>1. tri' \in [t : Textures, entry : Entries]  BY <1>1 DEF Triangle
  <2>2. count' \in Nat  BY <1>1, <1>a DEF Triangle
  <2> QED BY <1>1, <2>1, <2>2 DEF Triangle
<1>2. ASSUME NEW t \in Textures, WriteTexture(t) PROVE RenderTypeOK'
  <2>3. count' \in Nat  BY <1>2, <1>a DEF WriteTexture
  <2>1. base' \in [Entries -> Textures \cup {Gone}]  BY <1>2 DEF WriteTexture
  <2>2. tri' \in [t : Textures, entry : Entries]  BY <1>2 DEF WriteTexture
  <2> QED BY <1>2, <2>1, <2>2, <2>3 DEF WriteTexture
<1>3. CASE AccessFramebuffer  BY <1>3 DEF AccessFramebuffer
<1>4. CASE QueueFull  BY <1>4 DEF QueueFull
<1>5. CASE QueueReset
  <2>1. not_full' \in [Threads -> BOOLEAN]  BY <1>5, Zenon DEF QueueReset
  <2> QED BY <1>5, <2>1 DEF QueueReset
<1>6. CASE QueueLook
  <2>1. NThreads \in Nat /\ (turn \in Threads => turn + 1 \in 1 .. NThreads + 1)
    BY DEF Threads
  <2>2. turn' \in 1 .. NThreads + 1
    <3>1. turn \notin Threads => turn' = 1  BY <1>6 DEF QueueLook
    <3>2. turn \in Threads => turn' \in {turn, turn + 1}  BY <1>6 DEF QueueLook
    <3>3. turn \in 1 .. NThreads + 1 /\ NThreads \in Nat  OBVIOUS
    <3> HIDE DEF RenderTypeOK
    <3> QED BY <2>1, <3>1, <3>2, <3>3
  <2>3. fifo' = "wait" => turn' \in Threads  BY <1>6 DEF QueueLook
  <2>4. fifo' \in FifoStates  BY <1>6 DEF QueueLook
  <2> QED BY <1>6, <2>2, <2>3, <2>4 DEF QueueLook
<1>7. CASE QueueWait
  <2>1. not_full' \in [Threads -> BOOLEAN]  BY <1>7, Zenon DEF QueueWait
  <2>2. turn' \in 1 .. NThreads + 1
    <3>1. turn \in Threads /\ turn' = turn + 1  BY <1>7 DEF QueueWait
    <3>2. NThreads \in Nat  OBVIOUS
    <3> HIDE DEF RenderTypeOK
    <3> QED BY <3>1, <3>2 DEF Threads
  <2> QED BY <1>7, <2>1, <2>2 DEF QueueWait
<1>8. ASSUME NEW e \in Entries, TextureFound(e) PROVE RenderTypeOK'
  <2>1. refcount' \in [Entries -> Nat] /\ tri' \in [t : Textures, entry : Entries]
    BY <1>8, <1>b DEF TextureFound
  <2> QED BY <1>8, <2>1 DEF TextureFound
<1>9. ASSUME NEW e \in Entries, TextureTakes(e) PROVE RenderTypeOK'
  <2>1. refcount' \in [Entries -> Nat] /\ tri' \in [t : Textures, entry : Entries]
    BY <1>9, <1>b DEF TextureTakes
  <2>2. [t |-> tri.t, version |-> memory[tri.t]] \in Contents  BY DEF Contents
  <2>3. base' \in [Entries -> Textures \cup {Gone}] /\ data' \in [Entries -> Contents]
    BY <1>9, <2>2 DEF TextureTakes
  <2> QED BY <1>9, <2>1, <2>3 DEF TextureTakes
<1>10. CASE TextureCacheFull  BY <1>10 DEF TextureCacheFull
<1>11. CASE QueueStore
  <2>1. [t |-> tri.t, version |-> memory[tri.t]] \in Contents  BY DEF Contents
  <2>2. params' \in [0 .. ParamSize - 1 ->
                       [n : Nat, entry : Entries, tex : Contents]]
    BY <1>11, <1>a, <2>1, UpdateType DEF QueueStore
  <2>3. write' \in Nat  BY <1>11, <1>a DEF QueueStore
  <2> QED BY <1>11, <2>2, <2>3 DEF QueueStore
<1>12. CASE QueueEntries
  <2>1. wake' \in [Threads -> BOOLEAN]
    BY <1>12, Zenon DEF QueueEntries, WakeRenderThread
  <2> QED BY <1>12, <2>1 DEF QueueEntries
<1>13. CASE Framebuffer  BY <1>13 DEF Framebuffer
<1>14. CASE Upload
  <2>1. memory \in [Textures -> Nat]  OBVIOUS
  <2>2. memory' \in [Textures -> Nat]
    BY <1>14, <2>1, Successor, UpdateType DEF Upload
  <2> QED BY <1>14, <2>2 DEF Upload
<1>15. CASE WaitRenderIdle
  <2>1. wake' \in [Threads -> BOOLEAN] /\ not_full' \in [Threads -> BOOLEAN]
    BY <1>15, Zenon DEF WaitRenderIdle, WakeRenderThread
  <2> QED BY <1>15, <2>1 DEF WaitRenderIdle, fifoVars
<1>16. CASE RenderIdle  BY <1>16 DEF RenderIdle, AfterIdle
<1> QED BY <1>1, <1>2, <1>3, <1>4, <1>5, <1>6, <1>7, <1>8, <1>9, <1>10, <1>11,
           <1>12, <1>13, <1>14, <1>15, <1>16 DEF FifoNext, FifoResumes

LEMMA RenderKeepsType ==
    ASSUME RenderTypeOK, NEW r \in Threads, RenderNext(r) PROVE RenderTypeOK'
<1> USE DEF RenderTypeOK, RenderStates, ring, cache, fifoVars, From, To
<1>1. CASE RenderWait(r)
  <2>1. wake' \in [Threads -> BOOLEAN] /\ busy' \in [Threads -> BOOLEAN]
    BY <1>1, Zenon DEF RenderWait
  <2> QED BY <1>1, <2>1 DEF RenderWait
<1>2. CASE RenderTest(r)  BY <1>2 DEF RenderTest
<1>3. CASE RenderDraw(r)
  <2> DEFINE e == params[Slot(read[r])].entry
  <2>1. e \in Entries  BY SlotRange
  <2> DEFINE more == [refcount_r[r] EXCEPT ![e] = @ + 1]
  <2>2. more \in [Entries -> Nat]
    <3>1. refcount_r[r] \in [Entries -> Nat]  OBVIOUS
    <3> QED BY <2>1, <3>1, Successor, UpdateType
  <2>3. refcount_r' = [refcount_r EXCEPT ![r] = more]
    BY <1>3 DEF RenderDraw
  <2>4. refcount_r' \in [Threads -> [Entries -> Nat]]
    BY <2>2, <2>3, UpdateType
  <2> QED BY <1>3, <2>4 DEF RenderDraw
<1>4. CASE RenderIndex(r)
  <2>1. read \in [Threads -> Nat]  OBVIOUS
  <2>2. read' \in [Threads -> Nat]
    BY <1>4, <2>1, Successor, UpdateType DEF RenderIndex
  <2> QED BY <1>4, <2>2 DEF RenderIndex
<1>5. CASE RenderEntries(r)
  <2>1. not_full' \in [Threads -> BOOLEAN]  BY <1>5, Zenon DEF RenderEntries
  <2> QED BY <1>5, <2>1 DEF RenderEntries
<1>6. CASE RenderFree(r)
  <2>1. not_full' \in [Threads -> BOOLEAN] /\ busy' \in [Threads -> BOOLEAN]
    BY <1>6, Zenon DEF RenderFree
  <2> QED BY <1>6, <2>1 DEF RenderFree
<1> QED BY <1>1, <1>2, <1>3, <1>4, <1>5, <1>6 DEF RenderNext

LEMMA TypeStep == RenderTypeOK /\ [Next]_vars => RenderTypeOK'
<1> SUFFICES ASSUME RenderTypeOK, [Next]_vars PROVE RenderTypeOK'
  OBVIOUS
<1>1. CASE FifoNext  BY <1>1, FifoKeepsType
<1>2. ASSUME NEW r \in Threads, RenderNext(r) PROVE RenderTypeOK'
  BY <1>2, RenderKeepsType
<1>3. CASE UNCHANGED vars
  BY <1>3 DEF vars, fifoVars, renderVars, ring, cache, RenderTypeOK
<1> QED BY <1>1, <1>2, <1>3 DEF Next

\* Every variable keeps its type: no slot but those of the ring is read, and
\* the entries of the cache that triangles name exist.
THEOREM RenderTypeCorrect == Spec => []RenderTypeOK
<1>1. Init => RenderTypeOK  BY TypeInit
<1>2. RenderTypeOK /\ [Next]_vars => RenderTypeOK'  BY TypeStep
<1> QED BY <1>1, <1>2, PTL DEF Spec

(* The ring.                                                               *)

LEMMA RingInit == Init => Ring /\ Filled /\ Quiet /\ RendererIsWoken
<1> SUFFICES ASSUME Init PROVE Ring /\ Filled /\ Quiet /\ RendererIsWoken
  OBVIOUS
<1> QED BY DEF Init, Ring, Filled, Quiet, RendererIsWoken, PARAM_EMPTY

\* Of the FIFO thread's steps only QueueStore writes the ring.
LEMMA FifoKeepsRing ==
    ASSUME RenderTypeOK, Ring, Filled, Quiet, RendererIsWoken, FifoNext
    PROVE  Ring' /\ Filled' /\ Quiet' /\ RendererIsWoken'
<1> DEFINE Good == Ring /\ Filled /\ Quiet /\ RendererIsWoken
<1> USE DEF IdleWaits, ring, cache, renderVars, Goto
<1>1. ASSUME UNCHANGED <<params, write, read, busy, at>>,
             fifo' \notin {"find", "store", "idle:find", "fb", "entries"},
             UNCHANGED wake, fifo # "entries"
      PROVE  Good'
  BY <1>1 DEF Ring, Filled, Quiet, RendererIsWoken, PARAM_ENTRIES, PARAM_EMPTY
<1>2. ASSUME NEW t \in Textures, Triangle(t) PROVE Good'
  BY <1>1, <1>2 DEF Triangle
<1>3. ASSUME NEW t \in Textures, WriteTexture(t) PROVE Good'
  BY <1>1, <1>3 DEF WriteTexture
<1>4. CASE AccessFramebuffer  BY <1>1, <1>4 DEF AccessFramebuffer
<1>5. CASE QueueFull
  <2>1. CASE \E r \in Threads : PARAM_FULL(r)
    BY <1>1, <1>5, <2>1 DEF QueueFull
  <2>2. CASE \A r \in Threads : ~PARAM_FULL(r)
    BY <1>5, <2>2 DEF QueueFull, PARAM_FULL, PARAM_ENTRIES, PARAM_EMPTY,
                      RenderTypeOK, Ring, Filled, Quiet, RendererIsWoken
  <2> QED BY <2>1, <2>2
<1>6. CASE QueueReset  BY <1>1, <1>6 DEF QueueReset
<1>7. CASE QueueLook   BY <1>1, <1>7 DEF QueueLook
<1>8. CASE QueueWait   BY <1>1, <1>8 DEF QueueWait
<1>9. ASSUME UNCHANGED <<params, write, read, busy, at, wake>>,
             fifo \in {"find", "idle:find"},
             fifo' \in {"find", "store", "idle:find"}
      PROVE  Good'
  BY <1>9 DEF Ring, Filled, Quiet, RendererIsWoken, PARAM_ENTRIES, PARAM_EMPTY
<1>10. ASSUME NEW e \in Entries, TextureFound(e) PROVE Good'
  BY <1>9, <1>10 DEF TextureFound
<1>11. ASSUME NEW e \in Entries, TextureTakes(e) PROVE Good'
  BY <1>9, <1>11 DEF TextureTakes
<1>12. CASE TextureCacheFull  BY <1>9, <1>12 DEF TextureCacheFull
<1>13. CASE QueueStore
  <2> USE <1>13 DEF QueueStore
  <2>1. /\ write \in Nat
        /\ \A r \in Threads : /\ read[r] \in Nat /\ read[r] <= write
                              /\ write < read[r] + ParamSize
    BY DEF RenderTypeOK, Ring
  <2>2. Ring' /\ Quiet'  BY <2>1 DEF Ring, Quiet
  <2>3. ASSUME NEW r \in Threads, NEW i \in read[r] .. write
        PROVE  params'[Slot(i)].n = i + 1
    <3>1. Slot(write) \in 0 .. ParamSize - 1  BY <2>1, SlotRange
    <3>2. CASE i = write  BY <2>1, <3>1, <3>2 DEF RenderTypeOK
    <3>3. CASE i # write
      <4>1. Slot(i) # Slot(write)  BY <2>1, <3>3, SlotsDiffer
      <4>2. params[Slot(i)].n = i + 1  BY <2>1, <3>3 DEF Filled
      <4>3. Slot(i) \in 0 .. ParamSize - 1  BY <2>1, SlotRange
      <4> QED BY <4>1, <4>2, <4>3 DEF RenderTypeOK
    <3> QED BY <3>2, <3>3
  <2>4. Filled'  BY <2>1, <2>3 DEF Filled
  <2>5. RendererIsWoken'
    BY <2>1 DEF RendererIsWoken, PARAM_ENTRIES, PARAM_EMPTY
  <2> QED BY <2>2, <2>4, <2>5
<1>14. CASE QueueEntries
  <2>1. Ring' /\ Filled' /\ Quiet'  BY <1>14 DEF QueueEntries, Ring, Filled, Quiet
  <2>2. RendererIsWoken'
    BY <1>14 DEF QueueEntries, WakeRenderThread, RendererIsWoken, PARAM_ENTRIES,
                 PARAM_EMPTY
  <2> QED BY <2>1, <2>2
<1>15. CASE Framebuffer  BY <1>1, <1>15 DEF Framebuffer
<1>16. CASE Upload       BY <1>1, <1>16 DEF Upload
<1>17. CASE WaitRenderIdle
  BY <1>17 DEF WaitRenderIdle, WakeRenderThread, fifoVars, Ring, Filled, Quiet,
               RendererIsWoken, PARAM_ENTRIES, PARAM_EMPTY
<1>18. CASE RenderIdle
  <2>1. CASE fifo = "idle:upload"  BY <1>1, <1>18, <2>1 DEF RenderIdle, AfterIdle
  <2>2. CASE fifo = "idle:find"    BY <1>9, <1>18, <2>2 DEF RenderIdle, AfterIdle
  <2>3. CASE fifo = "idle:fb"
    BY <1>18, <2>3 DEF RenderIdle, AfterIdle, Working, Ring, Filled, Quiet,
                       RendererIsWoken, PARAM_ENTRIES, PARAM_EMPTY
  <2> QED BY <1>18, <2>1, <2>2, <2>3 DEF RenderIdle
<1> QED BY <1>2, <1>3, <1>4, <1>5, <1>6, <1>7, <1>8, <1>10, <1>11, <1>12, <1>13,
           <1>14, <1>15, <1>16, <1>17, <1>18 DEF FifoNext, FifoResumes

LEMMA RenderKeepsRing ==
    ASSUME RenderTypeOK, Ring, Filled, Quiet, RendererIsWoken,
           NEW r \in Threads, RenderNext(r)
    PROVE  Ring' /\ Filled' /\ Quiet' /\ RendererIsWoken'
<1>a. write \in Nat /\ at \in [Threads -> RenderStates]
      /\ read \in [Threads -> Nat] /\ busy \in [Threads -> BOOLEAN]
      /\ wake \in [Threads -> BOOLEAN]
  BY DEF RenderTypeOK
<1>b. \A x \in Threads : read[x] \in Nat  BY <1>a
<1> USE <1>a, <1>b DEF Ring, Filled, Quiet, RendererIsWoken, PARAM_ENTRIES,
            PARAM_EMPTY, ring, fifoVars, From, To
<1>1. CASE RenderWait(r)     BY <1>1 DEF RenderWait
<1>2. CASE RenderTest(r)     BY <1>2 DEF RenderTest
<1>3. CASE RenderDraw(r)     BY <1>3 DEF RenderDraw
<1>4. CASE RenderIndex(r)    BY <1>4 DEF RenderIndex
<1>5. CASE RenderEntries(r)  BY <1>5 DEF RenderEntries
<1>6. CASE RenderFree(r)     BY <1>6 DEF RenderFree
<1> QED BY <1>1, <1>2, <1>3, <1>4, <1>5, <1>6 DEF RenderNext

LEMMA QueueInit == Init => Queue
BY TypeInit, RingInit DEF Queue

LEMMA QueueStep == Queue /\ [Next]_vars => Queue'
<1> SUFFICES ASSUME Queue, [Next]_vars PROVE Queue'
  OBVIOUS
<1>1. RenderTypeOK'  BY TypeStep DEF Queue
<1>2. CASE FifoNext  BY <1>1, <1>2, FifoKeepsRing DEF Queue
<1>3. ASSUME NEW r \in Threads, RenderNext(r) PROVE Queue'
  BY <1>1, <1>3, RenderKeepsRing DEF Queue
<1>4. CASE UNCHANGED vars
  BY <1>1, <1>4 DEF vars, fifoVars, renderVars, ring, Queue, Ring, Filled, Quiet,
                    RendererIsWoken, PARAM_ENTRIES, PARAM_EMPTY
<1> QED BY <1>2, <1>3, <1>4 DEF Next

\* The faster thread never lets the FIFO thread overwrite what the slower one
\* has yet to draw (queue_triangle waits until no ring is full).
THEOREM RenderParamsAsQueued == Spec => []ParamsAsQueued
<1>1. Queue => ParamsAsQueued
  <2> SUFFICES ASSUME Queue, NEW r \in Threads, at[r] = "draw"
               PROVE  params[Slot(read[r])].n = read[r] + 1
    BY DEF ParamsAsQueued
  <2>1. read[r] \in Nat /\ write \in Nat  BY DEF Queue, RenderTypeOK
  <2>2. read[r] \in read[r] .. write - 1  BY <2>1 DEF Queue, Ring
  <2> QED BY <2>2 DEF Queue, Filled
<1> QED BY <1>1, QueueInit, QueueStep, PTL DEF Spec

\* wait_for_render_thread_idle returns only when both threads have drawn
\* everything: the frame buffer and the swap come after all triangles.
THEOREM RenderFramebufferQuiet == Spec => []FramebufferQuiet
<1>1. Queue => FramebufferQuiet
  BY DEF Queue, RenderTypeOK, Ring, Quiet, FramebufferQuiet
<1> QED BY <1>1, QueueInit, QueueStep, PTL DEF Spec

\* A render thread that sleeps while its ring holds triangles has its event
\* set, or queue_triangle is about to set it.
THEOREM RenderRendererIsWoken == Spec => []RendererIsWoken
<1>1. Queue => RendererIsWoken  BY DEF Queue
<1> QED BY <1>1, QueueInit, QueueStep, PTL DEF Spec

(* The texture cache.                                                      *)

LEMMA UsesFinite ==
    ASSUME RenderTypeOK, NEW r \in Threads, NEW e \in Entries
    PROVE  /\ IsFiniteSet(Uses(r, e)) /\ Cardinality(Uses(r, e)) \in Nat
           /\ refcount[e] \in Nat /\ refcount_r[r][e] \in Nat
<1>1. read[r] \in Int /\ write - 1 \in Int  BY DEF RenderTypeOK
<1>2. IsFiniteSet(read[r] .. write - 1)  BY <1>1, FS_Interval
<1>3. Uses(r, e) \subseteq read[r] .. write - 1  BY DEF Uses, Pending
<1>4. IsFiniteSet(Uses(r, e))  BY <1>2, <1>3, FS_Subset
<1>5. Cardinality(Uses(r, e)) \in Nat  BY <1>4, FS_CardinalityType
<1>6. refcount \in [Entries -> Nat] /\ refcount_r \in [Threads -> [Entries -> Nat]]
  BY DEF RenderTypeOK
<1>7. refcount[e] \in Nat /\ refcount_r[r] \in [Entries -> Nat]  BY <1>6
<1>8. refcount_r[r][e] \in Nat  BY <1>7
<1> QED BY <1>4, <1>5, <1>7, <1>8

LEMMA CacheInit == Init => Cache
<1> SUFFICES ASSUME Init PROVE Cache
  OBVIOUS
<1>1. \A r \in Threads : Pending(r) = {}  BY DEF Init, Pending
<1>2. \A r \in Threads, e \in Entries : Uses(r, e) = {}  BY <1>1 DEF Uses
<1>3. Cardinality({}) = 0  BY FS_EmptySet
<1>4. Coherent  BY DEF Init, Coherent
<1>5. AsQueued  BY <1>1 DEF AsQueued
<1>6. Counted
  <2>1. \A r \in Threads, e \in Entries :
          refcount[e] = 0 /\ refcount_r[r][e] = 0 /\ InHand(e) = 0
    BY DEF Init, InHand
  <2> QED BY <1>2, <1>3, <2>1 DEF Counted
<1> QED BY <1>4, <1>5, <1>6 DEF Cache

\* What is pending depends on the ring and on who is about to step its index.
LEMMA SamePending ==
    ASSUME UNCHANGED <<params, write, read, at>>
    PROVE  /\ \A r : Pending(r)' = Pending(r)
           /\ \A r, e : Uses(r, e)' = Uses(r, e)
<1>1. \A r : Pending(r)' = Pending(r)  BY DEF Pending
<1> QED BY <1>1 DEF Uses

\* Steps of the FIFO thread that touch neither the ring nor the use counts.
LEMMA SameUses ==
    ASSUME Cache, UNCHANGED <<params, write, read, at, data, refcount, refcount_r>>,
           fifo # "store", fifo' # "store"
    PROVE  AsQueued' /\ Counted'
<1>1. AsQueued'  BY SamePending DEF Cache, AsQueued
<1>2. Counted'   BY SamePending DEF Cache, Counted, InHand
<1> QED BY <1>1, <1>2

\* The triangle in hand is counted: its entry has one more use.
LEMMA OneMoreUse ==
    ASSUME RenderTypeOK, Cache, NEW e \in Entries, fifo = "find", fifo' = "store",
           tri'.entry = e, refcount' = [refcount EXCEPT ![e] = @ + 1],
           UNCHANGED <<params, write, read, at, refcount_r>>
    PROVE  Counted'
<1> SUFFICES ASSUME NEW r \in Threads, NEW x \in Entries
             PROVE  refcount'[x] = refcount_r[r][x] + Cardinality(Uses(r, x))
                                   + InHand(x)'
  BY SamePending DEF Counted
<1>1. refcount[x] \in Nat /\ refcount_r[r][x] \in Nat
      /\ Cardinality(Uses(r, x)) \in Nat
  BY UsesFinite
<1>2. refcount[x] = refcount_r[r][x] + Cardinality(Uses(r, x)) + 0
  BY DEF Cache, Counted, InHand
<1>3. CASE x = e
  <2>1. InHand(x)' = 1  BY <1>3 DEF InHand
  <2>2. refcount'[x] = refcount[x] + 1  BY <1>3 DEF RenderTypeOK
  <2> QED BY <1>1, <1>2, <2>1, <2>2
<1>4. CASE x # e
  <2>1. InHand(x)' = 0  BY <1>4 DEF InHand
  <2>2. refcount'[x] = refcount[x]  BY <1>4 DEF RenderTypeOK
  <2> QED BY <1>1, <1>2, <2>1, <2>2
<1> QED BY <1>3, <1>4

LEMMA FoundKeepsCache ==
    ASSUME Queue, Cache, NEW e \in Entries, TextureFound(e) PROVE Cache'
<1> USE DEF TextureFound, Goto, ring, renderVars
<1>1. tri'.entry = e /\ tri'.t = tri.t /\ tri.t \in Textures
  BY DEF Queue, RenderTypeOK
<1>2. Coherent'  BY <1>1 DEF Cache, Coherent
<1>3. AsQueued'  BY SamePending DEF Cache, AsQueued
<1>4. Counted'   BY <1>1, OneMoreUse DEF Queue
<1> QED BY <1>2, <1>3, <1>4 DEF Cache

\* No thread still has to draw with an entry whose use counts agree.
LEMMA UnusedHasNoUses ==
    ASSUME RenderTypeOK, Cache, NEW e \in Entries, fifo = "find", Unused(e),
           NEW r \in Threads
    PROVE  Uses(r, e) = {}
<1>1. refcount[e] \in Nat /\ Cardinality(Uses(r, e)) \in Nat
      /\ IsFiniteSet(Uses(r, e))
  BY UsesFinite
<1>2. refcount[e] = refcount_r[r][e] + Cardinality(Uses(r, e)) + 0
  BY DEF Cache, Counted, InHand
<1>3. refcount[e] = refcount_r[r][e]  BY DEF Unused
<1>4. Cardinality(Uses(r, e)) = 0  BY <1>1, <1>2, <1>3
<1> QED BY <1>1, <1>4, FS_EmptySet

LEMMA TakesKeepsCache ==
    ASSUME Queue, Cache, NEW e \in Entries, TextureTakes(e) PROVE Cache'
<1> USE DEF TextureTakes, Goto, ring, renderVars
<1>1. /\ tri'.entry = e /\ tri'.t = tri.t /\ tri.t \in Textures
      /\ base'[e] = tri.t
      /\ data'[e] = [t |-> tri.t, version |-> memory[tri.t]]
      /\ \A x \in Entries : x # e => data'[x] = data[x] /\ base'[x] = base[x]
  BY DEF Queue, RenderTypeOK
<1>2. Coherent'  BY <1>1 DEF Cache, Coherent
<1>3. AsQueued'
  <2> SUFFICES ASSUME NEW r \in Threads, NEW i \in Pending(r)
               PROVE  data'[params[Slot(i)].entry] = params[Slot(i)].tex
    BY SamePending DEF AsQueued
  <2>1. params[Slot(i)].entry # e
    <3>1. Uses(r, e) = {}  BY UnusedHasNoUses DEF Queue
    <3> QED BY <3>1 DEF Uses
  <2>2. params[Slot(i)].entry \in Entries
    <3>1. i \in Nat  BY DEF Pending, Queue, RenderTypeOK
    <3>2. Slot(i) \in 0 .. ParamSize - 1  BY <3>1, SlotRange
    <3> QED BY <3>2 DEF Queue, RenderTypeOK
  <2> QED BY <1>1, <2>1, <2>2 DEF Cache, AsQueued
<1>4. Counted'  BY <1>1, OneMoreUse DEF Queue
<1> QED BY <1>2, <1>3, <1>4 DEF Cache

LEMMA StoreKeepsCache ==
    ASSUME Queue, Cache, QueueStore PROVE Cache'
<1> USE DEF QueueStore, Goto, cache, renderVars
<1>1. /\ write \in Nat /\ Slot(write) \in 0 .. ParamSize - 1
      /\ \A r \in Threads : /\ read[r] \in Nat /\ read[r] <= write
                            /\ write < read[r] + ParamSize
                            /\ at[r] = "index" => write # read[r]
  <2>1. write \in Nat  BY DEF Queue, RenderTypeOK
  <2>2. Slot(write) \in 0 .. ParamSize - 1  BY <2>1, SlotRange
  <2>3. ASSUME NEW r \in Threads
        PROVE  /\ read[r] \in Nat /\ read[r] <= write
               /\ write < read[r] + ParamSize
               /\ at[r] = "index" => write # read[r]
    <3>1. read[r] \in Nat  BY DEF Queue, RenderTypeOK
    <3> QED BY <2>1, <3>1 DEF Queue, Ring
  <2> QED BY <2>1, <2>2, <2>3
<1>2. params'[Slot(write)].entry = tri.entry /\ tri.entry \in Entries
      /\ params'[Slot(write)].tex = [t |-> tri.t, version |-> memory[tri.t]]
  BY <1>1 DEF Queue, RenderTypeOK
<1>3. ASSUME NEW r \in Threads, NEW i \in Pending(r)
      PROVE  params'[Slot(i)] = params[Slot(i)] /\ i # write
  <2>1. i \in Nat /\ i < write /\ write - i < ParamSize  BY <1>1 DEF Pending
  <2>2. Slot(i) # Slot(write)  BY <1>1, <2>1, SlotsDiffer
  <2>3. Slot(i) \in 0 .. ParamSize - 1  BY <2>1, SlotRange
  <2> QED BY <2>1, <2>2, <2>3 DEF Queue, RenderTypeOK
<1>4. ASSUME NEW r \in Threads PROVE Pending(r)' = Pending(r) \cup {write}
  BY <1>1 DEF Pending
<1>5. Coherent'  BY DEF Cache, Coherent
<1>6. AsQueued'
  <2>1. data[tri.entry] = [t |-> tri.t, version |-> memory[tri.t]]
    BY DEF Cache, Coherent
  <2> SUFFICES ASSUME NEW r \in Threads, NEW i \in Pending(r) \cup {write}
               PROVE  data[params'[Slot(i)].entry] = params'[Slot(i)].tex
    BY <1>4 DEF AsQueued
  <2>2. CASE i = write  BY <1>2, <2>1, <2>2
  <2>3. CASE i \in Pending(r)  BY <1>3, <2>3 DEF Cache, AsQueued
  <2> QED BY <2>2, <2>3
<1>7. Counted'
  <2> SUFFICES ASSUME NEW r \in Threads, NEW e \in Entries
               PROVE  refcount[e] = refcount_r[r][e] + Cardinality(Uses(r, e)')
                                    + InHand(e)'
    BY DEF Counted
  <2>1. refcount[e] \in Nat /\ refcount_r[r][e] \in Nat
        /\ Cardinality(Uses(r, e)) \in Nat /\ IsFiniteSet(Uses(r, e))
    BY UsesFinite DEF Queue
  <2>2. refcount[e] = refcount_r[r][e] + Cardinality(Uses(r, e)) + InHand(e)
    BY DEF Cache, Counted
  <2>3. InHand(e)' = 0  BY DEF InHand
  <2>4. Uses(r, e)' = {i \in Pending(r) \cup {write} : params'[Slot(i)].entry = e}
    BY <1>4 DEF Uses
  <2>5. CASE e = tri.entry
    <3>1. Uses(r, e)' = Uses(r, e) \cup {write}
      BY <1>2, <1>3, <2>4, <2>5 DEF Uses
    <3>2. write \notin Uses(r, e)  BY <1>3 DEF Uses
    <3>3. Cardinality(Uses(r, e)') = Cardinality(Uses(r, e)) + 1
      BY <2>1, <3>1, <3>2, FS_AddElement
    <3>4. InHand(e) = 1  BY <2>5 DEF InHand
    <3> QED BY <2>1, <2>2, <2>3, <3>3, <3>4
  <2>6. CASE e # tri.entry
    <3>1. Uses(r, e)' = Uses(r, e)  BY <1>2, <1>3, <2>4, <2>6 DEF Uses
    <3>2. InHand(e) = 0  BY <2>6 DEF InHand
    <3> QED BY <2>1, <2>2, <2>3, <3>1, <3>2
  <2> QED BY <2>5, <2>6
<1> QED BY <1>5, <1>6, <1>7 DEF Cache

LEMMA DrawKeepsCache ==
    ASSUME Queue, Cache, NEW r \in Threads, RenderDraw(r) PROVE Cache'
<1> USE DEF RenderDraw, From, To, fifoVars, ring, cache
<1> DEFINE d == params[Slot(read[r])].entry
<1>1. read[r] \in Nat /\ write \in Nat /\ read[r] < write /\ at[r] = "draw"
      /\ d \in Entries
  <2>1. read[r] \in Nat /\ write \in Nat  BY DEF Queue, RenderTypeOK
  <2>2. Slot(read[r]) \in 0 .. ParamSize - 1  BY <2>1, SlotRange
  <2> QED BY <2>1, <2>2 DEF Queue, RenderTypeOK, Ring
<1>2. at'[r] = "index" /\ \A x \in Threads : x # r => at'[x] = at[x]
  BY DEF Queue, RenderTypeOK
<1>3. ASSUME NEW x \in Threads
      PROVE  Pending(x)' = IF x = r THEN Pending(r) \ {read[r]} ELSE Pending(x)
  BY <1>1, <1>2 DEF Pending
<1>4. Coherent'  BY DEF Cache, Coherent
<1>5. AsQueued'  BY <1>3 DEF Cache, AsQueued
<1>6. Counted'
  <2> SUFFICES ASSUME NEW x \in Threads, NEW e \in Entries
               PROVE  refcount[e] = refcount_r'[x][e] + Cardinality(Uses(x, e)')
                                    + InHand(e)
    BY DEF Counted, InHand
  <2>1. refcount[e] \in Nat /\ refcount_r[x][e] \in Nat
        /\ Cardinality(Uses(x, e)) \in Nat /\ IsFiniteSet(Uses(x, e))
    BY UsesFinite DEF Queue
  <2>2. refcount[e] = refcount_r[x][e] + Cardinality(Uses(x, e)) + InHand(e)
    BY DEF Cache, Counted
  <2>3. CASE x = r /\ e = d
    <3>1. read[r] \in Uses(x, e)  BY <1>1, <2>3 DEF Uses, Pending
    <3>2. Uses(x, e)' = Uses(x, e) \ {read[r]}  BY <1>3, <2>3 DEF Uses
    <3>3. Cardinality(Uses(x, e)') = Cardinality(Uses(x, e)) - 1
      <4>1. Cardinality(Uses(x, e) \ {read[r]}) = Cardinality(Uses(x, e)) - 1
        BY <2>1, <3>1, FS_RemoveElement
      <4> QED BY <3>2, <4>1
    <3>4. refcount_r'[x][e] = refcount_r[x][e] + 1
      BY <1>1, <2>3 DEF Queue, RenderTypeOK
    <3>5. InHand(e) \in Nat  BY DEF InHand
    <3> QED BY <2>1, <2>2, <3>3, <3>4, <3>5
  <2>4. CASE x # r \/ e # d
    <3>1. Uses(x, e)' = Uses(x, e)  BY <1>3, <2>4 DEF Uses
    <3>2. refcount_r'[x][e] = refcount_r[x][e]
      BY <1>1, <2>4 DEF Queue, RenderTypeOK
    <3> QED BY <2>2, <3>1, <3>2
  <2> QED BY <2>3, <2>4
<1> QED BY <1>4, <1>5, <1>6 DEF Cache

\* A step of a render thread that leaves the entry it has drawn drawn.
LEMMA SameUsesByRender ==
    ASSUME Cache, UNCHANGED <<fifoVars, refcount_r>>,
           \A r \in Threads : Pending(r)' = Pending(r)
    PROVE  Cache'
<1> USE DEF fifoVars, ring, cache
<1>1. \A r \in Threads : \A e : Uses(r, e)' = Uses(r, e)  BY DEF Uses
<1>2. Coherent'  BY DEF Cache, Coherent
<1>3. AsQueued'  BY DEF Cache, AsQueued
<1>4. Counted'   BY <1>1 DEF Cache, Counted, InHand
<1> QED BY <1>2, <1>3, <1>4 DEF Cache

LEMMA RenderKeepsCache ==
    ASSUME Queue, Cache, NEW r \in Threads, RenderNext(r) PROVE Cache'
<1> USE DEF From, To
<1>0. at \in [Threads -> RenderStates] /\ read \in [Threads -> Nat] /\ write \in Nat
  BY DEF Queue, RenderTypeOK
<1>1. CASE RenderDraw(r)  BY <1>1, DrawKeepsCache
<1>2. CASE RenderIndex(r)
  <2>1. ASSUME NEW x \in Threads PROVE Pending(x)' = Pending(x)
    <3>1. read[x] \in Nat  BY <1>0
    <3>2. UNCHANGED <<params, write>>  BY <1>2 DEF RenderIndex, fifoVars, ring
    <3>3. CASE x = r
      <4>1. at[x] = "index" /\ at'[x] = "entries" /\ read'[x] = read[x] + 1
        BY <1>0, <1>2, <3>3 DEF RenderIndex
      <4> QED BY <1>0, <3>1, <3>2, <4>1 DEF Pending
    <3>4. CASE x # r
      <4>1. at'[x] = at[x] /\ read'[x] = read[x]
        BY <1>0, <1>2, <3>4 DEF RenderIndex
      <4> QED BY <3>2, <4>1 DEF Pending
    <3> QED BY <3>3, <3>4
  <2> QED BY <1>2, <2>1, SameUsesByRender DEF RenderIndex
<1>3. ASSUME UNCHANGED <<fifoVars, read, refcount_r>>, at[r] # "index",
             NEW s, s # "index", at' = [at EXCEPT ![r] = s]
      PROVE  Cache'
  <2>1. \A x \in Threads : (at'[x] = "index") <=> (at[x] = "index")  BY <1>0, <1>3
  <2>2. \A x \in Threads : Pending(x)' = Pending(x)
    BY <1>3, <2>1 DEF Pending, fifoVars, ring
  <2> QED BY <1>3, <2>2, SameUsesByRender
<1>4. CASE RenderWait(r)     BY <1>3, <1>4 DEF RenderWait
<1>5. CASE RenderTest(r)
  <2>1. CASE PARAM_EMPTY(r)   BY <1>3, <1>5, <2>1 DEF RenderTest
  <2>2. CASE ~PARAM_EMPTY(r)  BY <1>3, <1>5, <2>2 DEF RenderTest
  <2> QED BY <2>1, <2>2
<1>6. CASE RenderEntries(r)  BY <1>3, <1>6 DEF RenderEntries
<1>7. CASE RenderFree(r)     BY <1>3, <1>7 DEF RenderFree
<1> QED BY <1>1, <1>2, <1>4, <1>5, <1>6, <1>7 DEF RenderNext

LEMMA FifoKeepsCache == ASSUME Queue, Cache, FifoNext PROVE Cache'
<1> USE DEF IdleWaits, ring, renderVars, Goto
<1>1. ASSUME NEW t \in Textures, Triangle(t) PROVE Cache'
  <2>1. Coherent'  BY <1>1 DEF Triangle, cache, Cache, Coherent
  <2> QED BY <1>1, <2>1, SameUses DEF Triangle, cache, Cache
<1>2. ASSUME NEW t \in Textures, WriteTexture(t) PROVE Cache'
  <2>1. tri'.t = t /\ t # Gone  BY <1>2 DEF WriteTexture, Queue, RenderTypeOK
  <2>2. \A e \in Entries : base'[e] # t /\ (base'[e] # Gone => base'[e] = base[e])
    BY <1>2, <2>1 DEF WriteTexture
  <2>3. Coherent'  BY <1>2, <2>1, <2>2 DEF WriteTexture, Cache, Coherent
  <2> QED BY <1>2, <2>3, SameUses DEF WriteTexture, Cache
<1>3. ASSUME UNCHANGED <<params, write, read, at, cache, refcount_r, tri>>,
             fifo \notin {"store", "idle:upload"}, fifo' \notin {"store", "upload"},
             fifo' = "idle:upload" => fifo = "idle:upload"
      PROVE  Cache'
  <2>1. Coherent'  BY <1>3 DEF cache, Cache, Coherent
  <2> QED BY <1>3, <2>1, SameUses DEF cache, Cache
<1>4. CASE AccessFramebuffer  BY <1>3, <1>4 DEF AccessFramebuffer
<1>5. CASE QueueFull     BY <1>3, <1>5 DEF QueueFull
<1>6. CASE QueueReset    BY <1>3, <1>6 DEF QueueReset
<1>7. CASE QueueLook     BY <1>3, <1>7 DEF QueueLook
<1>8. CASE QueueWait     BY <1>3, <1>8 DEF QueueWait
<1>9. ASSUME NEW e \in Entries, TextureFound(e) PROVE Cache'
  BY <1>9, FoundKeepsCache
<1>10. ASSUME NEW e \in Entries, TextureTakes(e) PROVE Cache'
  BY <1>10, TakesKeepsCache
<1>11. CASE TextureCacheFull  BY <1>3, <1>11 DEF TextureCacheFull
<1>12. CASE QueueStore   BY <1>12, StoreKeepsCache
<1>13. CASE QueueEntries BY <1>3, <1>13 DEF QueueEntries
<1>14. CASE Framebuffer  BY <1>3, <1>14 DEF Framebuffer
<1>15. CASE Upload
  <2>1. \A e \in Entries : base[e] # tri.t  BY <1>15 DEF Upload, Cache, Coherent
  <2>2. \A e \in Entries : base[e] # Gone => memory'[base[e]] = memory[base[e]]
    BY <1>15, <2>1 DEF Upload, Queue, RenderTypeOK
  <2>3. Coherent'  BY <1>15, <2>2 DEF Upload, Cache, Coherent
  <2> QED BY <1>15, <2>3, SameUses DEF Upload, Cache
<1>16. CASE WaitRenderIdle
  <2>1. UNCHANGED <<fifoVars, renderVars>>  BY <1>16 DEF WaitRenderIdle
  <2>2. \A r \in Threads : Pending(r)' = Pending(r)
    BY <2>1 DEF fifoVars, Pending
  <2> QED BY <2>1, <2>2, SameUsesByRender
<1>17. CASE RenderIdle
  <2>1. CASE fifo = "idle:upload"
    <3>1. Coherent'
      BY <1>17, <2>1 DEF RenderIdle, AfterIdle, cache, Cache, Coherent
    <3> QED BY <1>17, <2>1, <3>1, SameUses DEF RenderIdle, AfterIdle, cache, Cache
  <2>2. CASE fifo # "idle:upload"
    BY <1>3, <1>17, <2>2 DEF RenderIdle, AfterIdle
  <2> QED BY <2>1, <2>2
<1> QED BY <1>1, <1>2, <1>4, <1>5, <1>6, <1>7, <1>8, <1>9, <1>10, <1>11, <1>12,
           <1>13, <1>14, <1>15, <1>16, <1>17 DEF FifoNext, FifoResumes

LEMMA CacheStep == Queue /\ Cache /\ [Next]_vars => Cache'
<1> SUFFICES ASSUME Queue, Cache, [Next]_vars PROVE Cache'
  OBVIOUS
<1>1. CASE FifoNext  BY <1>1, FifoKeepsCache
<1>2. ASSUME NEW r \in Threads, RenderNext(r) PROVE Cache'
  BY <1>2, RenderKeepsCache
<1>3. CASE UNCHANGED vars
  <2>1. UNCHANGED <<fifoVars, renderVars>>  BY <1>3 DEF vars
  <2>2. \A r \in Threads : Pending(r)' = Pending(r)
    BY <2>1 DEF fifoVars, ring, renderVars, Pending
  <2> QED BY <2>1, <2>2, SameUsesByRender DEF renderVars
<1> QED BY <1>1, <1>2, <1>3 DEF Next

\* Each thread draws a triangle with the texture, and the contents of it, that
\* the guest meant when it queued the triangle: use_texture takes an entry,
\* and voodoo_tex_writel changes a texture, only when no triangle queued
\* before is still to be drawn with it.
THEOREM RenderTextureAsQueued == Spec => []TextureAsQueued
<1>1. Queue /\ Cache => TextureAsQueued
  <2> SUFFICES ASSUME Queue, Cache, NEW r \in Threads, at[r] = "draw"
               PROVE  data[params[Slot(read[r])].entry] = params[Slot(read[r])].tex
    BY DEF TextureAsQueued
  <2>1. read[r] \in Nat /\ write \in Nat  BY DEF Queue, RenderTypeOK
  <2>2. read[r] \in Pending(r)  BY <2>1 DEF Queue, Ring, Pending
  <2> QED BY <2>2 DEF Cache, AsQueued
<1> QED BY <1>1, QueueInit, QueueStep, CacheInit, CacheStep, PTL DEF Spec

=============================================================================
