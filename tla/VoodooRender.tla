---------------------------- MODULE VoodooRender ----------------------------
(***************************************************************************)
(* The render threads of the Voodoo: the FIFO thread queues triangles in a *)
(* ring of parameters that one or two render threads each read to the end  *)
(* (one draws the odd lines, the other the even ones), and fills a texture *)
(* cache whose entries are taken again only when their use counts agree.   *)
(* Triangle i + 1 is entry i of the ring.  `tex' in an entry is a history  *)
(* variable: the texture, and which contents of it, the guest meant.       *)
(*                                                                         *)
(* Left out: what is drawn, the second TMU, which has a cache of its own   *)
(* of the same shape, overlapping textures, and SLI.                       *)
(***************************************************************************)
EXTENDS Integers

CONSTANTS
    NThreads,   \* render_threads: 1 or 2
    ParamSize,  \* PARAM_SIZE
    RoomAbove,  \* PARAM_SIZE - 10: a thread signals room above this
    WakeBelow,  \* 4
    Entries,    \* the entries of the texture cache
    Textures,   \* base addresses of textures
    Commands    \* bound: triangles queued and textures written

ASSUME RenderAssumption ==
    /\ NThreads \in {1, 2}
    /\ ParamSize \in Nat \ {0} /\ RoomAbove \in Nat /\ WakeBelow \in Nat
    /\ RoomAbove < ParamSize - 1 /\ WakeBelow > 1
    /\ Entries # {} /\ Textures # {} /\ Commands \in Nat

Threads == 1 .. NThreads

CONSTANT Gone       \* base = -1: the entry matches no texture
ASSUME GoneAssumption == Gone \notin Textures

VARIABLES
    params,     \* params_buffer: [n, entry, tex] by slot
    write,      \* params_write_idx
    read,       \* params_read_idx, by thread
    busy, not_full, wake,       \* by thread, as in the other drivers
    at,         \* where each render thread is
    base, data, \* by cache entry: what it is found by, and what it holds
    refcount, refcount_r,       \* uses queued, and drawn by each thread
    memory,     \* how many times each texture has been written
    count,      \* triangles and texture writes so far
    fifo,       \* where the FIFO thread is
    turn,       \* the thread whose ring it looks at
    tri         \* the triangle in hand: its texture and its cache entry

ring == <<params, write>>
cache == <<base, data, refcount, memory>>
fifoVars == <<ring, cache, count, fifo, turn, tri>>
renderVars == <<read, busy, at, refcount_r>>
vars == <<fifoVars, renderVars, not_full, wake>>

Slot(i) == i % ParamSize

PARAM_ENTRIES(r) == write - read[r]
PARAM_FULL(r) == PARAM_ENTRIES(r) >= ParamSize
PARAM_EMPTY(r) == read[r] = write

Contents == [t : Textures \cup {Gone}, version : Nat]
NoTexture == [t |-> Gone, version |-> 0]

Init ==
    /\ params = [s \in 0 .. ParamSize - 1 |->
                   [n |-> 0, tex |-> NoTexture,
                    entry |-> CHOOSE e \in Entries : TRUE]]
    /\ write = 0 /\ read = [r \in Threads |-> 0]
    /\ busy = [r \in Threads |-> FALSE]
    /\ not_full = [r \in Threads |-> FALSE]
    /\ wake = [r \in Threads |-> FALSE]
    /\ at = [r \in Threads |-> "free"]
    /\ base = [e \in Entries |-> Gone] /\ data = [e \in Entries |-> NoTexture]
    /\ refcount = [e \in Entries |-> 0]
    /\ refcount_r = [r \in Threads |-> [e \in Entries |-> 0]]
    /\ memory = [t \in Textures |-> 0] /\ count = 0
    /\ fifo = "run" /\ turn = 1
    /\ tri = [t |-> CHOOSE t \in Textures : TRUE,
              entry |-> CHOOSE e \in Entries : TRUE]

-----------------------------------------------------------------------------
(* The FIFO thread: queue_triangle.                                        *)

Goto(s) == fifo' = s

Triangle(t) ==
    /\ fifo = "run" /\ count < Commands
    /\ Goto("full")
    /\ count' = count + 1
    /\ tri' = [tri EXCEPT !.t = t]
    /\ UNCHANGED <<ring, cache, turn, renderVars, not_full, wake>>

\* Mutant: only the ring of the first thread is looked at.
QueueFullFirst ==
    /\ fifo = "full"
    /\ Goto(IF PARAM_FULL(1) THEN "reset" ELSE "find")
    /\ UNCHANGED <<ring, cache, count, turn, tri, renderVars, not_full, wake>>

QueueFull ==
    /\ fifo = "full"
    /\ Goto(IF \E r \in Threads : PARAM_FULL(r) THEN "reset" ELSE "find")
    /\ UNCHANGED <<ring, cache, count, turn, tri, renderVars, not_full, wake>>

\* While one of the rings is full, both events are reset ...
QueueReset ==
    /\ fifo = "reset"
    /\ Goto("room")
    /\ not_full' = [r \in Threads |-> FALSE]
    /\ UNCHANGED <<ring, cache, count, turn, tri, renderVars, wake>>

\* Mutant: both threads are waited for, whichever ring is full.
QueueLookBoth ==
    /\ fifo = "room"
    /\ IF turn \notin Threads
       THEN Goto("full") /\ turn' = 1
       ELSE Goto("wait") /\ UNCHANGED turn
    /\ UNCHANGED <<ring, cache, count, tri, renderVars, not_full, wake>>

\* ... and then a ring that is still full is waited for.
QueueLook ==
    /\ fifo = "room"
    /\ IF turn \notin Threads
       THEN Goto("full") /\ turn' = 1
       ELSE IF PARAM_FULL(turn)
            THEN Goto("wait") /\ UNCHANGED turn
            ELSE turn' = turn + 1 /\ UNCHANGED fifo
    /\ UNCHANGED <<ring, cache, count, tri, renderVars, not_full, wake>>

QueueWait ==
    /\ fifo = "wait" /\ not_full[turn]
    /\ Goto("room") /\ turn' = turn + 1
    /\ not_full' = [not_full EXCEPT ![turn] = FALSE]
    /\ UNCHANGED <<ring, cache, count, tri, renderVars, wake>>

(* use_texture.                                                            *)

\* Mutant: the second render thread's count is not looked at.
UnusedByFirst(e) == refcount[e] = refcount_r[1][e]

Unused(e) == \A r \in Threads : refcount[e] = refcount_r[r][e]

TextureFound(e) ==
    /\ fifo = "find" /\ base[e] = tri.t
    /\ Goto("store")
    /\ tri' = [tri EXCEPT !.entry = e]
    /\ refcount' = [refcount EXCEPT ![e] = @ + 1]
    /\ UNCHANGED <<ring, base, data, memory, count, turn>>
    /\ UNCHANGED <<renderVars, not_full, wake>>

\* The search goes round from the entry last taken; threads may finish with
\* entries it has passed: any unused entry can be the one it stops at.  No
\* thread draws with it while it is filled.
TextureTakes(e) ==
    /\ fifo = "find" /\ tri.t \notin {base[x] : x \in Entries}
    /\ Unused(e)
    /\ Goto("store")
    /\ tri' = [tri EXCEPT !.entry = e]
    /\ base' = [base EXCEPT ![e] = tri.t]
    /\ data' = [data EXCEPT ![e] = [t |-> tri.t, version |-> memory[tri.t]]]
    /\ refcount' = [refcount EXCEPT ![e] = @ + 1]
    /\ UNCHANGED <<ring, memory, count, turn, renderVars, not_full, wake>>

TextureCacheFull ==
    /\ fifo = "find" /\ tri.t \notin {base[x] : x \in Entries}
    /\ \A e \in Entries : ~Unused(e)
    /\ Goto("idle:find")
    /\ UNCHANGED <<ring, cache, count, turn, tri, renderVars, not_full, wake>>

\* memcpy and params_write_idx++.
QueueStore ==
    /\ fifo = "store"
    /\ Goto("entries")
    /\ params' = [params EXCEPT ![Slot(write)] =
                    [n |-> write + 1, entry |-> tri.entry,
                     tex |-> [t |-> tri.t, version |-> memory[tri.t]]]]
    /\ write' = write + 1
    /\ UNCHANGED <<cache, count, turn, tri, renderVars, not_full, wake>>

WakeRenderThread == wake' = [r \in Threads |-> TRUE]

\* Mutant: only the first thread's ring decides whether both are woken.
QueueEntriesFirst ==
    /\ fifo = "entries"
    /\ Goto("run")
    /\ IF PARAM_ENTRIES(1) < WakeBelow
       THEN WakeRenderThread ELSE UNCHANGED wake
    /\ UNCHANGED <<ring, cache, count, turn, tri, renderVars, not_full>>

QueueEntries ==
    /\ fifo = "entries"
    /\ Goto("run")
    /\ IF \E r \in Threads : PARAM_ENTRIES(r) < WakeBelow
       THEN WakeRenderThread ELSE UNCHANGED wake
    /\ UNCHANGED <<ring, cache, count, turn, tri, renderVars, not_full>>

(* wait_for_render_thread_idle, and what is done after it.                 *)

AccessFramebuffer ==
    /\ fifo = "run"
    /\ Goto("idle:fb")
    /\ UNCHANGED <<ring, cache, count, turn, tri, renderVars, not_full, wake>>

\* voodoo_fb_writew, voodoo_fb_writel, or the swap of swapbufferCMD.
Framebuffer ==
    /\ fifo = "fb"
    /\ Goto("run")
    /\ UNCHANGED <<ring, cache, count, turn, tri, renderVars, not_full, wake>>

\* voodoo_tex_writel, flush_texture_cache: texture_present finds the entries.
WriteTexture(t) ==
    /\ fifo = "run" /\ count < Commands
    /\ count' = count + 1
    /\ Goto(IF \E e \in Entries : base[e] = t /\ ~Unused(e)
            THEN "idle:upload" ELSE "upload")
    /\ tri' = [tri EXCEPT !.t = t]
    /\ base' = [e \in Entries |-> IF base[e] = t THEN Gone ELSE base[e]]
    /\ UNCHANGED <<ring, data, refcount, memory, turn>>
    /\ UNCHANGED <<renderVars, not_full, wake>>

Upload ==
    /\ fifo = "upload"
    /\ Goto("run")
    /\ memory' = [memory EXCEPT ![tri.t] = @ + 1]
    /\ UNCHANGED <<ring, base, data, refcount, count, turn, tri>>
    /\ UNCHANGED <<renderVars, not_full, wake>>

Working(r) == ~PARAM_EMPTY(r) \/ busy[r]

IdleWaits == {"idle:fb", "idle:upload", "idle:find"}

AfterIdle(wait) == CASE wait = "idle:fb" -> "fb"
                     [] wait = "idle:upload" -> "upload"
                     [] wait = "idle:find" -> "find"

\* Each event is waited for a millisecond at most, and consumed.
WaitRenderIdle ==
    /\ fifo \in IdleWaits /\ \E r \in Threads : Working(r)
    /\ WakeRenderThread
    /\ not_full' = [r \in Threads |-> not_full[r] /\ ~Working(r)]
    /\ UNCHANGED <<fifoVars, renderVars>>

\* Mutant: threads that are only busy, with an empty ring, are not waited for.
RenderIdleNoRing ==
    /\ fifo \in IdleWaits /\ \A r \in Threads : ~busy[r]
    /\ Goto(AfterIdle(fifo))
    /\ UNCHANGED <<ring, cache, count, turn, tri, renderVars, not_full, wake>>

RenderIdle ==
    /\ fifo \in IdleWaits /\ \A r \in Threads : ~Working(r)
    /\ Goto(AfterIdle(fifo))
    /\ UNCHANGED <<ring, cache, count, turn, tri, renderVars, not_full, wake>>

FifoResumes ==
    \/ QueueFull \/ QueueReset \/ QueueLook \/ QueueWait
    \/ \E e \in Entries : TextureFound(e) \/ TextureTakes(e)
    \/ TextureCacheFull \/ QueueStore \/ QueueEntries
    \/ Framebuffer \/ Upload \/ WaitRenderIdle \/ RenderIdle

FifoNext ==
    \/ \E t \in Textures : Triangle(t) \/ WriteTexture(t)
    \/ AccessFramebuffer
    \/ FifoResumes

-----------------------------------------------------------------------------
(* render_thread.                                                          *)

From(r, s) == at[r] = s
To(r, s) == at' = [at EXCEPT ![r] = s]

\* thread_wait_event, thread_reset_event and the busy flag in one step: the
\* ring is looked at after them (CardFifo has them one by one).
RenderWait(r) ==
    /\ From(r, "wait") /\ wake[r] /\ To(r, "test")
    /\ wake' = [wake EXCEPT ![r] = FALSE]
    /\ busy' = [busy EXCEPT ![r] = TRUE]
    /\ UNCHANGED <<read, refcount_r, not_full, fifoVars>>

RenderTest(r) ==
    /\ From(r, "test")
    /\ To(r, IF PARAM_EMPTY(r) THEN "free" ELSE "draw")
    /\ UNCHANGED <<read, busy, refcount_r, not_full, wake, fifoVars>>

\* voodoo_triangle; its last step says that the texture is no longer used.
RenderDraw(r) ==
    /\ From(r, "draw") /\ To(r, "index")
    /\ LET e == params[Slot(read[r])].entry
       IN  refcount_r' = [refcount_r EXCEPT ![r][e] = @ + 1]
    /\ UNCHANGED <<read, busy, not_full, wake, fifoVars>>

RenderIndex(r) ==
    /\ From(r, "index") /\ To(r, "entries")
    /\ read' = [read EXCEPT ![r] = @ + 1]
    /\ UNCHANGED <<busy, refcount_r, not_full, wake, fifoVars>>

RenderEntries(r) ==
    /\ From(r, "entries") /\ To(r, "test")
    /\ not_full' = IF PARAM_ENTRIES(r) > RoomAbove
                   THEN [not_full EXCEPT ![r] = TRUE] ELSE not_full
    /\ UNCHANGED <<read, busy, refcount_r, wake, fifoVars>>

\* The ring was found empty; the loop of the thread begins again.
RenderFree(r) ==
    /\ From(r, "free") /\ To(r, "wait")
    /\ busy' = [busy EXCEPT ![r] = FALSE]
    /\ not_full' = [not_full EXCEPT ![r] = TRUE]
    /\ UNCHANGED <<read, refcount_r, wake, fifoVars>>

RenderNext(r) ==
    \/ RenderWait(r) \/ RenderTest(r)
    \/ RenderDraw(r) \/ RenderIndex(r) \/ RenderEntries(r) \/ RenderFree(r)

Next == FifoNext \/ \E r \in Threads : RenderNext(r)

Spec == Init /\ [][Next]_vars

\* A thread that is woken with an empty ring is busy for microseconds, and
\* wait_for_render_thread_idle wakes it once a millisecond: there are always
\* moments at which no thread is on such a pass, and the check meets one.
ShortPasses ==
    /\ []<>(\A r \in Threads : ~PARAM_EMPTY(r) \/ ~busy[r])
    /\ SF_vars(RenderIdle)

\* The host schedules every thread; the guest need not queue anything.
FairSpec ==
    /\ Spec
    /\ WF_vars(FifoResumes) /\ ShortPasses
    /\ \A r \in Threads : WF_vars(RenderNext(r))

-----------------------------------------------------------------------------
FifoStates == {"run", "full", "reset", "room", "wait", "find", "store",
               "entries", "fb", "upload"} \cup IdleWaits
RenderStates == {"wait", "test", "draw", "index", "entries", "free"}

RenderTypeOK ==
    /\ params \in [0 .. ParamSize - 1 ->
                     [n : Nat, entry : Entries, tex : Contents]]
    /\ write \in Nat /\ read \in [Threads -> Nat]
    /\ busy \in [Threads -> BOOLEAN] /\ not_full \in [Threads -> BOOLEAN]
    /\ wake \in [Threads -> BOOLEAN] /\ at \in [Threads -> RenderStates]
    /\ base \in [Entries -> Textures \cup {Gone}]
    /\ data \in [Entries -> Contents]
    /\ refcount \in [Entries -> Nat]
    /\ refcount_r \in [Threads -> [Entries -> Nat]]
    /\ memory \in [Textures -> Nat] /\ count \in Nat
    /\ fifo \in FifoStates /\ turn \in 1 .. NThreads + 1
    /\ fifo = "wait" => turn \in Threads
    /\ tri \in [t : Textures, entry : Entries]

\* A render thread draws the triangles in the order they were queued: the
\* faster thread does not let the FIFO thread overwrite what the slower one
\* has yet to draw.
ParamsAsQueued ==
    \A r \in Threads : at[r] = "draw" => params[Slot(read[r])].n = read[r] + 1

\* A triangle is drawn by both threads with the texture, in the contents it
\* had, of the moment the triangle was queued.
TextureAsQueued ==
    \A r \in Threads : at[r] = "draw" =>
        LET p == params[Slot(read[r])] IN data[p.entry] = p.tex

\* The frame buffer is accessed, and the buffers are swapped, only when both
\* threads have drawn every triangle queued before.
FramebufferQuiet ==
    fifo = "fb" => \A r \in Threads : read[r] = write /\ at[r] # "draw"

\* No render thread sleeps on a ring that is not empty: it is woken, or about
\* to be, though the FIFO thread wakes threads only now and then.
RendererIsWoken ==
    \A r \in Threads : (at[r] \in {"free", "wait"} /\ ~PARAM_EMPTY(r))
        => \/ wake[r]
           \/ fifo = "entries" /\ PARAM_ENTRIES(r) < WakeBelow

\* The FIFO thread gets past a full ring, a full texture cache and every wait
\* for idle render threads.
FifoNotStuck == fifo # "run" ~> fifo = "run"
=============================================================================
