------------------------------ MODULE Blitter ------------------------------
(***************************************************************************)
(* The display pipeline: the emulator thread (pc_thread, "cpu") renders    *)
(* the guest's picture and hands it to the blit thread, which calls the    *)
(* active renderer; the UI thread changes renderers under the blit mutex.  *)
(* Events are Windows auto-reset events: setting one releases one blocked  *)
(* thread, or it stays set until a wait consumes it.  A slice (10 ms of    *)
(* guest time, run under the mutex) is the set of display operations it    *)
(* performs; the picture is abstracted to who is reading or writing it.    *)
(***************************************************************************)
EXTENDS Naturals, FiniteSets

CONSTANTS
    Commands,       \* what the user does to the window and the menus
    FixedWindow,    \* config.vid_resize = 0: the emulator sizes the window
    StatusIcons,    \* the guest's devices light icons on the status bar
    InitMayFail,    \* a renderer's init may return 0
    DeviceLost,     \* Direct3D may lose its device in full screen
    BlankPalette    \* palette adapters also blit frames they drew nothing in

AllCommands == {"set", "fullscreen", "toggle", "size", "move", "pause", "close"}

ASSUME BlitterAssumption ==
    /\ Commands \subseteq AllCommands
    /\ {FixedWindow, StatusIcons, InitMayFail, DeviceLost, BlankPalette}
         \subseteq BOOLEAN

VARIABLES
    pc,         \* where each thread is
    video_blit, \* struct blitter: flags, events, and whether func is set
    mutex,      \* hBlitMutex: its owner, or "none"
    work,       \* what is left of the slice being run
    scan,       \* lines were drawn of the frame that is to be blitted next
    op,         \* the critical section the UI thread is in or heads for
    sent,       \* the SendMessage pc_thread is blocked in, or "none"
    host        \* doresize, dopause, quited, vid_fullscreen, is_enabled and
                \* whether WM_RESET_D3D is posted

vars == <<pc, video_blit, mutex, work, scan, op, sent, host>>

Waiting == {"busy_check", "busy_call", "busy_wait", "busy_reset"}
Buffering == {"buf_check", "buf_call", "buf_wait", "buf_reset"}
CpuStates == {"top", "lock", "frame", "line", "convert", "start", "send",
              "resize", "move", "resized", "dead"} \cup Waiting \cup Buffering
UiStates == {"loop", "lock", "own", "unlock", "closed"} \cup Waiting
BlitStates == {"idle", "awake", "called", "copy", "done", "notify", "present",
               "clear", "signal", "dead"}
Sections == {"none", "set", "fullscreen", "toggle", "disable", "resize",
             "enable", "reset", "close"}
Works == {"line", "blit", "palblit", "icon", "size"}

BlitterType == [busy : BOOLEAN, inuse : BOOLEAN, wake_ev : BOOLEAN,
                busy_ev : BOOLEAN, inuse_ev : BOOLEAN, func : BOOLEAN]
HostType == [doresize : BOOLEAN, dopause : BOOLEAN, quited : BOOLEAN,
             fullscreen : BOOLEAN, enabled : BOOLEAN, posted : BOOLEAN]

Goto(t, s) == pc' = [pc EXCEPT ![t] = s]

(***************************************************************************)
(* video_blit_wait: run by the emulator before a blit and before it sizes  *)
(* the window, and by the UI thread in its critical sections.              *)
(***************************************************************************)
AfterWait(t) == CASE t = "ui" -> "own"
                  [] t = "cpu" /\ mutex = "cpu" -> "start"
                  [] OTHER -> "move"

BlitWaitCheck(t) ==
    /\ pc[t] = "busy_check"
    /\ Goto(t, IF video_blit.busy THEN "busy_call" ELSE "busy_reset")
    /\ UNCHANGED video_blit

\* Mutant: the event is reset before the wait instead of after it.
BlitWaitCallReset(t) ==
    /\ pc[t] = "busy_call"
    /\ Goto(t, "busy_wait")
    /\ video_blit' = [video_blit EXCEPT !.busy_ev = FALSE]

\* thread_wait_event: consume the event if it is set, else block on it.
BlitWaitCall(t) ==
    /\ pc[t] = "busy_call"
    /\ Goto(t, IF video_blit.busy_ev THEN "busy_check" ELSE "busy_wait")
    /\ video_blit' = [video_blit EXCEPT !.busy_ev = FALSE]

BlitWaitReset(t) ==
    /\ pc[t] = "busy_reset"
    /\ Goto(t, AfterWait(t))
    /\ video_blit' = [video_blit EXCEPT !.busy_ev = FALSE]

BlitWait(t) ==
    /\ BlitWaitCheck(t) \/ BlitWaitCall(t) \/ BlitWaitReset(t)
    /\ UNCHANGED <<mutex, work, scan, op, sent, host>>

(***************************************************************************)
(* The emulator thread.                                                    *)
(***************************************************************************)
Iterate ==
    /\ pc["cpu"] = "top"
    /\ \/ host.quited /\ Goto("cpu", "dead")
       \/ ~host.quited /\ ~host.dopause /\ Goto("cpu", "lock")
       \/ ~host.quited /\ Goto("cpu", "resize")       \* not time yet, or paused
    /\ UNCHANGED <<video_blit, mutex, work, scan, op, sent, host>>

Slices == {w \in SUBSET Works : /\ ("icon" \in w) => StatusIcons
                                /\ ~({"blit", "palblit"} \subseteq w)}

StartSlice ==
    /\ pc["cpu"] = "lock"
    /\ mutex = "none"
    /\ mutex' = "cpu"
    /\ work' \in Slices
    /\ Goto("cpu", "frame")
    /\ UNCHANGED <<video_blit, scan, op, sent, host>>

\* A device of the guest lights its icon; a SendMessage to the UI thread.
UpdateIcon ==
    /\ pc["cpu"] = "frame"
    /\ "icon" \in work
    /\ work' = work \ {"icon"}
    /\ sent' = "icon"
    /\ Goto("cpu", "send")
    /\ UNCHANGED <<video_blit, mutex, scan, op, host>>

\* The guest changes the screen size.
SetScreenSize ==
    /\ pc["cpu"] = "frame"
    /\ "size" \in work
    /\ work' = work \ {"size"}
    /\ \E resized \in BOOLEAN : host' = [host EXCEPT !.doresize = resized]
    /\ UNCHANGED <<pc, video_blit, mutex, scan, op, sent>>

\* A card's poll handler: the first line of a frame waits for the buffer.
DrawLine ==
    /\ pc["cpu"] = "frame"
    /\ "line" \in work
    /\ Goto("cpu", IF scan THEN "line" ELSE "buf_check")
    /\ UNCHANGED <<video_blit, mutex, work, scan, op, sent, host>>

BufferCheck ==
    /\ pc["cpu"] = "buf_check"
    /\ Goto("cpu", IF video_blit.inuse THEN "buf_call" ELSE "buf_reset")
    /\ UNCHANGED <<video_blit, mutex, work, scan, op, sent, host>>

\* Mutant: an "if" for the "while": inuse is not looked at again.
BufferCallOnce ==
    /\ pc["cpu"] = "buf_call"
    /\ Goto("cpu", IF video_blit.inuse_ev THEN "buf_reset" ELSE "buf_wait")
    /\ video_blit' = [video_blit EXCEPT !.inuse_ev = FALSE]
    /\ UNCHANGED <<mutex, work, scan, op, sent, host>>

BufferCall ==
    /\ pc["cpu"] = "buf_call"
    /\ Goto("cpu", IF video_blit.inuse_ev THEN "buf_check" ELSE "buf_wait")
    /\ video_blit' = [video_blit EXCEPT !.inuse_ev = FALSE]
    /\ UNCHANGED <<mutex, work, scan, op, sent, host>>

BufferReset ==
    /\ pc["cpu"] = "buf_reset"
    /\ video_blit' = [video_blit EXCEPT !.inuse_ev = FALSE]
    /\ Goto("cpu", "line")
    /\ UNCHANGED <<mutex, work, scan, op, sent, host>>

LineDrawn ==
    /\ pc["cpu"] = "line"
    /\ scan' = TRUE
    /\ work' = work \ {"line"}
    /\ Goto("cpu", "frame")
    /\ UNCHANGED <<video_blit, mutex, op, sent, host>>

\* The vertical sync of a card: video_blit_start.
EndOfFrame ==
    /\ pc["cpu"] = "frame"
    /\ \/ "blit" \in work /\ Goto("cpu", "busy_check")
       \/ /\ "palblit" \in work /\ (scan \/ BlankPalette)
          /\ Goto("cpu", "convert")
    /\ UNCHANGED <<video_blit, mutex, work, scan, op, sent, host>>

PaletteConverted ==
    /\ pc["cpu"] = "convert"
    /\ Goto("cpu", "busy_check")
    /\ UNCHANGED <<video_blit, mutex, work, scan, op, sent, host>>

BlitStart ==
    /\ pc["cpu"] = "start"
    /\ video_blit' = [video_blit EXCEPT !.busy = TRUE, !.inuse = TRUE,
                                        !.wake_ev = TRUE]
    /\ scan' = FALSE
    /\ work' = work \ {"blit", "palblit"}
    /\ Goto("cpu", "frame")
    /\ UNCHANGED <<mutex, op, sent, host>>

\* Mutant: plat_endblit is forgotten.
EndSliceHeld ==
    /\ pc["cpu"] = "frame"
    /\ work' = {}
    /\ Goto("cpu", "resize")
    /\ UNCHANGED <<video_blit, mutex, scan, op, sent, host>>

EndSlice ==
    /\ pc["cpu"] = "frame"
    /\ mutex' = "none"
    /\ work' = {}
    /\ Goto("cpu", "resize")
    /\ UNCHANGED <<video_blit, scan, op, sent, host>>

\* Outside the mutex: the emulator resizes the window if one was asked for.
Resize ==
    /\ pc["cpu"] = "resize"
    /\ Goto("cpu", IF ~host.doresize \/ host.fullscreen THEN "top"
                   ELSE IF FixedWindow THEN "busy_check" ELSE "resized")
    /\ UNCHANGED <<video_blit, mutex, work, scan, op, sent, host>>

\* MoveWindow on a window of the UI thread.
Move ==
    /\ pc["cpu"] = "move"
    /\ sent' = "move"
    /\ Goto("cpu", "send")
    /\ UNCHANGED <<video_blit, mutex, work, scan, op, host>>

Resized ==
    /\ pc["cpu"] = "resized"
    /\ host' = [host EXCEPT !.doresize = FALSE]
    /\ Goto("cpu", "top")
    /\ UNCHANGED <<video_blit, mutex, work, scan, op, sent>>

CpuProceeds ==
    \/ BlitWait("cpu") \/ Iterate \/ UpdateIcon \/ SetScreenSize
    \/ DrawLine \/ BufferCheck \/ BufferCall \/ BufferReset \/ LineDrawn
    \/ EndOfFrame \/ PaletteConverted \/ BlitStart \/ EndSlice
    \/ Resize \/ Move \/ Resized

(***************************************************************************)
(* The blit thread, and the renderer function it calls.                    *)
(***************************************************************************)
Wake ==
    /\ pc["blit"] = "idle"
    /\ video_blit.wake_ev
    /\ video_blit' = [video_blit EXCEPT !.wake_ev = FALSE]
    /\ Goto("blit", "awake")

WakeReset ==
    /\ pc["blit"] = "awake"
    /\ video_blit' = [video_blit EXCEPT !.wake_ev = FALSE]
    /\ Goto("blit", "called")

\* Mutant: a disabled renderer returns without video_blit_done.
CallSilent ==
    /\ pc["blit"] = "called"
    /\ Goto("blit", IF video_blit.func /\ host.enabled THEN "copy" ELSE "clear")
    /\ UNCHANGED video_blit

Call ==
    /\ pc["blit"] = "called"
    /\ Goto("blit", CASE ~video_blit.func -> "clear"
                      [] host.enabled -> "copy"
                      [] OTHER -> "done")
    /\ UNCHANGED video_blit

CopyDone ==
    /\ pc["blit"] = "copy"
    /\ Goto("blit", "done")
    /\ UNCHANGED video_blit

\* video_blit_done, called by the renderer.
BlitDone ==
    /\ pc["blit"] = "done"
    /\ video_blit' = [video_blit EXCEPT !.inuse = FALSE]
    /\ Goto("blit", "notify")

BlitDoneEvent ==
    /\ pc["blit"] = "notify"
    /\ LET waits == pc["cpu"] = "buf_wait"
       IN /\ video_blit' = [video_blit EXCEPT !.inuse_ev = ~waits]
          /\ pc' = [pc EXCEPT !["blit"] = "present",
                              !["cpu"] = IF waits THEN "buf_check" ELSE @]

Clear ==
    /\ pc["blit"] = "clear"
    /\ video_blit' = [video_blit EXCEPT !.busy = FALSE]
    /\ Goto("blit", "signal")

\* Mutant: the event is pulsed, and lost when nobody is blocked on it yet.
SignalPulse ==
    /\ pc["blit"] = "signal"
    /\ \/ /\ \A t \in {"cpu", "ui"} : pc[t] # "busy_wait"
          /\ UNCHANGED video_blit
          /\ Goto("blit", "idle")
       \/ \E t \in {"cpu", "ui"} :
            /\ pc[t] = "busy_wait"
            /\ pc' = [pc EXCEPT !["blit"] = "idle", ![t] = "busy_check"]
            /\ UNCHANGED video_blit

Signal ==
    /\ pc["blit"] = "signal"
    /\ \/ /\ \A t \in {"cpu", "ui"} : pc[t] # "busy_wait"
          /\ video_blit' = [video_blit EXCEPT !.busy_ev = TRUE]
          /\ Goto("blit", "idle")
       \/ \E t \in {"cpu", "ui"} :
            /\ pc[t] = "busy_wait"
            /\ pc' = [pc EXCEPT !["blit"] = "idle", ![t] = "busy_check"]
            /\ UNCHANGED video_blit

\* The renderer shows the picture; Direct3D may find its device lost.
Present ==
    /\ pc["blit"] = "present"
    /\ Goto("blit", "clear")
    /\ \E lost \in BOOLEAN :
         /\ lost => DeviceLost /\ host.fullscreen
         /\ host' = [host EXCEPT !.posted = @ \/ lost]
    /\ UNCHANGED video_blit

BlitThread ==
    /\ \/ (Wake \/ WakeReset \/ Call \/ CopyDone \/ BlitDone
              \/ BlitDoneEvent \/ Clear \/ Signal) /\ UNCHANGED host
       \/ Present
    /\ UNCHANGED <<mutex, work, scan, op, sent>>

(***************************************************************************)
(* The UI thread.                                                          *)
(***************************************************************************)
Enter(section) == op' = section /\ Goto("ui", "lock")

\* Menu commands and window messages that come from the user.
Command(c) ==
    /\ pc["ui"] = "loop"
    /\ CASE c = "pause" -> /\ host' = [host EXCEPT !.dopause = ~@]
                           /\ UNCHANGED <<pc, op>>
         [] c = "move" -> /\ host' = [host EXCEPT !.doresize = @ \/ FixedWindow]
                          /\ UNCHANGED <<pc, op>>
         [] c = "close" -> /\ host' = [host EXCEPT !.quited = TRUE]
                           /\ Enter("close")
         [] c = "size" -> Enter("disable") /\ UNCHANGED host
         [] OTHER -> Enter(c) /\ UNCHANGED host
    /\ UNCHANGED <<video_blit, mutex, work, scan, sent>>

\* WM_RESET_D3D
ResetMessage ==
    /\ pc["ui"] = "loop"
    /\ host.posted
    /\ host' = [host EXCEPT !.posted = FALSE]
    /\ Enter("reset")
    /\ UNCHANGED <<video_blit, mutex, work, scan, sent>>

\* The answer to a message lets the emulator go on.
Replied == IF sent = "icon" THEN "frame" ELSE "resized"

\* Handle the message the emulator sent; MoveWindow may change the size,
\* and then WM_SIZE is handled before the answer.
Serve ==
    /\ pc["ui"] = "loop"
    /\ sent \in {"icon", "move"}
    /\ \/ /\ sent' = "none"
          /\ Goto("cpu", Replied)
          /\ UNCHANGED op
       \/ /\ sent = "move"
          /\ sent' = "sizing"
          /\ Enter("disable")
    /\ UNCHANGED <<video_blit, mutex, work, scan, host>>

\* Mutant: the mutex is taken, but the blitter not waited for.
UiLockNoWait ==
    /\ pc["ui"] = "lock"
    /\ mutex = "none"
    /\ mutex' = "ui"
    /\ Goto("ui", "own")
    /\ UNCHANGED <<video_blit, work, scan, op, sent, host>>

\* Mutant: pc_close does not claim the blitter.
UiLockClaimed ==
    /\ pc["ui"] = "lock"
    /\ mutex = "none" \/ op = "close"
    /\ mutex' = "ui"
    /\ Goto("ui", IF op \in {"reset", "close"} THEN "own" ELSE "busy_check")
    /\ UNCHANGED <<video_blit, work, scan, op, sent, host>>

UiLock ==
    /\ pc["ui"] = "lock"
    /\ mutex = "none"
    /\ mutex' = "ui"
    /\ Goto("ui", IF op \in {"reset", "close"} THEN "own" ELSE "busy_check")
    /\ UNCHANGED <<video_blit, work, scan, op, sent, host>>

\* vidapi_set, ui_fullscreen: close the old renderer and initialise the new.
ReplaceRenderer ==
    \E ok \in BOOLEAN :
        /\ ok \/ InitMayFail
        /\ video_blit' = [video_blit EXCEPT !.func = ok]
        /\ host' = [host EXCEPT !.enabled = ok,
                        !.fullscreen = IF op = "fullscreen" THEN ~@ ELSE @]

\* The work done while the blitter is "ours".
Work ==
    /\ pc["ui"] = "own"
    /\ op # "close"
    /\ CASE op \in {"set", "fullscreen"} -> ReplaceRenderer
         [] op = "disable" -> /\ \E resized \in BOOLEAN :
                                   host' = [host EXCEPT !.enabled = FALSE,
                                                 !.doresize = @ \/ resized]
                              /\ UNCHANGED video_blit
         [] op = "enable" -> /\ host' = [host EXCEPT !.enabled = TRUE]
                             /\ UNCHANGED video_blit
         [] OTHER -> UNCHANGED <<video_blit, host>>
    /\ Goto("ui", "unlock")
    /\ UNCHANGED <<mutex, work, scan, op, sent>>

\* WM_SIZE runs three sections in a row.
NextSection == CASE op = "disable" -> "resize"
                 [] op = "resize" -> "enable"
                 [] OTHER -> "none"

UiUnlock ==
    /\ pc["ui"] = "unlock"
    /\ mutex' = "none"
    /\ op' = NextSection
    /\ LET answers == NextSection = "none" /\ sent = "sizing"
       IN /\ sent' = IF answers THEN "none" ELSE sent
          /\ pc' = [pc EXCEPT !["ui"] = IF NextSection = "none" THEN "loop" ELSE "lock",
                              !["cpu"] = IF answers THEN Replied ELSE @]
    /\ UNCHANGED <<video_blit, work, scan, host>>

\* pc_close: the emulator thread is killed, then video_close kills the other.
Close ==
    /\ pc["ui"] = "own"
    /\ op = "close"
    /\ IF pc["cpu"] # "dead"
       THEN Goto("cpu", "dead")
       ELSE pc' = [pc EXCEPT !["blit"] = "dead", !["ui"] = "closed"]
    /\ UNCHANGED <<video_blit, mutex, work, scan, op, sent, host>>

UiProceeds == BlitWait("ui") \/ ResetMessage \/ Work \/ UiUnlock \/ Close

Terminated == pc["ui"] = "closed" /\ UNCHANGED vars

Init ==
    /\ pc = [t \in {"cpu", "ui", "blit"} |->
               CASE t = "cpu" -> "top" [] t = "ui" -> "loop" [] OTHER -> "idle"]
    /\ video_blit = [busy |-> FALSE, inuse |-> FALSE, wake_ev |-> FALSE,
                     busy_ev |-> FALSE, inuse_ev |-> FALSE, func |-> TRUE]
    /\ mutex = "none"
    /\ work = {}
    /\ scan = FALSE
    /\ op = "none"
    /\ sent = "none"
    /\ host = [doresize |-> FALSE, dopause |-> FALSE, quited |-> FALSE,
               fullscreen |-> FALSE, enabled |-> TRUE, posted |-> FALSE]

Next ==
    \/ CpuProceeds \/ StartSlice
    \/ BlitThread
    \/ \E c \in Commands : Command(c)
    \/ Serve \/ UiLock \/ UiProceeds
    \/ Terminated

Spec == Init /\ [][Next]_vars

(***************************************************************************)
(* The host runs every thread that can run, answers sent messages before   *)
(* it takes posted ones, and grants the mutex in the order it was asked.   *)
(***************************************************************************)
FairSpec ==
    /\ Spec
    /\ WF_vars(CpuProceeds) /\ WF_vars(BlitThread) /\ WF_vars(UiProceeds)
    /\ SF_vars(Serve) /\ SF_vars(UiLock) /\ SF_vars(StartSlice)

(***************************************************************************)
(* Properties.                                                             *)
(***************************************************************************)
\* The type invariant of the pipeline's state.
BlitTypeOK ==
    /\ pc \in [{"cpu", "ui", "blit"} -> CpuStates \cup UiStates \cup BlitStates]
    /\ pc["cpu"] \in CpuStates /\ pc["ui"] \in UiStates /\ pc["blit"] \in BlitStates
    /\ video_blit \in BlitterType
    /\ mutex \in {"none", "cpu", "ui"}
    /\ work \subseteq Works
    /\ scan \in BOOLEAN
    /\ op \in Sections
    /\ sent \in {"none", "icon", "move", "sizing"}
    /\ host \in HostType

\* The UI thread never closes, initialises, resizes or resets the renderer
\* while blit_thread is inside it: what plat_startblit and video_blit_wait
\* are for in vidapi_set, vidapi_resize, vidapi_enable and ui_fullscreen.
RendererNotShared ==
    ~ /\ pc["ui"] = "own" /\ op \notin {"toggle", "close"}
      /\ pc["blit"] \in {"awake", "called", "copy", "done", "notify", "present"}

\* The emulator never draws into the screen buffer, or converts it through
\* the palette, while the renderer is copying the previous frame out of it.
NoTornCopy == ~(pc["cpu"] \in {"line", "convert"} /\ pc["blit"] = "copy")

\* A thread blocked in video_blit_wait still has a signal of the blit thread
\* to come: it neither missed the one meant for it nor lost it to a reset.
NoLostWakeup ==
    (\E t \in {"cpu", "ui"} : pc[t] = "busy_wait")
        => video_blit.busy \/ pc["blit"] = "signal"

\* Stopping the machine never kills the emulator thread inside a slice, with
\* the devices pc_close goes on to save and free in the middle of an access.
SliceNotCut ==
    [][pc["cpu"] # "dead" /\ pc'["cpu"] = "dead"
         => /\ pc["cpu"] \notin {"frame", "line", "convert", "start"} \cup Buffering
            /\ sent # "icon"]_vars

\* The UI thread always comes back to its message loop ("we will hang in
\* here, dealing with the UI until we're done").
UiServes == []<>(pc["ui"] \in {"loop", "closed"})

\* The emulator is never held up for good: neither by the renderer, nor by
\* the blitter, nor by a message it sent to the UI thread.
EmulatorProceeds ==
    pc["cpu"] \in {"lock", "buf_wait", "busy_wait", "send"}
        ~> pc["cpu"] \notin {"lock", "buf_wait", "busy_wait", "send"}

\* Closing the window ends the program, however busy the emulator is.
CloseCompletes == host.quited ~> pc["ui"] = "closed"
=============================================================================
