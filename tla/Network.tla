------------------------------ MODULE Network ------------------------------
(***************************************************************************)
(* A network card connected to the host: network_attach and network_close, *)
(* done by the user interface thread in a hard reset, the poll thread of   *)
(* the provider (SLiRP or Pcap), and the emulator thread, which sends.     *)
(* Session s is the s-th network_attach: its card, its handle of the       *)
(* provider's library and its poll thread are all called s, 0 is NULL.     *)
(*                                                                         *)
(* An event is "none" (NULL: setting it does nothing, waiting for it ends  *)
(* at once), "reset" or "set".  Left out: the UDP provider, frames that    *)
(* are the card's own, what the card does with a frame, and the icon's     *)
(* state: with StatusIcons every update of it is a SendMessage.            *)
(***************************************************************************)
EXTENDS Naturals

CONSTANTS
    Types,          \* providers the user configures
    StatusIcons,    \* the status bar shows the network icon
    EarlyFrames,    \* frames arrive before network_attach is done
    Sessions        \* bound: times a card is attached

ASSUME NetworkAssumption ==
    /\ Types \subseteq {"slirp", "pcap"} /\ Types # {}
    /\ StatusIcons \in BOOLEAN /\ EarlyFrames \in BOOLEAN /\ Sessions \in Nat

VARIABLES
    session, type,  \* the last session, config.network_type
    mutex, owner,   \* netdata.mutex is not NULL; the thread that owns it
    priv,           \* netdata.priv and rx: the card that gets frames
    poll_busy, poll_wake,
    card,           \* the card that exists
    handle, open,   \* slirp or pcap; the handles the library has open
    poll_tid, poll_state,
    host, closing,  \* where the UI thread is; sl or pc in do_close
    at, using, into,    \* by poll thread: where it is, in which handle, card
    cpu, sending    \* the emulator thread, and the handle it sends to

netdata == <<mutex, owner, priv, poll_busy, poll_wake>>
provider == <<handle, open, poll_tid, poll_state>>
hostVars == <<session, type, card, host, closing>>
threadVars == <<at, using, into>>
cpuVars == <<cpu, sending>>
vars == <<netdata, provider, hostVars, threadVars, cpuVars>>

AllSessions == 1 .. Sessions

Init ==
    /\ session = 0 /\ type \in Types
    /\ mutex = FALSE /\ owner = 0 /\ priv = 0
    /\ poll_busy = FALSE /\ poll_wake = "none"
    /\ card = 0
    /\ handle = 0 /\ open = {} /\ poll_tid = FALSE /\ poll_state = "none"
    /\ host = "closed" /\ closing = 0
    /\ at = [s \in AllSessions |-> "none"]
    /\ using = [s \in AllSessions |-> 0] /\ into = [s \in AllSessions |-> 0]
    /\ cpu = "run" /\ sending = 0

SetEvent(e) == IF e = "none" THEN e ELSE "set"
ResetEvent(e) == IF e = "none" THEN e ELSE "reset"

\* A thread that updates the icon waits for the UI thread to take messages.
Icon == StatusIcons => host = "run"

-----------------------------------------------------------------------------
(* The user interface thread: a hard reset or the end of the program.      *)

Host(from, to) == host = from /\ host' = to

\* Pausing has kept the emulator thread out of the card for 100 milliseconds,
\* unless it waits for this thread.
HostCloses ==
    /\ Host("run", "close")
    /\ \/ cpu = "run"
       \/ StatusIcons /\ cpu \in {"light", "dark"}
    /\ UNCHANGED <<netdata, provider, session, type, card, closing, threadVars,
                   cpuVars>>

\* Mutant: the card is freed without a call of network_close.
NetworkCloseNot ==
    /\ Host("close", "free")
    /\ UNCHANGED <<netdata, provider, session, type, card, closing, threadVars,
                   cpuVars>>

\* network_close, and do_close of the provider: the handle is NULL from here.
NetworkClose ==
    /\ host = "close"
    /\ host' = IF ~mutex THEN "free"
               ELSE IF handle = 0 THEN "events"
               ELSE IF poll_tid THEN "busy" ELSE "library"
    /\ IF mutex THEN handle' = 0 /\ closing' = handle
                ELSE UNCHANGED <<handle, closing>>
    /\ UNCHANGED <<netdata, open, poll_tid, poll_state, session, type, card,
                   threadVars, cpuVars>>

\* network_busy(0).
CloseBusy ==
    /\ Host("busy", "wake")
    /\ poll_busy' = FALSE
    /\ UNCHANGED <<mutex, owner, priv, poll_wake, provider, session, type, card,
                   closing, threadVars, cpuVars>>

CloseWakes ==
    /\ Host("wake", "wait")
    /\ poll_wake' = SetEvent(poll_wake)
    /\ UNCHANGED <<mutex, owner, priv, poll_busy, provider, session, type, card,
                   closing, threadVars, cpuVars>>

\* Mutant: the thread is not waited for.
CloseWaitsNot ==
    /\ Host("wait", "library")
    /\ poll_state' = "none"
    /\ poll_tid' = FALSE
    /\ UNCHANGED <<netdata, handle, open, session, type, card, closing,
                   threadVars, cpuVars>>

CloseWaits ==
    /\ Host("wait", "library") /\ poll_state = "set"
    /\ poll_state' = "none"
    /\ poll_tid' = FALSE
    /\ UNCHANGED <<netdata, handle, open, session, type, card, closing,
                   threadVars, cpuVars>>

CloseLibrary ==
    /\ Host("library", "events")
    /\ open' = open \ {closing}
    /\ UNCHANGED <<netdata, handle, poll_tid, poll_state, session, type, card,
                   closing, threadVars, cpuVars>>

CloseEvents ==
    /\ Host("events", "free")
    /\ poll_wake' = "none"
    /\ mutex' = FALSE /\ owner' = 0
    /\ UNCHANGED <<priv, poll_busy, provider, session, type, card, closing,
                   threadVars, cpuVars>>

\* The end of nic_close.
FreeCard ==
    /\ Host("free", "closed")
    /\ card' = 0
    /\ UNCHANGED <<netdata, provider, session, type, closing, threadVars, cpuVars>>

\* network_reset without a card, and the rest of pc_reset_hard_init.
HostRuns ==
    /\ Host("closed", "run")
    /\ UNCHANGED <<netdata, provider, session, type, card, closing, threadVars,
                   cpuVars>>

\* network_reset with one; settings may have changed before it.
NetworkReset ==
    /\ Host("closed", "attach") /\ session < Sessions
    /\ session' = session + 1
    /\ type' \in Types
    /\ mutex' = TRUE
    /\ card' = session + 1
    /\ UNCHANGED <<owner, priv, poll_busy, poll_wake, provider, closing,
                   threadVars, cpuVars>>

\* do_reset: the library gives no handle, or gives one whose filter fails,
\* which is closed and yet kept; the card closes itself when attach fails.
AttachFails ==
    /\ Host("attach", "close")
    /\ poll_tid' = FALSE /\ poll_state' = "none"
    /\ \/ handle' = 0
       \/ type = "pcap" /\ handle' = session
    /\ UNCHANGED <<netdata, open, session, type, card, closing, threadVars, cpuVars>>

AttachOpens ==
    /\ Host("attach", "thread")
    /\ handle' = session
    /\ open' = open \cup {session}
    /\ poll_tid' = FALSE /\ poll_state' = "none"
    /\ UNCHANGED <<netdata, session, type, card, closing, threadVars, cpuVars>>

CreateThread ==
    /\ Host("thread", "started")
    /\ poll_state' = "reset"
    /\ poll_tid' = TRUE
    /\ at' = [at EXCEPT ![session] = "start"]
    /\ UNCHANGED <<netdata, handle, open, session, type, card, closing, using,
                   into, cpuVars>>

ThreadStarted ==
    /\ Host("started", "save") /\ poll_state = "set"
    /\ poll_state' = "reset"
    /\ UNCHANGED <<netdata, handle, open, poll_tid, session, type, card, closing,
                   threadVars, cpuVars>>

\* network_attach: "Save the card's info."
SaveCard ==
    /\ Host("save", "create")
    /\ priv' = session
    /\ UNCHANGED <<mutex, owner, poll_busy, poll_wake, provider, session, type,
                   card, closing, threadVars, cpuVars>>

CreateEvents ==
    /\ Host("create", "run")
    /\ poll_wake' = "reset"
    /\ UNCHANGED <<mutex, owner, priv, poll_busy, provider, session, type, card,
                   closing, threadVars, cpuVars>>

HostResumes ==
    \/ NetworkClose \/ CloseBusy \/ CloseWakes \/ CloseWaits \/ CloseLibrary
    \/ CloseEvents \/ FreeCard
    \/ AttachFails \/ AttachOpens \/ CreateThread \/ ThreadStarted \/ SaveCard
    \/ CreateEvents

HostNext == HostCloses \/ HostRuns \/ NetworkReset \/ HostResumes

-----------------------------------------------------------------------------
(* poll_thread.                                                            *)

Thread(s, from, to) == at[s] = from /\ at' = [at EXCEPT ![s] = to]

ThreadStarts(s) ==
    /\ Thread(s, "start", "loop")
    /\ poll_state' = SetEvent(poll_state)
    /\ UNCHANGED <<netdata, handle, open, poll_tid, hostVars, using, into, cpuVars>>

ThreadLoops(s) ==
    /\ Thread(s, "loop", IF handle = 0 THEN "end" ELSE "own")
    /\ UNCHANGED <<netdata, provider, hostVars, using, into, cpuVars>>

\* network_wait(1): "Request ownership of the device."
ThreadOwns(s) ==
    /\ Thread(s, "own", "poll") /\ owner = 0
    /\ owner' = IF mutex THEN s ELSE 0
    /\ UNCHANGED <<mutex, priv, poll_busy, poll_wake, provider, hostVars, using,
                   into, cpuVars>>

\* network_poll.
PollTest(s) ==
    /\ Thread(s, "poll", IF poll_busy THEN "sleep" ELSE "polled")
    /\ UNCHANGED <<netdata, provider, hostVars, using, into, cpuVars>>

PollSleeps(s) ==
    /\ Thread(s, "sleep", "poll") /\ poll_wake # "reset"
    /\ poll_wake' = ResetEvent(poll_wake)
    /\ UNCHANGED <<mutex, owner, priv, poll_busy, provider, hostVars, using, into,
                   cpuVars>>

PollResets(s) ==
    /\ Thread(s, "polled", IF type = "slirp" THEN "work" ELSE "check")
    /\ poll_wake' = ResetEvent(poll_wake)
    /\ UNCHANGED <<mutex, owner, priv, poll_busy, provider, hostVars, using, into,
                   cpuVars>>

\* SLIRP_poll and SLIRP_recv or PCAP_next: the handle is read for the call.
EnterLibrary(s) ==
    /\ \/ Thread(s, "work", "polling")
       \/ Thread(s, "receive", "receiving")
    /\ using' = [using EXCEPT ![s] = handle]
    /\ UNCHANGED <<netdata, provider, hostVars, into, cpuVars>>

\* "Our queue may have been nuked."
Check(s) ==
    /\ Thread(s, "check", IF handle = 0 THEN "end" ELSE "receive")
    /\ UNCHANGED <<netdata, provider, hostVars, using, into, cpuVars>>

\* Without a frame the thread waits for ten milliseconds.
LeaveLibrary(s) ==
    /\ \/ Thread(s, "polling", "check")
       \/ Thread(s, "receiving", "release")
       \/ Thread(s, "receiving", "light") /\ (EarlyFrames \/ priv = s)
    /\ using' = [using EXCEPT ![s] = 0]
    /\ UNCHANGED <<netdata, provider, hostVars, into, cpuVars>>

\* network_rx.
LightIcon(s) ==
    /\ Thread(s, "light", "rx") /\ Icon
    /\ UNCHANGED <<netdata, provider, hostVars, using, into, cpuVars>>

NetworkRx(s) ==
    /\ Thread(s, "rx", IF priv = 0 THEN "dark" ELSE "card")
    /\ into' = [into EXCEPT ![s] = priv]
    /\ UNCHANGED <<netdata, provider, hostVars, using, cpuVars>>

CardRx(s) ==
    /\ Thread(s, "card", "dark")
    /\ into' = [into EXCEPT ![s] = 0]
    /\ UNCHANGED <<netdata, provider, hostVars, using, cpuVars>>

DarkIcon(s) ==
    /\ Thread(s, "dark", "release") /\ Icon
    /\ UNCHANGED <<netdata, provider, hostVars, using, into, cpuVars>>

ThreadReleases(s) ==
    /\ Thread(s, "release", "loop")
    /\ owner' = 0
    /\ UNCHANGED <<mutex, priv, poll_busy, poll_wake, provider, hostVars, using,
                   into, cpuVars>>

\* Mutant: a thread that leaves its loop by break does not say so.
ThreadEndsSilent(s) ==
    /\ Thread(s, "end", "gone")
    /\ poll_state' = IF owner = s THEN poll_state ELSE SetEvent(poll_state)
    /\ owner' = IF owner = s THEN 0 ELSE owner
    /\ UNCHANGED <<mutex, priv, poll_busy, poll_wake, handle, open, poll_tid,
                   hostVars, using, into, cpuVars>>

\* A thread that ends while it owns the mutex abandons it.
ThreadEnds(s) ==
    /\ Thread(s, "end", "gone")
    /\ poll_state' = SetEvent(poll_state)
    /\ owner' = IF owner = s THEN 0 ELSE owner
    /\ UNCHANGED <<mutex, priv, poll_busy, poll_wake, handle, open, poll_tid,
                   hostVars, using, into, cpuVars>>

ThreadNext(s) ==
    \/ ThreadStarts(s) \/ ThreadLoops(s) \/ ThreadOwns(s)
    \/ PollTest(s) \/ PollSleeps(s) \/ PollResets(s)
    \/ EnterLibrary(s) \/ Check(s) \/ LeaveLibrary(s)
    \/ LightIcon(s) \/ NetworkRx(s) \/ CardRx(s) \/ DarkIcon(s)
    \/ ThreadReleases(s) \/ ThreadEnds(s)

-----------------------------------------------------------------------------
(* The emulator thread: network_tx, do_send of the provider.               *)

Cpu(from, to) == cpu = from /\ cpu' = to

NetworkTx ==
    /\ Cpu("run", "light") /\ host = "run" /\ card # 0
    /\ UNCHANGED <<netdata, provider, hostVars, threadVars, sending>>

CpuLights ==
    /\ Cpu("light", IF handle = 0 THEN "dark" ELSE "busy") /\ Icon
    /\ UNCHANGED <<netdata, provider, hostVars, threadVars, sending>>

SendBusy ==
    /\ Cpu("busy", "send")
    /\ poll_busy' = TRUE
    /\ UNCHANGED <<mutex, owner, priv, poll_wake, provider, hostVars, threadVars,
                   sending>>

Send ==
    /\ Cpu("send", "sent")
    /\ sending' = handle
    /\ UNCHANGED <<netdata, provider, hostVars, threadVars>>

SendDone ==
    /\ Cpu("sent", "wake")
    /\ sending' = 0
    /\ poll_busy' = FALSE
    /\ UNCHANGED <<mutex, owner, priv, poll_wake, provider, hostVars, threadVars>>

\* Mutant: the event is not set.
SendWakesNot ==
    /\ Cpu("wake", "dark")
    /\ UNCHANGED <<netdata, provider, hostVars, threadVars, sending>>

SendWakes ==
    /\ Cpu("wake", "dark")
    /\ poll_wake' = SetEvent(poll_wake)
    /\ UNCHANGED <<mutex, owner, priv, poll_busy, provider, hostVars, threadVars,
                   sending>>

CpuDarkens ==
    /\ Cpu("dark", "run") /\ Icon
    /\ UNCHANGED <<netdata, provider, hostVars, threadVars, sending>>

CpuResumes == CpuLights \/ SendBusy \/ Send \/ SendDone \/ SendWakes \/ CpuDarkens

Next ==
    \/ HostNext
    \/ \E s \in AllSessions : ThreadNext(s)
    \/ NetworkTx \/ CpuResumes

Spec == Init /\ [][Next]_vars

\* The host schedules every thread; nobody need send, and no frame need come.
FairSpec ==
    /\ Spec
    /\ WF_vars(HostResumes) /\ WF_vars(CpuResumes)
    /\ \A s \in AllSessions : WF_vars(ThreadNext(s))

-----------------------------------------------------------------------------
(* Properties.                                                             *)

\* A poll thread never works in a handle that the library has closed, and
\* none is left when the card it serves is gone.
LibraryOpen ==
    \A s \in AllSessions :
        /\ using[s] # 0 => using[s] \in open
        /\ at[s] \notin {"none", "gone"} => card = s

\* A frame goes to the card that exists, not to one that a reset has freed.
FrameToLiveCard == \A s \in AllSessions : at[s] = "card" => into[s] = card

\* Closing the network and attaching to it come to an end, wherever the poll
\* thread is: "Wait for the thread to finish." ends.
CloseEnds == host # "run" ~> host \in {"run", "closed"}

\* A poll thread that sleeps while the emulator thread sends is woken.
PollResumes == \A s \in AllSessions : at[s] = "sleep" ~> at[s] # "sleep"
=============================================================================
