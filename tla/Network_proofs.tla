--------------------------- MODULE Network_proofs ---------------------------
(***************************************************************************)
(* Proofs about the network: the provider (Network), for any number of     *)
(* sessions, and the receive ring of the card (Nic), for rings and frames  *)
(* of every size.  The two modules share no variable and no constant; each *)
(* part uses its own.                                                      *)
(***************************************************************************)
EXTENDS Network, Nic, SequenceTheorems, TLAPS

(***************************************************************************)
(* The provider.  A reset lets a poll thread see that its handle is gone,  *)
(* and frees the handle and the card only when the thread has said that it *)
(* ends.                                                                   *)
(***************************************************************************)

USE NetworkAssumption DEF NetworkAssumption

Attached == {"started", "save", "create", "run", "close"}
Closing == {"busy", "wake", "wait"}
Working == {"polling", "receiving"}

PollStates == {"none", "start", "loop", "own", "poll", "sleep", "polled", "work",
               "polling", "check", "receive", "receiving", "light", "rx", "card",
               "dark", "release", "end", "gone"}

NetTypes ==
    /\ session \in 0 .. Sessions
    /\ poll_tid \in BOOLEAN /\ mutex \in BOOLEAN
    /\ at \in [AllSessions -> PollStates]
    /\ using \in [AllSessions -> Nat] /\ into \in [AllSessions -> Nat]
    /\ priv \in Nat

\* Handles belong to the last session, and none is left between two sessions.
Handles ==
    /\ handle \in {0, session}
    /\ ~mutex => handle = 0
    /\ host \in Closing \cup {"library", "events", "free", "closed", "attach"}
         => handle = 0

\* There is a thread from CreateThread to CloseWaits.
ThreadExists ==
    /\ poll_tid => /\ host \in Attached \cup Closing /\ mutex
                   /\ session # 0 /\ card = session /\ session \in open
                   /\ host \in Attached => handle = session
    /\ host \in Closing \cup {"started"} => poll_tid
    /\ host \in {"attach", "thread"} => mutex /\ session # 0 /\ card = session
    /\ host = "thread" => ~poll_tid /\ handle = session /\ session \in open

Live(s) == at[s] \notin {"none", "gone"}

\* The thread that exists is that of the last session.
OneThread ==
    \A s \in AllSessions :
        /\ Live(s) => s = session /\ poll_tid
        /\ at[s] = "end" => handle = 0
        /\ using[s] # 0 => at[s] \in Working /\ using[s] = session

\* poll_state says that the thread has started, and then that it has ended.
StateProtocol ==
    poll_tid =>
        /\ at[session] = "gone" => host \in Closing
        /\ host # "started" => at[session] # "start"
        /\ poll_state = "set" => IF host = "started" THEN at[session] # "start"
                                                     ELSE at[session] = "gone"

Session == NetTypes /\ Handles /\ ThreadExists /\ OneThread /\ StateProtocol

\* A frame is received when the card is known.
FrameForCard ==
    \A s \in AllSessions :
        /\ at[s] \in {"light", "rx"} => priv = s
        /\ at[s] = "card" => into[s] = s

LEMMA SessionInit == Init => Session
<1> SUFFICES ASSUME Init PROVE Session
  OBVIOUS
<1> USE DEF Init
<1>1. NetTypes
  <2>1. session \in 0 .. Sessions  OBVIOUS
  <2>2. poll_tid \in BOOLEAN /\ mutex \in BOOLEAN /\ priv \in Nat  OBVIOUS
  <2>3. /\ at \in [AllSessions -> PollStates]
        /\ using \in [AllSessions -> Nat] /\ into \in [AllSessions -> Nat]
    BY DEF PollStates
  <2> QED BY <2>1, <2>2, <2>3 DEF NetTypes
<1>2. Handles /\ ThreadExists  BY DEF Handles, ThreadExists, Closing
<1>3. OneThread /\ StateProtocol  BY DEF OneThread, StateProtocol, Live
<1> QED BY <1>1, <1>2, <1>3 DEF Session

LEMMA HostKeepsSession == ASSUME Session, HostNext PROVE Session'
<1> USE DEF Session, NetTypes, PollStates, Handles, ThreadExists, OneThread,
        StateProtocol, Live, Attached, Closing, Working, AllSessions, Host, netdata,
        provider, threadVars, cpuVars
<1>1. CASE HostCloses     BY <1>1 DEF HostCloses
<1>2. CASE HostRuns       BY <1>2 DEF HostRuns
<1>3. CASE NetworkReset   BY <1>3 DEF NetworkReset
<1>4. CASE NetworkClose   BY <1>4 DEF NetworkClose
<1>5. CASE CloseBusy      BY <1>5 DEF CloseBusy
<1>6. CASE CloseWakes     BY <1>6 DEF CloseWakes
<1>7. CASE CloseWaits     BY <1>7 DEF CloseWaits
<1>8. CASE CloseLibrary   BY <1>8 DEF CloseLibrary
<1>9. CASE CloseEvents    BY <1>9 DEF CloseEvents
<1>10. CASE FreeCard      BY <1>10 DEF FreeCard
<1>11. CASE AttachFails   BY <1>11 DEF AttachFails
<1>12. CASE AttachOpens   BY <1>12 DEF AttachOpens
<1>13. CASE CreateThread  BY <1>13 DEF CreateThread
<1>14. CASE ThreadStarted BY <1>14 DEF ThreadStarted
<1>15. CASE SaveCard      BY <1>15 DEF SaveCard
<1>16. CASE CreateEvents  BY <1>16 DEF CreateEvents
<1> QED BY <1>1, <1>2, <1>3, <1>4, <1>5, <1>6, <1>7, <1>8, <1>9, <1>10, <1>11,
           <1>12, <1>13, <1>14, <1>15, <1>16 DEF HostNext, HostResumes

LEMMA ThreadKeepsSession ==
    ASSUME Session, NEW s \in AllSessions, ThreadNext(s) PROVE Session'
<1> USE DEF Session, NetTypes, PollStates, Handles, ThreadExists, OneThread,
        StateProtocol, Live, Attached, Closing, Working, AllSessions, Thread, netdata,
        provider, hostVars, cpuVars, SetEvent
<1>1. CASE ThreadStarts(s)  BY <1>1 DEF ThreadStarts
<1>2. CASE ThreadLoops(s)   BY <1>2 DEF ThreadLoops
<1>3. CASE ThreadOwns(s)    BY <1>3 DEF ThreadOwns
<1>4. CASE PollTest(s)      BY <1>4 DEF PollTest
<1>5. CASE PollSleeps(s)    BY <1>5 DEF PollSleeps
<1>6. CASE PollResets(s)    BY <1>6 DEF PollResets
<1>7. CASE EnterLibrary(s)
  <2>1. at[s] \in {"work", "receive"} /\ s = session /\ handle \in {0, s}
    BY <1>7 DEF EnterLibrary
  <2>2. at' \in [AllSessions -> PollStates] /\ at'[s] \in Working
        /\ \A x \in AllSessions : x # s => at'[x] = at[x]
    BY <1>7 DEF EnterLibrary
  <2>3. using' \in [AllSessions -> Nat] /\ using'[s] = handle
        /\ \A x \in AllSessions : x # s => using'[x] = using[x]
    BY <1>7, <2>1 DEF EnterLibrary
  <2>4. UNCHANGED <<netdata, provider, hostVars, into, cpuVars>>
    BY <1>7 DEF EnterLibrary
  <2> QED BY <2>1, <2>2, <2>3, <2>4
<1>8. CASE Check(s)         BY <1>8 DEF Check
<1>9. CASE LeaveLibrary(s)
  <2>1. at[s] \in Working
    BY <1>9 DEF LeaveLibrary
  <2>a. PICK a \in {"check", "release", "light"} : at' = [at EXCEPT ![s] = a]
    BY <1>9 DEF LeaveLibrary
  <2>2. /\ at' \in [AllSessions -> PollStates]
        /\ at'[s] \in {"check", "release", "light"}
        /\ \A x \in AllSessions : x # s => at'[x] = at[x]
    BY <2>a
  <2>3. using' \in [AllSessions -> Nat] /\ using'[s] = 0
        /\ \A x \in AllSessions : x # s => using'[x] = using[x]
    BY <1>9 DEF LeaveLibrary
  <2>4. UNCHANGED <<netdata, provider, hostVars, into, cpuVars>>
    BY <1>9 DEF LeaveLibrary
  <2> QED BY <2>1, <2>2, <2>3, <2>4
<1>10. CASE LightIcon(s)    BY <1>10 DEF LightIcon
<1>11. CASE NetworkRx(s)    BY <1>11 DEF NetworkRx
<1>12. CASE CardRx(s)       BY <1>12 DEF CardRx
<1>13. CASE DarkIcon(s)     BY <1>13 DEF DarkIcon
<1>14. CASE ThreadReleases(s) BY <1>14 DEF ThreadReleases
<1>15. CASE ThreadEnds(s)   BY <1>15 DEF ThreadEnds
<1> QED BY <1>1, <1>2, <1>3, <1>4, <1>5, <1>6, <1>7, <1>8, <1>9, <1>10, <1>11,
           <1>12, <1>13, <1>14, <1>15 DEF ThreadNext

LEMMA CpuKeepsSession ==
    ASSUME NetworkTx \/ CpuResumes
    PROVE  UNCHANGED <<mutex, priv, provider, hostVars, threadVars>>
BY DEF NetworkTx, CpuResumes, CpuLights, SendBusy, Send, SendDone, SendWakes,
       CpuDarkens, netdata

LEMMA Framed ==
    ASSUME Session, UNCHANGED <<mutex, priv, provider, hostVars, threadVars>>
    PROVE  Session'
BY DEF Session, NetTypes, Handles, ThreadExists, OneThread, StateProtocol, Live,
       provider, hostVars, threadVars

LEMMA SessionStep == Session /\ [Next]_vars => Session'
<1> SUFFICES ASSUME Session, [Next]_vars PROVE Session'
  OBVIOUS
<1>1. CASE HostNext  BY <1>1, HostKeepsSession
<1>2. ASSUME NEW s \in AllSessions, ThreadNext(s) PROVE Session'
  BY <1>2, ThreadKeepsSession
<1>3. CASE NetworkTx \/ CpuResumes  BY <1>3, CpuKeepsSession, Framed
<1>4. CASE UNCHANGED vars  BY <1>4, Framed DEF vars, netdata
<1> QED BY <1>1, <1>2, <1>3, <1>4 DEF Next

LEMMA SessionOpen == Session => LibraryOpen
<1> SUFFICES ASSUME Session, NEW s \in AllSessions
             PROVE  /\ using[s] # 0 => using[s] \in open
                    /\ at[s] \notin {"none", "gone"} => card = s
  BY DEF LibraryOpen
<1> QED BY DEF Session, ThreadExists, OneThread, Live, Working

\* A reset never closes a handle a poll thread works in, and never frees a
\* card whose poll thread lives: do_close waits for poll_state.
THEOREM NetworkLibraryOpen == Spec => []LibraryOpen
<1> QED BY SessionInit, SessionStep, SessionOpen, PTL DEF Spec

LEMMA FrameStep ==
    ASSUME EarlyFrames = FALSE
    PROVE  Session /\ FrameForCard /\ [Next]_vars => FrameForCard'
<1> SUFFICES ASSUME Session, FrameForCard, [Next]_vars PROVE FrameForCard'
  OBVIOUS
<1> USE DEF FrameForCard
<1>1. ASSUME UNCHANGED <<priv, threadVars>> PROVE FrameForCard'
  BY <1>1 DEF threadVars
<1>2. CASE HostNext
  <2> USE DEF HostNext, HostResumes, netdata, threadVars
  <2>1. CASE SaveCard
    BY <2>1 DEF SaveCard, Session, OneThread, Live
  <2>2. CASE CreateThread
    BY <2>2 DEF CreateThread, Session, NetTypes
  <2>3. CASE ~SaveCard /\ ~CreateThread
    <3>1. UNCHANGED <<priv, threadVars>>
      BY <1>2, <2>3 DEF HostCloses, HostRuns, NetworkReset, NetworkClose, CloseBusy,
         CloseWakes, CloseWaits, CloseLibrary, CloseEvents, FreeCard, AttachFails,
         AttachOpens, ThreadStarted, CreateEvents
    <3> QED BY <1>1, <3>1
  <2> QED BY <2>1, <2>2, <2>3
<1>3. ASSUME NEW s \in AllSessions, ThreadNext(s) PROVE FrameForCard'
  <2> USE DEF Thread, netdata, Session, NetTypes
  <2>1. CASE NetworkRx(s)  BY <2>1 DEF NetworkRx
  <2>2. CASE CardRx(s)     BY <2>2 DEF CardRx
  <2>3. CASE LeaveLibrary(s)  BY <2>3 DEF LeaveLibrary
  <2>4. CASE LightIcon(s)  BY <2>4 DEF LightIcon
  <2>5. ASSUME UNCHANGED <<priv, into>>, NEW a, a \notin {"light", "rx", "card"},
               at' = [at EXCEPT ![s] = a]
        PROVE  FrameForCard'
    BY <2>5
  <2>6. CASE ThreadStarts(s)  BY <2>5, <2>6 DEF ThreadStarts
  <2>7. CASE ThreadLoops(s)   BY <2>5, <2>7 DEF ThreadLoops
  <2>8. CASE ThreadOwns(s)    BY <2>5, <2>8 DEF ThreadOwns
  <2>9. CASE PollTest(s)      BY <2>5, <2>9 DEF PollTest
  <2>10. CASE PollSleeps(s)   BY <2>5, <2>10 DEF PollSleeps
  <2>11. CASE PollResets(s)   BY <2>5, <2>11 DEF PollResets
  <2>12. CASE EnterLibrary(s) BY <2>5, <2>12 DEF EnterLibrary
  <2>13. CASE Check(s)        BY <2>5, <2>13 DEF Check
  <2>14. CASE DarkIcon(s)     BY <2>5, <2>14 DEF DarkIcon
  <2>15. CASE ThreadReleases(s) BY <2>5, <2>15 DEF ThreadReleases
  <2>16. CASE ThreadEnds(s)   BY <2>5, <2>16 DEF ThreadEnds
  <2> QED BY <1>3, <2>1, <2>2, <2>3, <2>4, <2>6, <2>7, <2>8, <2>9, <2>10, <2>11,
             <2>12, <2>13, <2>14, <2>15, <2>16 DEF ThreadNext
<1>4. CASE NetworkTx \/ CpuResumes  BY <1>1, <1>4, CpuKeepsSession
<1>5. CASE UNCHANGED vars  BY <1>1, <1>5 DEF vars, netdata
<1> QED BY <1>2, <1>3, <1>4, <1>5 DEF Next

\* A frame goes to the card that exists, if none arrives before
\* network_attach has saved it: a reset waits for a reception to end.
THEOREM NetworkFrameToLiveCard ==
    ASSUME EarlyFrames = FALSE
    PROVE  Spec => []FrameToLiveCard
<1>1. Init => FrameForCard  BY DEF Init, FrameForCard
<1>2. Session /\ FrameForCard => FrameToLiveCard
  <2> SUFFICES ASSUME Session, FrameForCard, NEW s \in AllSessions, at[s] = "card"
               PROVE  into[s] = card
    BY DEF FrameToLiveCard
  <2>1. card = s  BY DEF Session, OneThread, ThreadExists, Live
  <2> QED BY <2>1 DEF FrameForCard
<1>3. Session /\ FrameForCard /\ [Next]_vars => FrameForCard'  BY FrameStep
<1> QED BY <1>1, <1>2, <1>3, SessionInit, SessionStep, PTL DEF Spec

(***************************************************************************)
(* The card.  Distances are counted round the ring, from the page the      *)
(* driver reads next.                                                      *)
(***************************************************************************)

HIDE NetworkAssumption DEF NetworkAssumption

USE NicAssumption, AckAssumption DEF NicAssumption

\* How far page q is ahead of page p.
Dist(p, q) == IF q >= p THEN q - p ELSE q - p + Size

Frame == [frame : Nat, page : Pages, pages : Nat \ {0}]

NicTypes ==
    /\ mem \in [Pages -> [frame : Nat, part : Nat, next : Nat]]
    /\ unread \in Seq(Frame)
    /\ stop \in BOOLEAN /\ below \in BOOLEAN
    /\ curr \in Nat /\ bound \in Nat /\ next \in Nat /\ lag \in {0, 1} /\ npg \in Nat
    /\ rx \in {"room", "copy", "curr"} => npg > 0

\* The driver has not set up the ring.
Unused ==
    /\ stop /\ rx \in {"idle", "done"}
    /\ unread = <<>> /\ next = curr

\* BNRY is behind the driver by lag at least, and the driver behind CURR, less
\* than a ring in all; a frame for which there was room still has it.
Room ==
    /\ curr \in Pages /\ bound \in Pages /\ next \in Pages
    /\ Dist(bound, next) >= lag
    /\ Dist(bound, next) + Dist(next, curr) < Size
    /\ rx = "room" /\ ~below => bound <= curr
    /\ rx \in {"copy", "curr"} => Dist(bound, next) + Dist(next, curr) + npg < Size

\* The frames not yet read lie one after the other between next and CURR.
Apart ==
    /\ unread = <<>> => next = curr
    /\ unread # <<>> => unread[1].page = next
    /\ \A i \in 1 .. Len(unread) :
         Dist(next, unread[i].page) + unread[i].pages <= Dist(next, curr)
    /\ \A i, j \in 1 .. Len(unread) :
         i < j => Dist(next, unread[i].page) + unread[i].pages
                    <= Dist(next, unread[j].page)

\* The pages from p on hold the frame f.
Holds(p, pages, f) ==
    \A k \in 0 .. pages - 1 :
        mem[Wrap(p + k)].frame = f /\ mem[Wrap(p + k)].part = k

Intact ==
    \A i \in 1 .. Len(unread) :
        /\ Holds(unread[i].page, unread[i].pages, unread[i].frame)
        /\ mem[unread[i].page].next =
             IF i < Len(unread) THEN unread[i + 1].page ELSE curr

\* A frame that is in memory and not yet in the ring.
Copied ==
    rx = "curr" => /\ Holds(curr, npg, mem[curr].frame)
                   /\ mem[curr].next = NextPage

Ring == Room /\ Apart /\ Intact /\ Copied

NicInv == NicTypes /\ (Unused \/ Ring)

(* Distances.                                                              *)

LEMMA DistRange == \A p, q \in Pages : Dist(p, q) \in 0 .. Size - 1
BY DEF Pages, Dist, Size

LEMMA DistBeyond ==
    ASSUME NEW p \in Pages, NEW q \in Pages, NEW r \in Pages, Dist(p, q) <= Dist(p, r)
    PROVE  Dist(q, r) = Dist(p, r) - Dist(p, q)
BY DEF Pages, Dist, Size

LEMMA DistSum ==
    ASSUME NEW p \in Pages, NEW q \in Pages, NEW r \in Pages, NEW s \in Pages,
           Dist(q, r) <= Dist(q, s), Dist(p, q) + Dist(q, s) < Size
    PROVE  Dist(p, r) = Dist(p, q) + Dist(q, r)
BY DEF Pages, Dist, Size

LEMMA DistWrap ==
    ASSUME NEW p \in Pages, NEW q \in Pages, NEW k \in Nat, Dist(p, q) + k < Size
    PROVE  Wrap(q + k) \in Pages /\ Dist(p, Wrap(q + k)) = Dist(p, q) + k
BY DEF Pages, Dist, Size, Wrap

LEMMA DistZero == \A p, q \in Pages : Dist(p, p) = 0 /\ (Dist(p, q) = 0 => p = q)
BY DEF Pages, Dist, Size

LEMMA SizePositive == Size \in Nat /\ Size > 1
BY DEF Size

LEMMA NicInvInit == NicInit => NicInv
<1> SUFFICES ASSUME NicInit PROVE NicInv
  OBVIOUS
<1>1. NicTypes
  <2>1. mem \in [Pages -> [frame : Nat, part : Nat, next : Nat]]
    BY DEF NicInit, Blank
  <2>2. unread \in Seq(Frame)  BY DEF NicInit
  <2> QED BY <2>1, <2>2 DEF NicInit, NicTypes
<1>2. Unused  BY DEF NicInit, Unused
<1> QED BY <1>1, <1>2 DEF NicInv

(* The steps.                                                              *)

\* Steps that leave the ring as it is.
LEMMA SameRing ==
    ASSUME NicInv, UNCHANGED <<curr, bound, mem, next, lag, npg, unread>>,
           stop' \in BOOLEAN, below' \in BOOLEAN,
           \/ UNCHANGED <<rx, below>> /\ (stop => stop')
           \/ /\ rx' \notin {"room", "copy", "curr"} /\ UNCHANGED stop
              /\ rx \in {"idle", "done"} => rx' \in {"idle", "done"}
    PROVE  NicInv'
<1>1. NicTypes'  BY DEF NicInv, NicTypes
<1>2. CASE Unused  BY <1>1, <1>2 DEF NicInv, Unused
<1>3. CASE Ring
  <2>1. Room'  BY <1>3 DEF Ring, Room, Dist
  <2>2. Apart'  BY <1>3 DEF Ring, Apart, Dist
  <2>3. Intact'  BY <1>3 DEF Ring, Intact, Holds
  <2>4. Copied'  BY <1>3 DEF Ring, Copied, Holds, NextPage, Wrap
  <2> QED BY <1>1, <2>1, <2>2, <2>3, <2>4 DEF NicInv, Ring
<1> QED BY <1>2, <1>3 DEF NicInv

LEMMA CalledKeepsInv ==
    ASSUME NicInv, NEW pages \in FrameSizes, RxCalled(pages) PROVE NicInv'
<1> USE DEF RxCalled, driverVars
<1>1. NicTypes'  BY DEF NicInv, NicTypes
<1>2. CASE Unused  BY <1>1, <1>2 DEF NicInv, Unused
<1>3. CASE Ring
  <2>1. Room'
    <3>1. curr \in Nat /\ bound \in Nat  BY DEF NicInv, NicTypes
    <3>2. rx' \in {"done", "room"} /\ (~below' => ~(curr < bound))  BY Zenon
    <3>3. rx' \in {"done", "room"} /\ (~below' => bound <= curr)  BY <3>1, <3>2
    <3> QED BY <1>3, <3>3 DEF Ring, Room, Dist
  <2>2. Apart'  BY <1>3 DEF Ring, Apart, Dist
  <2>3. Intact'  BY <1>3 DEF Ring, Intact, Holds
  <2>4. Copied'  BY DEF Copied
  <2> QED BY <1>1, <2>1, <2>2, <2>3, <2>4 DEF NicInv, Ring
<1> QED BY <1>2, <1>3 DEF NicInv

\* What nic_rx finds free is free, though BNRY may move between its two reads.
LEMMA RoomKeepsInv == ASSUME NicInv, RxRoom PROVE NicInv'
<1> USE DEF RxRoom, driverVars
<1>1. CASE rx' = "done"
  BY <1>1, SameRing DEF NicInv, NicTypes
<1>2. CASE Avail > npg /\ rx' = "copy"
  <2>1. Ring  BY DEF NicInv, Unused
  <2>2. NicTypes'  BY <1>2 DEF NicInv, NicTypes
  <2>3. Dist(bound, next) + Dist(next, curr) + npg < Size
    <3>1. curr \in Pages /\ bound \in Pages /\ next \in Pages /\ npg \in Nat
      BY <2>1 DEF Ring, Room, NicInv, NicTypes
    <3>2. Dist(bound, next) + Dist(next, curr) < Size /\ (~below => bound <= curr)
      BY <2>1 DEF Ring, Room
    <3>3. npg > 0  BY DEF NicInv, NicTypes
    <3>4. Avail > npg  BY <1>2
    <3> HIDE DEF RxRoom
    <3> QED BY <3>1, <3>2, <3>3, <3>4 DEF Avail, Dist, Pages, Size
  <2>4. Room'  BY <1>2, <2>1, <2>3 DEF Ring, Room, Dist
  <2>5. Apart'  BY <2>1 DEF Ring, Apart, Dist
  <2>6. Intact'  BY <2>1 DEF Ring, Intact, Holds
  <2>7. Copied'  BY <1>2 DEF Copied
  <2> QED BY <2>2, <2>4, <2>5, <2>6, <2>7 DEF NicInv, Ring
<1> QED BY <1>1, <1>2

\* The pages of a frame not yet read are not among those from CURR on.
LEMMA PagesApart ==
    ASSUME NicTypes, Ring, NEW i \in 1 .. Len(unread), NEW k \in Nat,
           k < unread[i].pages, NEW n \in Nat,
           Dist(bound, next) + Dist(next, curr) + n < Size
    PROVE  /\ Wrap(unread[i].page + k) \in Pages
           /\ Dist(curr, Wrap(unread[i].page + k)) > n
<1>1. unread[i] \in Frame  BY DEF NicTypes
<1> DEFINE p == unread[i].page
           q == Wrap(p + k)
<1>2. p \in Pages /\ unread[i].pages \in Nat  BY <1>1 DEF Frame
<1>3. curr \in Pages /\ next \in Pages /\ bound \in Pages  BY DEF Ring, Room
<1>4. Dist(next, p) + unread[i].pages <= Dist(next, curr)  BY DEF Ring, Apart
<1>5. /\ Dist(next, p) \in 0 .. Size - 1 /\ Dist(next, curr) \in 0 .. Size - 1
      /\ Dist(bound, next) \in 0 .. Size - 1
  BY <1>2, <1>3, DistRange
<1>6. Dist(next, p) + k < Size /\ Size \in Nat  BY <1>2, <1>4, <1>5, SizePositive
<1>7. q \in Pages /\ Dist(next, q) = Dist(next, p) + k
  BY <1>2, <1>3, <1>6, DistWrap
<1>8. Dist(next, q) < Dist(next, curr)  BY <1>2, <1>4, <1>5, <1>7
<1>9. Dist(curr, q) = Dist(next, q) - Dist(next, curr) + Size
  <2> HIDE DEF q
  <2> QED BY <1>3, <1>7, <1>8 DEF Dist, Pages, Size
<1> QED BY <1>5, <1>6, <1>7, <1>9

LEMMA CopyKeepsInv == ASSUME NicInv, RxCopy PROVE NicInv'
<1> USE DEF RxCopy, driverVars
<1>1. Ring /\ NicTypes  BY DEF NicInv, Unused
<1>2. curr \in Pages /\ bound \in Pages /\ next \in Pages /\ npg \in Nat /\ npg > 0
      /\ Dist(bound, next) + Dist(next, curr) + npg < Size
  BY <1>1 DEF Ring, Room, NicTypes
<1>3. mem' = [p \in Pages |->
                IF Dist(curr, p) < npg
                THEN [frame |-> FrameId, part |-> Dist(curr, p),
                      next |-> IF Dist(curr, p) = 0 THEN NextPage ELSE 0]
                ELSE mem[p]]
  BY DEF Dist
<1>4. FrameId \in Nat
  <2>1. CASE unread = <<>>  BY <2>1 DEF FrameId
  <2>2. CASE unread # <<>>
    <3>0. unread[Len(unread)] \in Frame
      <4>1. unread \in Seq(Frame) /\ unread # <<>>  BY <1>1, <2>2 DEF NicTypes
      <4>2. Len(unread) \in 1 .. Len(unread)  BY <4>1
      <4> QED BY <4>1, <4>2
    <3>1. unread[Len(unread)].frame \in Nat  BY <3>0 DEF Frame
    <3>2. (unread[Len(unread)].frame % Frames) + 1 \in Nat  BY <3>1
    <3> QED BY <2>2, <3>2 DEF FrameId
  <2> QED BY <2>1, <2>2
<1>5. NextPage \in Pages
  <2>1. Dist(curr, curr) = 0  BY <1>2, DistZero
  <2>2. npg < Size
    <3>1. Dist(bound, next) \in 0 .. Size - 1 /\ Dist(next, curr) \in 0 .. Size - 1
      BY <1>2, DistRange
    <3> QED BY <1>2, <3>1, SizePositive
  <2> QED BY <1>2, <2>1, <2>2, DistWrap DEF NextPage
<1>6. NicTypes'
  <2>1. ASSUME NEW p \in Pages
        PROVE  mem'[p] \in [frame : Nat, part : Nat, next : Nat]
    <3>1. Dist(curr, p) \in Nat  BY <1>2, DistRange
    <3>2. NextPage \in Nat  BY <1>5 DEF Pages
    <3>3. mem[p] \in [frame : Nat, part : Nat, next : Nat]  BY <1>1 DEF NicTypes
    <3> HIDE DEF RxCopy
    <3> QED BY <1>3, <1>4, <3>1, <3>2, <3>3
  <2>2. mem' \in [Pages -> [frame : Nat, part : Nat, next : Nat]]
    <3> HIDE DEF RxCopy
    <3> QED BY <1>3, <2>1
  <2> QED BY <1>1, <2>2 DEF NicTypes
<1>7. Room'  BY <1>1 DEF Ring, Room, Dist
<1>8. Apart'  BY <1>1 DEF Ring, Apart, Dist
<1>9. ASSUME NEW i \in 1 .. Len(unread), NEW k \in Nat, k < unread[i].pages
      PROVE  mem'[Wrap(unread[i].page + k)] = mem[Wrap(unread[i].page + k)]
  <2>1. Wrap(unread[i].page + k) \in Pages
        /\ Dist(curr, Wrap(unread[i].page + k)) > npg
    BY <1>1, <1>2, <1>9, PagesApart
  <2>2. Dist(curr, Wrap(unread[i].page + k)) \in 0 .. Size - 1
    BY <1>2, <2>1, DistRange
  <2> HIDE DEF RxCopy
  <2> QED BY <1>2, <1>3, <2>1, <2>2
<1>10. Intact'
  <2> SUFFICES ASSUME NEW i \in 1 .. Len(unread)
               PROVE  /\ Holds(unread[i].page, unread[i].pages, unread[i].frame)'
                      /\ mem'[unread[i].page].next =
                           IF i < Len(unread) THEN unread[i + 1].page ELSE curr
    BY DEF Intact
  <2>0. unread[i] \in Frame  BY <1>1 DEF NicTypes
  <2>1. unread[i].page \in Pages /\ unread[i].pages \in Nat \ {0}  BY <2>0 DEF Frame
  <2>2. Wrap(unread[i].page + 0) = unread[i].page  BY <2>1 DEF Wrap, Pages
  <2>3. mem'[unread[i].page] = mem[unread[i].page]  BY <1>9, <2>1, <2>2
  <2>4. Holds(unread[i].page, unread[i].pages, unread[i].frame)
        /\ mem[unread[i].page].next =
             IF i < Len(unread) THEN unread[i + 1].page ELSE curr
    BY <1>1 DEF Ring, Intact
  <2>5. Holds(unread[i].page, unread[i].pages, unread[i].frame)'
    <3> SUFFICES ASSUME NEW k \in 0 .. unread[i].pages - 1
                 PROVE  /\ mem'[Wrap(unread[i].page + k)].frame = unread[i].frame
                        /\ mem'[Wrap(unread[i].page + k)].part = k
      BY DEF Holds, Wrap
    <3>1. k \in Nat /\ k < unread[i].pages  BY <2>1
    <3>2. mem'[Wrap(unread[i].page + k)] = mem[Wrap(unread[i].page + k)]
      BY <1>9, <3>1
    <3> QED BY <2>4, <3>2 DEF Holds
  <2> QED BY <2>3, <2>4, <2>5
<1>11. Copied'
  <2>1. Dist(curr, curr) = 0  BY <1>2, DistZero
  <2>2. npg < Size
    <3>1. Dist(bound, next) \in 0 .. Size - 1 /\ Dist(next, curr) \in 0 .. Size - 1
      BY <1>2, DistRange
    <3> QED BY <1>2, <3>1, SizePositive
  <2>3. mem'[curr].frame = FrameId /\ mem'[curr].next = NextPage
    <3> HIDE DEF RxCopy
    <3> QED BY <1>2, <1>3, <2>1
  <2>4. ASSUME NEW k \in 0 .. npg - 1
        PROVE  mem'[Wrap(curr + k)].frame = FrameId /\ mem'[Wrap(curr + k)].part = k
    <3>1. Wrap(curr + k) \in Pages /\ Dist(curr, Wrap(curr + k)) = k
      BY <1>2, <2>1, <2>2, DistWrap, SizePositive
    <3> HIDE DEF RxCopy
    <3> QED BY <1>2, <1>3, <3>1
  <2>5. UNCHANGED <<curr, npg>>  OBVIOUS
  <2> HIDE DEF RxCopy
  <2> QED BY <2>3, <2>4, <2>5 DEF Copied, Holds, NextPage, Wrap
<1> QED BY <1>6, <1>7, <1>8, <1>10, <1>11 DEF NicInv, Ring

LEMMA CurrentKeepsInv == ASSUME NicInv, RxCurrent PROVE NicInv'
<1> USE DEF RxCurrent, driverVars
<1> DEFINE new == [frame |-> mem[curr].frame, page |-> curr, pages |-> npg]
           n == Len(unread)
<1>1. Ring /\ NicTypes  BY DEF NicInv, Unused
<1>2. curr \in Pages /\ bound \in Pages /\ next \in Pages /\ npg \in Nat /\ npg > 0
      /\ Dist(bound, next) + Dist(next, curr) + npg < Size
      /\ Dist(bound, next) >= lag /\ lag \in {0, 1}
  BY <1>1 DEF Ring, Room, NicTypes
<1>3. Dist(bound, next) \in 0 .. Size - 1 /\ Dist(next, curr) \in 0 .. Size - 1
  BY <1>2, DistRange
<1>4. curr' \in Pages /\ Dist(next, curr') = Dist(next, curr) + npg
  <2>1. Dist(next, curr) + npg < Size  BY <1>2, <1>3, SizePositive
  <2> QED BY <1>2, <2>1, DistWrap DEF NextPage
<1>5. new \in Frame  BY <1>1, <1>2 DEF NicTypes, Frame
<1>6. /\ unread' \in Seq(Frame) /\ n \in Nat /\ Len(unread') = n + 1
      /\ unread'[n + 1] = new
      /\ \A i \in 1 .. n : unread'[i] = unread[i]
  <2>1. unread \in Seq(Frame) /\ unread' = Append(unread, new)  BY <1>1 DEF NicTypes
  <2> HIDE DEF new, RxCurrent
  <2> QED BY <1>5, <2>1, AppendProperties
<1> HIDE DEF new
<1>7. NicTypes'
  <2>1. curr' \in Nat  BY <1>4 DEF Pages
  <2> QED BY <1>1, <1>6, <2>1 DEF NicTypes
<1>8. Room'
  <2>1. Dist(bound, next) + Dist(next, curr') < Size  BY <1>2, <1>3, <1>4
  <2> QED BY <1>2, <1>4, <2>1 DEF Room, Dist
<1>9. \A i \in 1 .. n : /\ unread[i].page \in Pages /\ unread[i].pages \in Nat \ {0}
                        /\ Dist(next, unread[i].page) \in 0 .. Size - 1
  <2>1. \A i \in 1 .. n : unread[i] \in Frame  BY <1>1 DEF NicTypes
  <2>2. \A i \in 1 .. n : unread[i].page \in Pages /\ unread[i].pages \in Nat \ {0}
    BY <2>1 DEF Frame
  <2> QED BY <1>2, <2>2, DistRange
<1>10. new.page = curr /\ new.pages = npg /\ new.frame = mem[curr].frame
  BY DEF new
<1>11. Apart'
  <2>1. unread' # <<>> /\ unread'[1].page = next
    <3>1. CASE unread = <<>>
      <4>1. n = 0 /\ next = curr  BY <1>1, <3>1 DEF Ring, Apart
      <4> QED BY <1>6, <1>10, <4>1
    <3>2. CASE unread # <<>>
      <4>1. n > 0 /\ unread[1].page = next  BY <1>1, <3>2 DEF Ring, Apart, NicTypes
      <4> QED BY <1>6, <4>1
    <3> QED BY <3>1, <3>2, <1>6
  <2>2. ASSUME NEW i \in 1 .. n + 1
        PROVE  Dist(next, unread'[i].page) + unread'[i].pages <= Dist(next, curr')
    <3>1. CASE i = n + 1
      <4>1. unread'[i].page = curr /\ unread'[i].pages = npg  BY <1>6, <1>10, <3>1
      <4>2. Dist(next, curr) + npg \in Int  BY <1>2, <1>3
      <4> QED BY <1>4, <4>1, <4>2
    <3>2. CASE i \in 1 .. n
      <4>1. Dist(next, unread[i].page) + unread[i].pages <= Dist(next, curr)
        BY <1>1, <3>2 DEF Ring, Apart
      <4> QED BY <1>2, <1>3, <1>4, <1>6, <1>9, <3>2, <4>1
    <3> QED BY <1>6, <3>1, <3>2
  <2>3. ASSUME NEW i \in 1 .. n + 1, NEW j \in 1 .. n + 1, i < j
        PROVE  Dist(next, unread'[i].page) + unread'[i].pages
                 <= Dist(next, unread'[j].page)
    <3>0. i \in 1 .. n  BY <1>6, <2>3
    <3>1. CASE j = n + 1
      <4>1. Dist(next, unread[i].page) + unread[i].pages <= Dist(next, curr)
        BY <1>1, <3>0 DEF Ring, Apart
      <4> QED BY <1>6, <1>10, <3>0, <3>1, <4>1
    <3>2. CASE j \in 1 .. n
      <4>1. Dist(next, unread[i].page) + unread[i].pages
              <= Dist(next, unread[j].page)
        BY <1>1, <2>3, <3>0, <3>2 DEF Ring, Apart
      <4> QED BY <1>6, <3>0, <3>2, <4>1
    <3> QED BY <1>6, <3>1, <3>2
  <2>4. \A p : Dist(next, p)' = Dist(next, p')  BY DEF Dist
  <2> QED BY <1>6, <2>1, <2>2, <2>3 DEF Apart, Dist
<1>12. Intact'
  <2> SUFFICES ASSUME NEW i \in 1 .. n + 1
               PROVE  /\ Holds(unread'[i].page, unread'[i].pages, unread'[i].frame)
                      /\ mem[unread'[i].page].next =
                           IF i < n + 1 THEN unread'[i + 1].page ELSE curr'
    BY <1>6 DEF Intact, Holds, Wrap
  <2>1. CASE i = n + 1
    BY <1>1, <1>6, <1>10, <2>1 DEF Ring, Copied
  <2>2. CASE i \in 1 .. n
    <3>1. Holds(unread[i].page, unread[i].pages, unread[i].frame)
          /\ mem[unread[i].page].next =
               IF i < n THEN unread[i + 1].page ELSE curr
      BY <1>1, <2>2 DEF Ring, Intact
    <3>2. unread'[i] = unread[i]
          /\ unread'[i + 1].page = IF i < n THEN unread[i + 1].page ELSE curr
      BY <1>6, <1>10, <2>2
    <3> QED BY <1>6, <2>2, <3>1, <3>2
  <2> QED BY <1>6, <2>1, <2>2
<1>13. Copied'  BY DEF Copied
<1> QED BY <1>7, <1>8, <1>11, <1>12, <1>13 DEF NicInv, Ring

LEMMA StartsKeepsInv ==
    ASSUME NicInv, NEW l \in {0, 1}, DriverStarts(l) PROVE NicInv'
<1> USE DEF DriverStarts, rxVars
<1>1. bound' \in Pages /\ curr' \in Pages /\ next' = curr' /\ lag' \in {0, 1}
      /\ Dist(bound', next') = l /\ Dist(next', curr') = 0 /\ lag' = l
  BY DEF Pages, Dist, Size
<1>2. unread' = <<>> /\ rx' \in {"idle", "done"}  OBVIOUS
<1>3. NicTypes'
  <2>1. unread' \in Seq(Frame)  BY <1>2
  <2>2. curr' \in Nat /\ bound' \in Nat /\ next' \in Nat  BY <1>1 DEF Pages
  <2> QED BY <1>1, <1>2, <2>1, <2>2 DEF NicInv, NicTypes
<1> HIDE DEF DriverStarts
<1>4. Room'
  <2>1. l \in Nat /\ l < Size  BY SizePositive
  <2>2. Dist(bound, next)' = l /\ Dist(next, curr)' = 0  BY <1>1 DEF Dist
  <2> QED BY <1>1, <1>2, <2>1, <2>2 DEF Room
<1>5. Apart' /\ Intact'  BY <1>1, <1>2 DEF Apart, Intact
<1>6. Copied'  BY <1>2 DEF Copied
<1> QED BY <1>3, <1>4, <1>5, <1>6 DEF NicInv, Ring

LEMMA FreesKeepsInv == ASSUME NicInv, DriverFrees PROVE NicInv'
<1> USE DEF DriverFrees, rxVars, driverVars
<1>1. Ring /\ NicTypes  BY DEF NicInv, Unused
<1>2. curr \in Pages /\ bound \in Pages /\ next \in Pages /\ lag \in {0, 1}
      /\ Dist(bound, next) >= lag /\ Dist(bound, next) + Dist(next, curr) < Size
  BY <1>1 DEF Ring, Room, NicTypes
<1>3. bound' \in Pages /\ Dist(bound', next) = lag
  BY <1>2 DEF Pages, Dist, Size
<1>4. bound <= curr => bound' <= curr
  BY <1>2 DEF Pages, Dist, Size
<1>5. NicTypes'
  <2>1. bound' \in Nat  BY <1>3 DEF Pages
  <2> QED BY <1>1, <2>1 DEF NicTypes
<1>6. Room'
  <2>1. Dist(bound', next) <= Dist(bound, next)  BY <1>2, <1>3, DistRange
  <2>2. /\ Dist(bound, next) \in 0 .. Size - 1 /\ Dist(next, curr) \in 0 .. Size - 1
        /\ npg \in Nat /\ Size \in Nat
    BY <1>1, <1>2, DistRange, SizePositive DEF NicTypes
  <2>3. Dist(bound, next)' = lag /\ Dist(next, curr)' = Dist(next, curr)
    BY <1>3 DEF Dist
  <2>4. UNCHANGED <<rx, below, npg, lag, curr, next>>  OBVIOUS
  <2> HIDE DEF DriverFrees
  <2> QED BY <1>1, <1>2, <1>3, <1>4, <2>2, <2>3, <2>4 DEF Ring, Room
<1>7. Apart'  BY <1>1 DEF Ring, Apart, Dist
<1>8. Intact'  BY <1>1 DEF Ring, Intact, Holds
<1>9. Copied'  BY <1>1 DEF Ring, Copied, Holds, NextPage, Wrap
<1> QED BY <1>5, <1>6, <1>7, <1>8, <1>9 DEF NicInv, Ring

LEMMA ReadsKeepsInv == ASSUME NicInv, DriverReads PROVE NicInv'
<1> USE DEF DriverReads, rxVars
<1> DEFINE n == Len(unread)
<1>1. Ring /\ NicTypes  BY DEF NicInv, Unused
<1>2. curr \in Pages /\ bound \in Pages /\ next \in Pages /\ lag \in {0, 1}
      /\ Dist(bound, next) >= lag /\ Dist(bound, next) + Dist(next, curr) < Size
  BY <1>1 DEF Ring, Room, NicTypes
<1>3. unread # <<>> /\ unread[1].page = next  BY <1>1 DEF Ring, Apart
<1>4. /\ n \in Nat \ {0} /\ Len(unread') = n - 1 /\ unread' \in Seq(Frame)
      /\ \A i \in 1 .. n - 1 : unread'[i] = unread[i + 1]
  BY <1>1, <1>3, HeadTailProperties DEF NicTypes
<1>5. \A i \in 1 .. n : /\ unread[i].page \in Pages /\ unread[i].pages \in Nat \ {0}
                        /\ Dist(next, unread[i].page) \in 0 .. Size - 1
                        /\ Dist(next, unread[i].page) + unread[i].pages
                             <= Dist(next, curr)
  <2>1. \A i \in 1 .. n : unread[i] \in Frame  BY <1>1 DEF NicTypes
  <2>2. \A i \in 1 .. n : unread[i].page \in Pages /\ unread[i].pages \in Nat \ {0}
    BY <2>1 DEF Frame
  <2>3. \A i \in 1 .. n : Dist(next, unread[i].page) + unread[i].pages
                            <= Dist(next, curr)
    BY <1>1 DEF Ring, Apart
  <2> QED BY <1>2, <2>2, <2>3, DistRange
<1>6. next' = IF n > 1 THEN unread[2].page ELSE curr
  <2>1. mem[unread[1].page].next = IF 1 < n THEN unread[1 + 1].page ELSE curr
    BY <1>1, <1>4 DEF Ring, Intact
  <2> QED BY <1>3, <1>4, <2>1
<1>7. next' \in Pages /\ Dist(next, next') <= Dist(next, curr)
  <2>1. CASE n > 1
    <3>1. 2 \in 1 .. n  BY <1>4, <2>1
    <3>2. /\ unread[2].page \in Pages /\ unread[2].pages \in Nat
          /\ Dist(next, unread[2].page) \in Int
          /\ Dist(next, unread[2].page) + unread[2].pages <= Dist(next, curr)
      BY <1>5, <3>1
    <3>3. Dist(next, curr) \in Int  BY <1>2, DistRange
    <3> HIDE DEF DriverReads
    <3> QED BY <1>6, <2>1, <3>2, <3>3
  <2>2. CASE ~(n > 1)
    <3>1. next' = curr /\ Dist(next, curr) \in Int  BY <1>2, <1>6, <2>2, DistRange
    <3> QED BY <1>2, <3>1
  <2> QED BY <2>1, <2>2
<1>8. Dist(next', curr) = Dist(next, curr) - Dist(next, next')
  BY <1>2, <1>7, DistBeyond
<1>9. Dist(bound, next') = Dist(bound, next) + Dist(next, next')
  BY <1>2, <1>7, DistSum
<1>10. NicTypes'
  <2>1. next' \in Nat  BY <1>7 DEF Pages
  <2> QED BY <1>1, <1>4, <2>1 DEF NicTypes
<1>11. Room'
  <2>1. /\ Dist(bound, next) \in 0 .. Size - 1 /\ Dist(next, curr) \in 0 .. Size - 1
        /\ Dist(next, next') \in 0 .. Size - 1 /\ npg \in Nat /\ Size \in Nat
    BY <1>1, <1>2, <1>7, DistRange, SizePositive DEF NicTypes
  <2>2. Dist(bound, next)' = Dist(bound, next')
        /\ Dist(next, curr)' = Dist(next', curr)
    BY DEF Dist
  <2>3. UNCHANGED <<rx, below, npg, lag, curr, bound>>  OBVIOUS
  <2> HIDE DEF DriverReads
  <2> QED BY <1>1, <1>2, <1>7, <1>8, <1>9, <2>1, <2>2, <2>3 DEF Ring, Room
<1>12. ASSUME NEW i \in 2 .. n
       PROVE  Dist(next', unread[i].page)
                = Dist(next, unread[i].page) - Dist(next, next')
  <2>1. i \in 1 .. n /\ 2 \in 1 .. n /\ n > 1 /\ next' = unread[2].page
    BY <1>4, <1>6
  <2>2. Dist(next, unread[2].page) <= Dist(next, unread[i].page)
    <3>1. CASE i = 2  BY <1>5, <2>1, <3>1
    <3>2. CASE 2 < i
      <4>1. Dist(next, unread[2].page) + unread[2].pages
              <= Dist(next, unread[i].page)
        BY <1>1, <2>1, <3>2 DEF Ring, Apart
      <4>2. /\ Dist(next, unread[2].page) \in Int /\ unread[2].pages \in Nat
            /\ Dist(next, unread[i].page) \in Int
        BY <1>5, <2>1
      <4> QED BY <4>1, <4>2
    <3> QED BY <3>1, <3>2
  <2>3. unread[i].page \in Pages /\ unread[2].page \in Pages  BY <1>5, <2>1
  <2> HIDE DEF DriverReads
  <2> QED BY <1>2, <2>1, <2>2, <2>3, DistBeyond
<1>13. Apart'
  <2>1. unread' = <<>> => next' = curr'
    <3>1. ASSUME unread' = <<>> PROVE n = 1
      <4> HIDE DEF DriverReads
      <4>1. Len(<<>>) = 0  OBVIOUS
      <4>2. Len(unread') = 0  BY <3>1, <4>1, Zenon
      <4> QED BY <1>4, <4>2
    <3> QED BY <1>6, <3>1
  <2>2. unread' # <<>> => unread'[1].page = next'
    <3>1. ASSUME unread' # <<>> PROVE n > 1  BY <1>4, <3>1
    <3>2. n > 1 => unread'[1] = unread[2]  BY <1>4
    <3> QED BY <1>6, <3>1, <3>2
  <2>3. Dist(next, next') \in Int  BY <1>2, <1>7, DistRange
  <2>4. ASSUME NEW i \in 1 .. n - 1
        PROVE  Dist(next', unread'[i].page) + unread'[i].pages <= Dist(next', curr)
    <3>1. unread'[i] = unread[i + 1] /\ i + 1 \in 2 .. n /\ i + 1 \in 1 .. n
      BY <1>4
    <3>2. /\ Dist(next, unread[i + 1].page) \in Int /\ unread[i + 1].pages \in Nat
          /\ Dist(next, unread[i + 1].page) + unread[i + 1].pages
               <= Dist(next, curr)
      BY <1>5, <3>1
    <3>3. Dist(next, curr) \in Int  BY <1>2, DistRange
    <3>4. Dist(next', unread[i + 1].page)
            = Dist(next, unread[i + 1].page) - Dist(next, next')
      BY <1>12, <3>1
    <3> HIDE DEF DriverReads
    <3> QED BY <1>8, <2>3, <3>1, <3>2, <3>3, <3>4
  <2>5. ASSUME NEW i \in 1 .. n - 1, NEW j \in 1 .. n - 1, i < j
        PROVE  Dist(next', unread'[i].page) + unread'[i].pages
                 <= Dist(next', unread'[j].page)
    <3>1. /\ unread'[i] = unread[i + 1] /\ i + 1 \in 2 .. n /\ i + 1 \in 1 .. n
          /\ unread'[j] = unread[j + 1] /\ j + 1 \in 2 .. n /\ j + 1 \in 1 .. n
          /\ i + 1 < j + 1
      BY <1>4, <2>5
    <3>2. Dist(next, unread[i + 1].page) + unread[i + 1].pages
            <= Dist(next, unread[j + 1].page)
      BY <1>1, <3>1 DEF Ring, Apart
    <3>3. /\ Dist(next, unread[i + 1].page) \in Int /\ unread[i + 1].pages \in Nat
          /\ Dist(next, unread[j + 1].page) \in Int
      <4> HIDE DEF DriverReads, n
      <4> QED BY <1>5, <3>1
    <3>4. /\ Dist(next', unread[i + 1].page)
               = Dist(next, unread[i + 1].page) - Dist(next, next')
          /\ Dist(next', unread[j + 1].page)
               = Dist(next, unread[j + 1].page) - Dist(next, next')
      BY <1>12, <3>1
    <3> HIDE DEF DriverReads
    <3> QED BY <2>3, <3>1, <3>2, <3>3, <3>4
  <2>6. UNCHANGED curr /\ Len(unread') = n - 1  BY <1>4
  <2> HIDE DEF DriverReads, n
  <2> QED BY <2>1, <2>2, <2>4, <2>5, <2>6 DEF Apart, Dist
<1>14. Intact'
  <2> SUFFICES ASSUME NEW i \in 1 .. n - 1
               PROVE  /\ Holds(unread'[i].page, unread'[i].pages, unread'[i].frame)
                      /\ mem[unread'[i].page].next =
                           IF i < n - 1 THEN unread'[i + 1].page ELSE curr
    BY <1>4 DEF Intact, Holds, Wrap
  <2>1. unread'[i] = unread[i + 1] /\ i + 1 \in 1 .. n  BY <1>4
  <2>2. i < n - 1 => unread'[i + 1] = unread[(i + 1) + 1]  BY <1>4
  <2>3. /\ Holds(unread[i + 1].page, unread[i + 1].pages, unread[i + 1].frame)
        /\ mem[unread[i + 1].page].next =
             IF i + 1 < n THEN unread[(i + 1) + 1].page ELSE curr
    BY <1>1, <2>1 DEF Ring, Intact
  <2>4. (i + 1 < n) <=> (i < n - 1)  BY <1>4
  <2> QED BY <2>1, <2>2, <2>3, <2>4
<1>15. Copied'  BY <1>1 DEF Ring, Copied, Holds, NextPage, Wrap
<1> QED BY <1>10, <1>11, <1>13, <1>14, <1>15 DEF NicInv, Ring

LEMMA ResetKeepsInv == ASSUME NicInv, NicReset PROVE NicInv'
<1> USE DEF NicReset
<1>1. mem' \in [Pages -> [frame : Nat, part : Nat, next : Nat]]  BY DEF Blank
<1>2. unread' \in Seq(Frame)  OBVIOUS
<1>3. NicTypes'  BY <1>1, <1>2 DEF NicTypes
<1> QED BY <1>3 DEF NicInv, Unused

LEMMA NicInvStep == NicInv /\ [NicNext]_nicVars => NicInv'
<1> SUFFICES ASSUME NicInv, [NicNext]_nicVars PROVE NicInv'
  OBVIOUS
<1>0. stop \in BOOLEAN /\ below \in BOOLEAN  BY DEF NicInv, NicTypes
<1> USE DEF rxVars, driverVars
<1>1. ASSUME NEW pages \in FrameSizes, RxCalled(pages) PROVE NicInv'
  BY <1>1, CalledKeepsInv
<1>2. CASE RxRoom       BY <1>2, RoomKeepsInv
<1>3. CASE RxCopy       BY <1>3, CopyKeepsInv
<1>4. CASE RxCurrent    BY <1>4, CurrentKeepsInv
<1>5. CASE RxStatus     BY <1>0, <1>5, SameRing DEF RxStatus
<1>6. CASE RxInterrupt  BY <1>0, <1>6, SameRing DEF RxInterrupt
<1>7. CASE RxReturns    BY <1>0, <1>7, SameRing DEF RxReturns
<1>8. CASE DriverStops  BY <1>0, <1>8, SameRing DEF DriverStops
<1>9. ASSUME NEW l \in {0, 1}, DriverStarts(l) PROVE NicInv'
  BY <1>9, StartsKeepsInv
<1>10. CASE NicSoftReset BY <1>0, <1>10, SameRing DEF NicSoftReset
<1>11. CASE DriverReads BY <1>11, ReadsKeepsInv
<1>12. CASE DriverFrees BY <1>12, FreesKeepsInv
<1>13. ASSUME NEW bits \in AckValues, AckLoad(bits) PROVE NicInv'
  BY <1>0, <1>13, SameRing DEF AckLoad
<1>14. CASE AckStore    BY <1>0, <1>14, SameRing DEF AckStore
<1>15. CASE AckTest     BY <1>0, <1>15, SameRing DEF AckTest
<1>16. CASE AckLower    BY <1>0, <1>16, SameRing DEF AckLower
<1>17. CASE NicTx       BY <1>0, <1>17, SameRing DEF NicTx
<1>18. CASE NicReset    BY <1>18, ResetKeepsInv
<1>19. CASE UNCHANGED nicVars  BY <1>0, <1>19, SameRing DEF nicVars
<1> QED BY <1>1, <1>2, <1>3, <1>4, <1>5, <1>6, <1>7, <1>8, <1>9, <1>10, <1>11,
           <1>12, <1>13, <1>14, <1>15, <1>16, <1>17, <1>18, <1>19
        DEF NicNext, RxNext, DriverNext

\* The frames in the ring are whole, in their order and found by the driver,
\* for every size of ring and frame: nic_rx never writes a page that is not
\* read, although BNRY moves while it computes the room.
THEOREM NicRingIntact == NicSpec => []RingIntact
<1>1. NicInv => RingIntact
  <2> SUFFICES ASSUME NicInv PROVE RingIntact
    OBVIOUS
  <2>1. CASE Unused  BY <2>1 DEF Unused, RingIntact
  <2>2. CASE Ring
    <3>1. unread # <<>> => next # curr
      <4> SUFFICES ASSUME unread # <<>> PROVE next # curr
        OBVIOUS
      <4>1. 1 \in 1 .. Len(unread) /\ unread[1] \in Frame
        BY DEF NicInv, NicTypes
      <4>2. Dist(next, unread[1].page) + unread[1].pages <= Dist(next, curr)
        BY <2>2, <4>1 DEF Ring, Apart
      <4>3. /\ next \in Pages /\ unread[1].page = next /\ Dist(next, next) = 0
            /\ unread[1].pages \in Nat \ {0}
        BY <2>2, <4>1, DistZero DEF Ring, Room, Apart, Frame
      <4> QED BY <4>2, <4>3
    <3>2. (unread = <<>> => next = curr) /\ (unread # <<>> => unread[1].page = next)
      BY <2>2 DEF Ring, Apart
    <3>3. DOMAIN unread = 1 .. Len(unread)  BY DEF NicInv, NicTypes
    <3> QED BY <2>2, <3>1, <3>2, <3>3 DEF Ring, Intact, Holds, RingIntact
  <2> QED BY <2>1, <2>2 DEF NicInv
<1> QED BY <1>1, NicInvInit, NicInvStep, PTL DEF NicSpec
=============================================================================
