---------------------------- MODULE Timer_proofs ----------------------------
(***************************************************************************)
(* What holds of timer.c for every table of timers and every length of     *)
(* slice, as long as no callback calls timer_process again: the invariant, *)
(* and that the table implements the alarm clock.                          *)
(***************************************************************************)
EXTENDS Timer, SequenceTheorems, TLAPS

\* The call of timer_process in progress, if any, is the only one.
OneCall ==
    calls = <<>> \/ \E c \in CallType :
        /\ calls = <<c>>
        /\ \/ c.caller = "slice" /\ spent = 0
           \/ c.caller = "device" /\ c.sets \in Timers /\ (c.sets \in Synced => spent = 0)

\* A timer that is not set has time left, or none, for when it is resumed.
CountsAhead == \A t \in Timers : Running \/ t \notin Armed => count[t] >= 0

\* The CPU does not run past the lowest count by more than the rounding.
LatchCovers ==
    Running => /\ timer_count >= 0 /\ timer_count <= latch
               /\ \A t \in Enabled(count, enable) : latch <= count[t] + Slack

\* enable[] has every timer that is due, and none that was stopped since.
SnapshotFresh ==
    ~Running => /\ \A t \in Enabled(count, enable) : t \in Head(calls).enable \/ count[t] > 0
                /\ Head(calls).enable \subseteq Enabled(count, enable) \cup {t \in SelfEnabled : count[t] = 0}

TimerInv ==
    /\ TimerTypeOK /\ OneCall /\ CountsAhead /\ LatchCovers /\ SnapshotFresh
    /\ NeverVeryLate
(***************************************************************************)
(* Calls of timer_process.                                                 *)
(***************************************************************************)
\* A sequence of one call: its head, its tail and a change of its enable[].
LEMMA OneElement ==
    \A c : /\ <<c>> # <<>> /\ Head(<<c>>) = c /\ Tail(<<c>>) = <<>>
           /\ <<c>> \o <<>> = <<c>>
           /\ \A E : [<<c>> EXCEPT ![1].enable = E] = <<[c EXCEPT !.enable = E]>>
  OBVIOUS

\* While timer_process runs, its call is the only one and Due reads it.
LEMMA TheCall ==
    ASSUME OneCall, ~Running
    PROVE  \E c \in CallType :
             /\ calls = <<c>> /\ Head(calls) = c /\ Tail(calls) = <<>>
             /\ Due = {t \in c.enable : count[t] <= 0}
             /\ \/ c.caller = "slice" /\ spent = 0
                \/ /\ c.caller = "device" /\ c.sets \in Timers
                   /\ c.sets \in Synced => spent = 0
  <1>1. PICK c \in CallType :
           /\ calls = <<c>>
           /\ \/ c.caller = "slice" /\ spent = 0
              \/ c.caller = "device" /\ c.sets \in Timers /\ (c.sets \in Synced => spent = 0)
    BY DEF OneCall, Running
  <1>2. Head(calls) = c /\ Tail(calls) = <<>>
    BY <1>1, OneElement
  <1> QED BY <1>1, <1>2 DEF Due

\* The counts are charged exactly what was not charged yet: every timer that
\* was set still is, and no timer's time left changes.
LEMMA ProcessStep ==
    ASSUME TimerInv, Running, spent' \in 0..ran, UNCHANGED enable,
           NEW elapsed \in Int, NEW caller \in {"slice", "device"},
           NEW t \in Timers \cup {None},
           Uncharged = elapsed + spent',
           Process(count, elapsed, caller, t)
    PROVE  /\ count' \in [Timers -> Int]
           /\ calls' = <<[enable |-> Enabled(count, enable), caller |-> caller, sets |-> t]>>
           /\ ~Running'
           /\ Armed' = Armed /\ Left' = Left
           /\ CountsAhead' /\ LatchCovers' /\ SnapshotFresh' /\ NeverVeryLate'
  <1> DEFINE c == [enable |-> Enabled(count, enable), caller |-> caller, sets |-> t]
             S == Enabled(count, enable)
  <1>1. TimerTypeOK /\ calls = <<>>
    BY DEF TimerInv, Running
  <1>2. S \subseteq Timers
    BY <1>1, TimerAssumption DEF TimerTypeOK, Enabled
  <1>3. count' = [u \in Timers |-> IF u \in S THEN count[u] - elapsed ELSE count[u]]
    BY DEF Process
  <1>4. calls' = <<c>>
    BY <1>1, OneElement DEF Process
  <1>5. ~Running' /\ Head(calls') = c
    BY <1>4, OneElement DEF Running
  <1>6. Due' = {u \in S : count'[u] <= 0}
    BY <1>5 DEF Due
  <1>7. count \in [Timers -> Int] /\ count' \in [Timers -> Int]
    BY <1>1, <1>3 DEF TimerTypeOK
  <1>8. Armed = S
    BY DEF Armed, Due
  <1>9. Enabled(count', enable') \subseteq S
    <2> SUFFICES ASSUME NEW u \in SelfEnabled, count'[u] # 0, u \notin S
                 PROVE  FALSE
      BY DEF Enabled
    <2>1. u \in Timers
      BY TimerAssumption
    <2> QED BY <2>1, <1>3 DEF Enabled
  <1>10. \A u \in S : u \in Enabled(count', enable') \/ (u \in SelfEnabled /\ count'[u] = 0)
    BY DEF Enabled
  <1>11. Armed' = S
    BY <1>6, <1>7, <1>9, <1>10, <1>2 DEF Armed
  <1>12. Uncharged' = spent' /\ Uncharged = elapsed + spent' /\ spent' \in Int
    <2>1. spent' \in Int
      BY <1>1 DEF TimerTypeOK
    <2>2. Uncharged' = spent'
      BY <1>5 DEF Uncharged
    <2> QED BY <2>1, <2>2
  <1>13. ASSUME NEW u \in Timers
         PROVE  (IF u \in S THEN count'[u] - spent' ELSE count'[u])
                  = (IF u \in S THEN count[u] - Uncharged ELSE count[u])
    BY <1>3, <1>7, <1>12
  <1>14. Left' = Left
    BY <1>8, <1>11, <1>12, <1>13 DEF Left
  <1>15. CountsAhead'
    BY <1>3, <1>5, <1>8, <1>11 DEF CountsAhead, TimerInv
  <1>16. SnapshotFresh'
    <2>1. \A u \in Enabled(count', enable') : u \in Head(calls').enable
      BY <1>5, <1>9
    <2>2. Head(calls').enable \subseteq Enabled(count', enable') \cup {u \in SelfEnabled : count'[u] = 0}
      BY <1>5, <1>10
    <2> QED BY <2>1, <2>2 DEF SnapshotFresh
  <1>17. NeverVeryLate'
    BY <1>8, <1>11, <1>14 DEF NeverVeryLate, TimerInv
  <1> QED BY <1>4, <1>5, <1>7, <1>8, <1>11, <1>14, <1>15, <1>16, <1>17 DEF LatchCovers
(***************************************************************************)
(* The invariant, one lemma per action.                                    *)
(***************************************************************************)
\* No call: the parts of the invariant about calls in progress are void.
LEMMA NoCall ==
    ASSUME Running
    PROVE  Due = {} /\ Armed = Enabled(count, enable) /\ OneCall /\ SnapshotFresh
  BY DEF Running, Due, Armed, OneCall, SnapshotFresh

\* One call: it is a sequence of calls, and the only one.
LEMMA CallType1 ==
    ASSUME NEW c \in CallType
    PROVE  <<c>> \in Seq(CallType)
  OBVIOUS

\* Only timers are set.
LEMMA ArmedAreTimers ==
    ASSUME TimerTypeOK, OneCall
    PROVE  Armed \subseteq Timers /\ Enabled(count, enable) \subseteq Timers
  <1>1. Enabled(count, enable) \subseteq Timers
    BY TimerAssumption DEF Enabled, TimerTypeOK
  <1>2. Due \subseteq Timers
    <2>1. CASE Running
      BY <2>1, NoCall
    <2>2. CASE ~Running
      BY <2>2, TheCall DEF CallType
    <2> QED BY <2>1, <2>2
  <1> QED BY <1>1, <1>2 DEF Armed

LEMMA InitInv == Init => TimerInv
  <1> SUFFICES ASSUME Init PROVE TimerInv
    OBVIOUS
  <1> USE DEF Init
  <1>1. Running
    BY DEF Running
  <1>2. TimerTypeOK
    BY TimerAssumption DEF TimerTypeOK
  <1>3. Enabled(count, enable) \subseteq Timers
    BY TimerAssumption DEF Enabled
  <1>4. CountsAhead
    BY DEF CountsAhead
  <1>5. LatchCovers
    BY <1>3, TimerAssumption DEF LatchCovers
  <1>6. NeverVeryLate
    <2> SUFFICES ASSUME NEW t \in Armed PROVE Left[t] >= -(MaxSlice + Slack)
      BY DEF NeverVeryLate
    <2>1. t \in Timers
      BY <1>1, <1>3, NoCall
    <2>2. Uncharged = 0
      BY <1>1 DEF Uncharged
    <2>3. Left[t] = 0
      BY <2>1, <2>2 DEF Left
    <2> QED BY <2>3, TimerAssumption
  <1> QED BY <1>1, <1>2, <1>4, <1>5, <1>6, NoCall DEF TimerInv

\* While the guest runs no count changes; the next slice may end later only
\* by what is left of it.
LEMMA RunningLate ==
    ASSUME TimerTypeOK, Running, LatchCovers
    PROVE  NeverVeryLate
  <1> SUFFICES ASSUME NEW t \in Armed PROVE Left[t] >= -(MaxSlice + Slack)
    BY DEF NeverVeryLate
  <1>1. t \in Enabled(count, enable) /\ t \in Timers
    BY NoCall, TimerAssumption DEF Enabled, TimerTypeOK
  <1>2. Left[t] = count[t] - (latch - timer_count + spent)
    BY <1>1 DEF Left, Uncharged
  <1>3. count[t] \in Int /\ latch \in Int /\ timer_count \in Int /\ spent \in Int
          /\ spent <= MaxSlice
    BY <1>1, TimerAssumption DEF TimerTypeOK
  <1>4. timer_count >= 0 /\ latch <= count[t] + Slack
    BY <1>1 DEF LatchCovers
  <1> QED BY <1>2, <1>3, <1>4, TimerAssumption

LEMMA ExecuteInv ==
    ASSUME TimerInv, NEW d \in 1..MaxSlice, Execute(d)
    PROVE  TimerInv'
  <1> USE DEF TimerInv, Execute
  <1>1. Running /\ Running' /\ UNCHANGED <<count, enable, latch, timer_count>>
    BY DEF Running
  <1>2. TimerTypeOK'
    BY TimerAssumption DEF TimerTypeOK
  <1>3. CountsAhead' /\ LatchCovers'
    BY <1>1 DEF CountsAhead, LatchCovers
  <1>4. OneCall' /\ SnapshotFresh'
    BY <1>1 DEF Running, OneCall, SnapshotFresh
  <1>5. NeverVeryLate'
    BY <1>1, <1>2, <1>3, RunningLate, PTL
  <1> QED BY <1>2, <1>3, <1>4, <1>5
\* At the end of a slice that reached the next timer all of it is charged.
LEMMA EndPeriodEnters ==
    ASSUME TimerInv, EndPeriod, timer_count' <= 0
    PROVE  /\ spent' = 0 /\ spent' \in 0..ran /\ UNCHANGED <<enable, ran>>
           /\ latch - timer_count' \in Int
           /\ Uncharged = (latch - timer_count') + spent'
           /\ Process(count, latch - timer_count', "slice", None)
  <1>1. TimerTypeOK /\ Running
    BY DEF TimerInv, EndPeriod
  <1>2. /\ spent' = 0 /\ UNCHANGED <<enable, ran>>
        /\ timer_count' = timer_count - spent
        /\ Process(count, latch - timer_count', "slice", None)
    BY DEF EndPeriod
  <1>3. /\ ran \in Nat /\ spent \in Int /\ latch \in Int /\ timer_count \in Int
    BY <1>1, TimerAssumption DEF TimerTypeOK
  <1>4. Uncharged = latch - timer_count + spent
    BY <1>1 DEF Uncharged
  <1> QED BY <1>2, <1>3, <1>4

\* A device that calls timer_clock has all of it charged, another what the
\* slices before this one had not.
LEMMA DeviceEnters ==
    ASSUME TimerInv, NEW t \in Timers, DeviceAccess(t)
    PROVE  /\ Running /\ spent' \in 0..ran /\ UNCHANGED <<enable, ran>>
           /\ t \in Synced => spent' = 0
           /\ timer_count' \in Int
           /\ latch - timer_count' \in Int
           /\ Uncharged = (latch - timer_count') + spent'
           /\ Process(count, latch - timer_count', "device", t)
  <1> DEFINE clocked == IF t \in Synced THEN spent ELSE 0
  <1>1. TimerTypeOK /\ Running
    BY DEF TimerInv, DeviceAccess
  <1>2. /\ UNCHANGED <<enable, ran>>
        /\ timer_count' = timer_count - clocked
        /\ spent' = spent - clocked
        /\ Process(count, latch - timer_count', "device", t)
    BY DEF DeviceAccess
  <1>3. /\ ran \in Nat /\ spent \in 0..ran /\ latch \in Int /\ timer_count \in Int
    BY <1>1, TimerAssumption DEF TimerTypeOK
  <1>4. Uncharged = latch - timer_count + spent
    BY <1>1 DEF Uncharged
  <1> QED BY <1>1, <1>2, <1>3, <1>4

LEMMA EndPeriodInv ==
    ASSUME TimerInv, EndPeriod
    PROVE  TimerInv'
  <1>1. TimerTypeOK /\ Running
    BY DEF TimerInv, EndPeriod
  <1>2. CASE timer_count' <= 0
    <2>1. /\ spent' = 0 /\ spent' \in 0..ran /\ UNCHANGED <<enable, ran>>
          /\ latch - timer_count' \in Int
          /\ Uncharged = (latch - timer_count') + spent'
          /\ Process(count, latch - timer_count', "slice", None)
      BY <1>2, EndPeriodEnters
    <2> DEFINE c == [enable |-> Enabled(count, enable), caller |-> "slice", sets |-> None]
    <2>2. /\ count' \in [Timers -> Int] /\ calls' = <<c>> /\ ~Running'
          /\ CountsAhead' /\ LatchCovers' /\ SnapshotFresh' /\ NeverVeryLate'
      BY <1>1, <2>1, ProcessStep
    <2>3. c \in CallType
      BY <1>1, TimerAssumption DEF CallType, Callers, Enabled, TimerTypeOK
    <2>4. OneCall'
      BY <2>1, <2>2, <2>3 DEF OneCall
    <2>5. TimerTypeOK'
      <3>1. calls' \in Seq(CallType)
        BY <2>2, <2>3, CallType1
      <3>2. latch' \in Int /\ timer_count' \in Int
        BY <1>1, <1>2, TimerAssumption DEF EndPeriod, TimerTypeOK
      <3> QED BY <1>1, <2>1, <2>2, <3>1, <3>2 DEF TimerTypeOK
    <2> QED BY <2>2, <2>4, <2>5 DEF TimerInv
  <1>3. CASE ~(timer_count' <= 0)
    <2>1. /\ timer_count' = timer_count - spent /\ spent' = 0 /\ ran' = 0
          /\ UNCHANGED <<count, latch, calls, enable>>
      BY <1>3 DEF EndPeriod
    <2>2. timer_count' \in Int /\ timer_count' > 0 /\ Running'
      BY <1>1, <1>3, <2>1, TimerAssumption DEF TimerTypeOK, Running
    <2>3. TimerTypeOK'
      BY <1>1, <2>1, <2>2, TimerAssumption DEF TimerTypeOK
    <2>4. CountsAhead' /\ LatchCovers'
      <3>1. spent \in Int /\ spent >= 0 /\ timer_count \in Int /\ latch \in Int
        BY <1>1, TimerAssumption DEF TimerTypeOK
      <3>2. timer_count' <= latch'
        BY <1>1, <2>1, <3>1 DEF LatchCovers, TimerInv
      <3> QED BY <1>1, <2>1, <2>2, <3>2 DEF CountsAhead, LatchCovers, TimerInv
    <2>5. OneCall' /\ SnapshotFresh'
      BY <2>2 DEF Running, OneCall, SnapshotFresh
    <2>6. NeverVeryLate'
      BY <2>2, <2>3, <2>4, RunningLate, PTL
    <2> QED BY <2>3, <2>4, <2>5, <2>6 DEF TimerInv
  <1> QED BY <1>2, <1>3

LEMMA DeviceAccessInv ==
    ASSUME TimerInv, NEW t \in Timers, DeviceAccess(t)
    PROVE  TimerInv'
  <1> DEFINE c == [enable |-> Enabled(count, enable), caller |-> "device", sets |-> t]
  <1>1. TimerTypeOK /\ latch' = 0
    BY DEF TimerInv, DeviceAccess
  <1>2. /\ Running /\ spent' \in 0..ran /\ UNCHANGED <<enable, ran>>
        /\ t \in Synced => spent' = 0
        /\ timer_count' \in Int
        /\ latch - timer_count' \in Int
        /\ Uncharged = (latch - timer_count') + spent'
        /\ Process(count, latch - timer_count', "device", t)
    BY DeviceEnters
  <1>3. /\ count' \in [Timers -> Int] /\ calls' = <<c>> /\ ~Running'
        /\ CountsAhead' /\ LatchCovers' /\ SnapshotFresh' /\ NeverVeryLate'
    BY <1>2, ProcessStep
  <1>4. c \in CallType
    BY <1>1, TimerAssumption DEF CallType, Callers, Enabled, TimerTypeOK
  <1>5. OneCall'
    BY <1>2, <1>3, <1>4 DEF OneCall
  <1>6. TimerTypeOK'
    <2>1. calls' \in Seq(CallType)
      BY <1>3, <1>4, CallType1
    <2> QED BY <1>1, <1>2, <1>3, <2>1 DEF TimerTypeOK
  <1> QED BY <1>3, <1>5, <1>6 DEF TimerInv
(***************************************************************************)
(* A callback.                                                             *)
(***************************************************************************)
\* What a callback does to the counts: its own goes on by a period, is set to
\* one or stops at zero; others are left alone or set to a period.
LEMMA CallbackCounts ==
    ASSUME TimerTypeOK, NEW t \in Timers, CallbackSets(t)
    PROVE  /\ count' \in [Timers -> Int]
           /\ \/ \E p \in Periods : count'[t] \in {count[t] + p, p}
              \/ t \in SelfEnabled /\ count'[t] = 0
           /\ \A u \in Timers \ {t} : \/ count'[u] = count[u]
                                      \/ u \in SelfEnabled /\ count'[u] \in Periods
           /\ \/ enable' = enable
              \/ enable' = enable \ {t} /\ count'[t] > 0
  <1>0. PICK p \in Periods, q \in Periods, set \in SUBSET {r \in Timers : <<t, r>> \in Rings} :
           \E own \in {count[t] + p, p} \cup (IF t \in SelfEnabled THEN {0} ELSE {}) :
             count' = [u \in Timers |-> CASE u = t -> own
                                         [] u \in set \ {t} -> q
                                         [] OTHER -> count[u]]
    BY DEF CallbackSets
  <1>1. PICK own \in {count[t] + p, p} \cup (IF t \in SelfEnabled THEN {0} ELSE {}) :
             count' = [u \in Timers |-> CASE u = t -> own
                                         [] u \in set \ {t} -> q
                                         [] OTHER -> count[u]]
    BY <1>0
  <1>2. /\ count \in [Timers -> Int] /\ p \in Int /\ q \in Int /\ own \in Int
    BY TimerAssumption DEF TimerTypeOK
  <1>3. set \subseteq SelfEnabled
    BY TimerAssumption
  <1>4. count' \in [Timers -> Int]
    <2> SUFFICES ASSUME NEW u \in Timers
                 PROVE  (CASE u = t -> own [] u \in set \ {t} -> q [] OTHER -> count[u]) \in Int
      BY <1>1
    <2>1. CASE u = t
      BY <2>1, <1>2
    <2>2. CASE u # t /\ u \in set
      BY <2>2, <1>2
    <2>3. CASE u # t /\ u \notin set
      BY <2>3, <1>2
    <2> QED BY <2>1, <2>2, <2>3
  <1>5. count'[t] = own
    BY <1>1
  <1>6. \A u \in Timers \ {t} : \/ count'[u] = count[u]
                                \/ u \in SelfEnabled /\ count'[u] \in Periods
    <2> SUFFICES ASSUME NEW u \in Timers \ {t}
                 PROVE  \/ count'[u] = count[u]
                        \/ u \in SelfEnabled /\ count'[u] \in Periods
      OBVIOUS
    <2>1. CASE u \in set
      <3>1. count'[u] = q
        BY <2>1, <1>1
      <3> QED BY <3>1, <2>1, <1>3
    <2>2. CASE u \notin set
      <3>1. count'[u] = count[u]
        BY <2>2, <1>1
      <3> QED BY <3>1
    <2> QED BY <2>1, <2>2
  <1> QED BY <1>4, <1>5, <1>6 DEF CallbackSets

\* The timers set by a callback are those it has no part in, and itself or
\* another for a period; none is forgotten.
LEMMA FireStep ==
    ASSUME TimerInv, NEW t \in Timers, Fire(t)
    PROVE  /\ TimerTypeOK' /\ OneCall' /\ CountsAhead' /\ SnapshotFresh'
           /\ ~Running /\ ~Running' /\ UNCHANGED <<spent, ran>>
           /\ t \in Armed /\ count[t] <= 0
           /\ \A u \in Armed : count[t] <= count[u]
           /\ Armed \ {t} \subseteq Armed'
           /\ \A u \in Armed' \ {t} : \/ u \in Armed /\ count'[u] = count[u]
                                      \/ count'[u] \in Periods
           /\ t \in Armed' => \E p \in Periods : count'[t] \in {count[t] + p, p}
  <1>1. TimerTypeOK /\ OneCall /\ CountsAhead /\ SnapshotFresh
    BY DEF TimerInv
  <1>2. ~Running /\ t \in Due
    BY DEF Fire, Lowest, Due
  <1>3. PICK c \in CallType :
           /\ calls = <<c>> /\ Head(calls) = c
           /\ Due = {u \in c.enable : count[u] <= 0}
           /\ \/ c.caller = "slice" /\ spent = 0
              \/ /\ c.caller = "device" /\ c.sets \in Timers
                 /\ c.sets \in Synced => spent = 0
    BY <1>1, <1>2, TheCall
  <1> DEFINE snap == IF t \in Enabled(count', enable') THEN c.enable ELSE c.enable \ {t}
             d == [c EXCEPT !.enable = snap]
  <1>4. calls' = <<d>>
    <2>1. calls' = [calls EXCEPT ![1].enable =
                      IF t \in Enabled(count', enable') THEN @ ELSE @ \ {t}]
      BY DEF Fire
    <2> QED BY <2>1, <1>3
  <1>5. d \in CallType /\ d.enable = snap /\ d.caller = c.caller /\ d.sets = c.sets
    BY DEF CallType
  <1>6. ~Running' /\ Head(calls') = d /\ Due' = {u \in snap : count'[u] <= 0}
    <2>1. ~Running' /\ Head(calls') = d
      BY <1>4, OneElement DEF Running
    <2>2. Due' = {u \in Head(calls').enable : count'[u] <= 0}
      BY <2>1 DEF Due
    <2> QED BY <1>5, <2>1, <2>2
  <1>7. /\ count' \in [Timers -> Int]
        /\ \/ \E p \in Periods : count'[t] \in {count[t] + p, p}
           \/ t \in SelfEnabled /\ count'[t] = 0
        /\ \A u \in Timers \ {t} : \/ count'[u] = count[u]
                                   \/ u \in SelfEnabled /\ count'[u] \in Periods
        /\ \/ enable' = enable
           \/ enable' = enable \ {t} /\ count'[t] > 0
    BY <1>1, CallbackCounts DEF Fire
  <1>8. UNCHANGED <<latch, timer_count, spent, ran>>
    BY DEF Fire
  <1>9. TimerTypeOK' /\ OneCall'
    <2>1. calls' \in Seq(CallType)
      BY <1>4, <1>5, CallType1
    <2>2. TimerTypeOK'
      BY <1>1, <1>7, <1>8, <2>1 DEF TimerTypeOK
    <2>3. OneCall'
      BY <1>3, <1>4, <1>5, <1>8 DEF OneCall
    <2> QED BY <2>2, <2>3
  <1>10. /\ c.enable \subseteq Timers
         /\ \A u \in Enabled(count, enable) : u \in c.enable \/ count[u] > 0
         /\ c.enable \subseteq Enabled(count, enable) \cup {u \in SelfEnabled : count[u] = 0}
    BY <1>1, <1>2, <1>3 DEF SnapshotFresh, CallType
  <1>11. /\ Enabled(count, enable) \subseteq Timers /\ Enabled(count', enable') \subseteq Timers
         /\ Always \cap SelfEnabled = {} /\ enable \cap SelfEnabled = {} /\ enable' \cap SelfEnabled = {}
    BY <1>1, <1>9, TimerAssumption DEF Enabled, TimerTypeOK
  \* The other timers.
  <1>12. ASSUME NEW u \in Timers, u # t
         PROVE  /\ u \in Enabled(count, enable) => u \in Enabled(count', enable')
                /\ u \in Enabled(count', enable')
                     => \/ u \in Enabled(count, enable) /\ count'[u] = count[u]
                        \/ count'[u] \in Periods
                /\ u \in snap <=> u \in c.enable
                /\ count'[u] = count[u] \/ (u \in SelfEnabled /\ count'[u] \in Periods)
    <2>1. CASE count'[u] = count[u]
      BY <2>1, <1>7, <1>12 DEF Enabled
    <2>2. CASE u \in SelfEnabled /\ count'[u] \in Periods
      <3>1. u \in Enabled(count', enable')
        BY <2>2, TimerAssumption DEF Enabled
      <3> QED BY <2>2, <3>1, <1>12
    <2> QED BY <2>1, <2>2, <1>7, <1>12
  \* The timer that rings.
  <1>13. t \in c.enable /\ count[t] <= 0
    BY <1>2, <1>3
  <1>14. t \in snap <=> t \in Enabled(count', enable')
    BY <1>13
  <1>15. t \in Armed' => t \in Enabled(count', enable')
    BY <1>6, <1>14 DEF Armed
  <1>16. t \in Enabled(count', enable') => \E p \in Periods : count'[t] \in {count[t] + p, p}
    BY <1>7, <1>11 DEF Enabled
  <1>17. t \notin Enabled(count', enable') => count'[t] >= 0
    BY <1>7, <1>10, <1>11, <1>13 DEF Enabled
  <1>18. CountsAhead'
    <2> SUFFICES ASSUME NEW u \in Timers, u \notin Armed'
                 PROVE  count'[u] >= 0
      BY <1>6 DEF CountsAhead
    <2>1. CASE u = t
      BY <2>1, <1>17 DEF Armed
    <2>2. CASE u # t
      <3>1. u \notin Enabled(count', enable') /\ ~(u \in c.enable /\ count'[u] <= 0)
        BY <2>2, <1>6, <1>12 DEF Armed
      <3>2. count'[u] = count[u]
        BY <2>2, <3>1, <1>12 DEF Enabled, TimerAssumption
      <3>3. u \notin Armed
        BY <2>2, <3>1, <3>2, <1>3, <1>12 DEF Armed
      <3> QED BY <3>2, <3>3, <1>1, <1>2 DEF CountsAhead
    <2> QED BY <2>1, <2>2
  <1>19. SnapshotFresh'
    <2>0. \A p \in Periods : p > 0
      BY TimerAssumption
    <2>1. ASSUME NEW u \in Enabled(count', enable')
          PROVE  u \in snap \/ count'[u] > 0
      <3>1. CASE u = t
        BY <2>1, <3>1, <1>14
      <3>2. CASE u # t
        <4>1. u \in Timers /\ (u \in snap <=> u \in c.enable)
          BY <2>1, <3>2, <1>11, <1>12
        <4>2. CASE u \in Enabled(count, enable) /\ count'[u] = count[u]
          BY <4>1, <4>2, <1>10
        <4>3. CASE count'[u] \in Periods
          BY <4>3, <2>0
        <4>4. (u \in Enabled(count, enable) /\ count'[u] = count[u]) \/ count'[u] \in Periods
          BY <2>1, <3>2, <4>1, <1>12
        <4> QED BY <4>2, <4>3, <4>4
      <3> QED BY <3>1, <3>2
    <2>2. ASSUME NEW u \in snap
          PROVE  u \in Enabled(count', enable') \/ (u \in SelfEnabled /\ count'[u] = 0)
      <3>1. CASE u = t
        BY <2>2, <3>1, <1>14
      <3>2. CASE u # t
        <4>1. u \in c.enable /\ u \in Timers
          BY <2>2, <3>2, <1>10
        <4>2. CASE u \in Enabled(count, enable)
          BY <4>1, <4>2, <3>2, <1>12
        <4>3. CASE u \in SelfEnabled /\ count[u] = 0
          BY <4>1, <4>3, <3>2, <1>12 DEF Enabled
        <4> QED BY <4>1, <4>2, <4>3, <1>10
      <3> QED BY <3>1, <3>2
    <2> QED BY <1>6, <1>5, <2>1, <2>2 DEF SnapshotFresh
  <1>20. t \in Armed /\ \A u \in Armed : count[t] <= count[u]
    <2>1. \A u \in Due : count[t] <= count[u]
      BY <1>1, <1>3, <1>10, <1>13 DEF Fire, Lowest, TimerTypeOK
    <2>2. \A u \in Enabled(count, enable) \ Due : count[u] > 0
      BY <1>3, <1>10, <1>11, <1>1 DEF TimerTypeOK
    <2>3. \A u \in Enabled(count, enable) \ Due : count[t] <= count[u]
      BY <2>2, <1>13, <1>11, <1>1 DEF TimerTypeOK
    <2> QED BY <1>2, <2>1, <2>3 DEF Armed
  <1>21. Armed \ {t} \subseteq Armed'
    <2> SUFFICES ASSUME NEW u \in Armed, u # t PROVE u \in Armed'
      OBVIOUS
    <2>1. u \in Timers
      BY <1>3, <1>10, <1>11 DEF Armed
    <2>2. CASE u \in Enabled(count, enable)
      BY <2>1, <2>2, <1>12 DEF Armed
    <2>3. CASE u \in c.enable /\ count[u] <= 0
      <3>1. u \in snap /\ (count'[u] = count[u] \/ (u \in SelfEnabled /\ count'[u] \in Periods))
        BY <2>1, <2>3, <1>12
      <3>2. CASE count'[u] = count[u]
        BY <2>3, <3>1, <3>2, <1>6 DEF Armed
      <3>3. CASE u \in SelfEnabled /\ count'[u] \in Periods
        BY <3>3, TimerAssumption DEF Armed, Enabled
      <3> QED BY <3>1, <3>2, <3>3
    <2> QED BY <2>2, <2>3, <1>3 DEF Armed
  <1>22. \A u \in Armed' \ {t} : \/ u \in Armed /\ count'[u] = count[u]
                                 \/ count'[u] \in Periods
    <2> SUFFICES ASSUME NEW u \in Armed', u # t, count'[u] \notin Periods
                 PROVE  u \in Armed /\ count'[u] = count[u]
      OBVIOUS
    <2>1. u \in Timers
      BY <1>5, <1>6, <1>10, <1>11 DEF Armed
    <2>2. CASE u \in Enabled(count', enable')
      BY <2>1, <2>2, <1>12 DEF Armed
    <2>3. CASE u \in snap /\ count'[u] <= 0
      BY <2>1, <2>3, <1>3, <1>12 DEF Armed
    <2> QED BY <2>2, <2>3, <1>6 DEF Armed
  <1> QED BY <1>2, <1>6, <1>8, <1>9, <1>13, <1>15, <1>16, <1>18, <1>19, <1>20, <1>21, <1>22

LEMMA FireInv ==
    ASSUME TimerInv, NEW t \in Timers, Fire(t)
    PROVE  TimerInv'
  <1>1. /\ TimerTypeOK' /\ OneCall' /\ CountsAhead' /\ SnapshotFresh'
        /\ ~Running /\ ~Running' /\ UNCHANGED <<spent, ran>>
        /\ \A u \in Armed' \ {t} : \/ u \in Armed /\ count'[u] = count[u]
                                   \/ count'[u] \in Periods
        /\ t \in Armed
        /\ t \in Armed' => \E p \in Periods : count'[t] \in {count[t] + p, p}
    BY FireStep
  <1>2. /\ count \in [Timers -> Int] /\ count' \in [Timers -> Int]
        /\ spent \in 0..MaxSlice /\ spent' = spent
    BY <1>1, TimerAssumption DEF TimerInv, TimerTypeOK
  <1>3. Uncharged = spent /\ Uncharged' = spent
    BY <1>1 DEF Uncharged
  <1>4. ASSUME NEW u \in Armed'
        PROVE  Left'[u] >= -(MaxSlice + Slack)
    <2>1. u \in Timers
      <3>1. (Armed \subseteq Timers /\ Enabled(count, enable) \subseteq Timers)'
        BY <1>1, ArmedAreTimers, PTL
      <3> QED BY <3>1, <1>4
    <2>2. Left'[u] = count'[u] - spent
      BY <1>3, <1>4, <2>1 DEF Left
    <2>3. CASE count'[u] \in Periods
      <3>1. count'[u] \in Int /\ count'[u] >= 0 /\ spent \in Int /\ spent <= MaxSlice
        BY <1>2, <2>1, <2>3, TimerAssumption
      <3> QED BY <2>2, <3>1, TimerAssumption
    <2>4. CASE u \in Armed /\ count'[u] = count[u]
      <3>1. Left[u] = count[u] - spent
        BY <1>3, <2>1, <2>4 DEF Left
      <3> QED BY <2>2, <2>4, <3>1 DEF NeverVeryLate, TimerInv
    <2>5. CASE u = t /\ \E p \in Periods : count'[t] = count[t] + p
      <3>1. PICK p \in Periods : count'[t] = count[t] + p
        BY <2>5
      <3>2. Left[t] = count[t] - spent
        BY <1>1, <1>3, <2>1, <2>5 DEF Left
      <3>3. Left[t] >= -(MaxSlice + Slack)
        BY <1>1 DEF NeverVeryLate, TimerInv
      <3>4. p \in Nat /\ count[t] \in Int /\ spent \in Int
        BY <1>2, TimerAssumption
      <3> QED BY <2>2, <2>5, <3>1, <3>2, <3>3, <3>4, TimerAssumption
    <2> QED BY <1>1, <1>4, <2>3, <2>4, <2>5
  <1> QED BY <1>1, <1>4 DEF TimerInv, LatchCovers, NeverVeryLate

(***************************************************************************)
(* The end of a call, and the reset.                                       *)
(***************************************************************************)
\* The CPU is let run up to the lowest count.
LEMMA UpdateStep ==
    ASSUME UpdateOutstanding, count' \in [Timers -> Int], Enabled(count', enable') \subseteq Timers,
           \A u \in Enabled(count', enable') : count'[u] >= 0
    PROVE  /\ latch' = timer_count' /\ latch' \in Int /\ timer_count' >= 0
           /\ \A u \in Enabled(count', enable') : latch' <= count'[u] + Slack
  <1>1. PICK t \in Enabled(count', enable') :
           /\ \A u \in Enabled(count', enable') : count'[t] <= count'[u]
           /\ latch' = count'[t] + Slack
           /\ timer_count' = count'[t] + Slack
    BY DEF UpdateOutstanding
  <1>2. count'[t] \in Int /\ count'[t] >= 0
    OBVIOUS
  <1>3. latch' = timer_count' /\ latch' \in Int /\ timer_count' >= 0
    BY <1>1, <1>2, TimerAssumption
  <1>4. ASSUME NEW u \in Enabled(count', enable')
        PROVE  latch' <= count'[u] + Slack
    <2>1. count'[u] \in Int /\ count'[t] <= count'[u]
      BY <1>1, <1>4
    <2> QED BY <1>1, <1>2, <2>1, TimerAssumption
  <1> QED BY <1>3, <1>4

\* What a device does to its timer leaves no count below zero.
LEMMA DeviceCounts ==
    ASSUME TimerTypeOK, NEW t \in Timers, count[t] >= 0, DeviceSets(t)
    PROVE  /\ count' \in [Timers -> Int]
           /\ count'[t] >= 0
           /\ \A u \in Timers \ {t} : count'[u] = count[u]
           /\ enable' \in SUBSET (Timers \ (Always \cup SelfEnabled))
           /\ \A u \in Timers \ {t} : u \in enable' <=> u \in enable
           /\ count'[t] \in {0, count[t]} \cup Periods
           /\ t \in Enabled(count', enable') => count'[t] \in {count[t]} \cup Periods
  <1>1. PICK c \in {count[t]} \cup Periods \cup (IF t \in SelfEnabled THEN {0} ELSE {}) :
          count' = [count EXCEPT ![t] = c]
    BY DEF DeviceSets
  <1>2. count \in [Timers -> Int]
    BY DEF TimerTypeOK
  <1>3. c \in Int /\ c >= 0
    <2>1. \A p \in Periods : p \in Int /\ p >= 0
      BY TimerAssumption
    <2> QED BY <1>2, <2>1
  <1>4. count' \in [Timers -> Int] /\ count'[t] = c /\ \A u \in Timers \ {t} : count'[u] = count[u]
    BY <1>1, <1>2, <1>3
  <1>5. /\ enable' \in SUBSET (Timers \ (Always \cup SelfEnabled))
        /\ \A u \in Timers \ {t} : u \in enable' <=> u \in enable
    BY DEF DeviceSets, TimerTypeOK
  <1>6. c = 0 => c = count[t] \/ t \in SelfEnabled
    BY TimerAssumption
  <1>7. ASSUME t \in Enabled(count', enable')
        PROVE  c \in {count[t]} \cup Periods
    BY <1>1, <1>4, <1>5, <1>7, TimerAssumption DEF Enabled
  <1> QED BY <1>3, <1>4, <1>5, <1>7

\* The call returns when nothing is due any more; only the timer of the
\* device that made it is set, and the CPU runs again.
LEMMA ReturnStep ==
    ASSUME TimerInv, Return
    PROVE  /\ ~Running /\ Running' /\ spent' = spent
           /\ \A u \in Armed : count[u] > 0
           /\ count' \in [Timers -> Int] /\ \A u \in Timers : count'[u] >= 0
           /\ enable' \in SUBSET (Timers \ (Always \cup SelfEnabled))
           /\ calls' = <<>>
           /\ \/ ran' = 0 /\ spent = 0 /\ UNCHANGED <<count, enable>>
              \/ /\ ran' = ran
                 /\ \E t \in Timers : DeviceSets(t) /\ (t \in Synced => spent = 0)
  <1>1. TimerTypeOK /\ OneCall /\ CountsAhead /\ SnapshotFresh
    BY DEF TimerInv
  <1>2. ~Running /\ Due = {} /\ spent' = spent
    BY DEF Return
  <1>3. PICK c \in CallType :
           /\ calls = <<c>> /\ Head(calls) = c /\ Tail(calls) = <<>>
           /\ Due = {u \in c.enable : count[u] <= 0}
           /\ \/ c.caller = "slice" /\ spent = 0
              \/ /\ c.caller = "device" /\ c.sets \in Timers
                 /\ c.sets \in Synced => spent = 0
    BY <1>1, <1>2, TheCall
  <1>4. Armed = Enabled(count, enable) /\ Armed \subseteq Timers
    BY <1>1, <1>2, ArmedAreTimers DEF Armed
  <1>5. ASSUME NEW u \in Armed
        PROVE  count[u] > 0
    <2>1. u \in c.enable \/ count[u] > 0
      BY <1>1, <1>2, <1>3, <1>4, <1>5 DEF SnapshotFresh
    <2>2. count[u] \in Int
      BY <1>1, <1>4, <1>5 DEF TimerTypeOK
    <2> QED BY <1>2, <1>3, <2>1, <2>2
  <1>6. ASSUME NEW u \in Timers
        PROVE  count[u] >= 0
    <2>1. count[u] \in Int
      BY <1>1 DEF TimerTypeOK
    <2> QED BY <1>1, <1>5, <2>1 DEF CountsAhead
  <1>7. calls' = <<>> /\ Running'
    <2>1. calls' = Tail(calls)
      BY <1>3 DEF Return
    <2> QED BY <2>1, <1>3 DEF Running
  <1>8. CASE c.caller = "slice"
    <2>1. UNCHANGED <<count, enable>> /\ ran' = 0
      BY <1>3, <1>8 DEF Return
    <2> QED BY <1>1, <1>2, <1>3, <1>5, <1>6, <1>7, <1>8, <2>1 DEF TimerTypeOK
  <1>9. CASE c.caller = "device"
    <2>1. DeviceSets(c.sets) /\ ran' = ran /\ c.sets \in Timers
      BY <1>3, <1>9 DEF Return
    <2>2. /\ count' \in [Timers -> Int] /\ count'[c.sets] >= 0
          /\ \A u \in Timers \ {c.sets} : count'[u] = count[u]
          /\ enable' \in SUBSET (Timers \ (Always \cup SelfEnabled))
      BY <1>1, <1>6, <2>1, DeviceCounts
    <2>3. \A u \in Timers : count'[u] >= 0
      BY <1>6, <2>2
    <2> QED BY <1>2, <1>3, <1>5, <1>7, <1>9, <2>1, <2>2, <2>3
  <1> QED BY <1>3, <1>8, <1>9

LEMMA ReturnInv ==
    ASSUME TimerInv, Return
    PROVE  TimerInv'
  <1>1. /\ Running' /\ spent' = spent /\ calls' = <<>>
        /\ count' \in [Timers -> Int] /\ \A u \in Timers : count'[u] >= 0
        /\ enable' \in SUBSET (Timers \ (Always \cup SelfEnabled))
        /\ (ran' = 0 /\ spent = 0) \/ ran' = ran
    BY ReturnStep
  <1>2. Enabled(count', enable') \subseteq Timers
    BY <1>1, TimerAssumption DEF Enabled
  <1>3. /\ latch' = timer_count' /\ latch' \in Int /\ timer_count' >= 0
        /\ \A u \in Enabled(count', enable') : latch' <= count'[u] + Slack
    BY <1>1, <1>2, UpdateStep DEF Return
  <1>4. TimerTypeOK'
    BY <1>1, <1>3, TimerAssumption DEF TimerTypeOK, TimerInv
  <1>5. OneCall' /\ SnapshotFresh'
    BY <1>1 DEF Running, OneCall, SnapshotFresh
  <1>6. CountsAhead' /\ LatchCovers'
    BY <1>1, <1>3 DEF CountsAhead, LatchCovers
  <1>7. NeverVeryLate'
    BY <1>1, <1>4, <1>6, RunningLate, PTL
  <1> QED BY <1>4, <1>5, <1>6, <1>7 DEF TimerInv

LEMMA HardResetInv ==
    ASSUME TimerInv, HardReset
    PROVE  TimerInv'
  <1>1. /\ TimerTypeOK /\ CountsAhead /\ Running /\ Running' /\ ran' = 0 /\ spent' = 0
        /\ latch' = 0 /\ timer_count' = 0 /\ enable' = {} /\ calls' = calls
    BY TimerAssumption DEF HardReset, TimerInv, Running, TimerTypeOK
  <1>2. PICK static \in SUBSET Always, set \in [Timers -> {0} \cup Periods] :
          count' = [t \in Timers |-> IF t \in static THEN count[t] ELSE set[t]]
    BY DEF HardReset
  <1>3. \A p \in {0} \cup Periods : p \in Int /\ p >= 0
    BY TimerAssumption
  <1>4. ASSUME NEW u \in Timers
        PROVE  count'[u] \in Int /\ count'[u] >= 0
    BY <1>1, <1>2, <1>3 DEF CountsAhead, TimerTypeOK
  <1>5. count' \in [Timers -> Int]
    BY <1>2, <1>4
  <1>6. Enabled(count', enable') \subseteq Timers
    BY <1>1, TimerAssumption DEF Enabled
  <1>7. TimerTypeOK'
    BY <1>1, <1>5, TimerAssumption DEF TimerTypeOK
  <1>8. OneCall' /\ SnapshotFresh'
    BY <1>1 DEF Running, OneCall, SnapshotFresh
  <1>9. CountsAhead' /\ LatchCovers'
    <2>1. \A u \in Timers : latch' <= count'[u] + Slack
      BY <1>1, <1>4, TimerAssumption
    <2> QED BY <1>1, <1>4, <1>6, <2>1 DEF CountsAhead, LatchCovers
  <1>10. NeverVeryLate'
    BY <1>1, <1>7, <1>9, RunningLate, PTL
  <1> QED BY <1>7, <1>8, <1>9, <1>10 DEF TimerInv

LEMMA NextInv ==
    ASSUME Nested = {}
    PROVE  TimerInv /\ [Next]_vars => TimerInv'
  <1> SUFFICES ASSUME TimerInv, [Next]_vars PROVE TimerInv'
    OBVIOUS
  <1>1. CASE \E d \in 1..MaxSlice : Execute(d)
    BY <1>1, ExecuteInv
  <1>2. CASE EndPeriod
    BY <1>2, EndPeriodInv
  <1>3. CASE \E t \in Timers : DeviceAccess(t)
    BY <1>3, DeviceAccessInv
  <1>4. CASE Return
    BY <1>4, ReturnInv
  <1>5. CASE \E t \in Timers : Fire(t)
    BY <1>5, FireInv
  <1>6. CASE \E t \in Timers : FireNested(t)
    BY <1>6 DEF FireNested
  <1>7. CASE HardReset
    BY <1>7, HardResetInv
  <1>8. CASE UNCHANGED vars
    BY <1>8 DEF vars, TimerInv, TimerTypeOK, OneCall, CountsAhead, LatchCovers, SnapshotFresh,
                NeverVeryLate, Running, Armed, Due, Left, Uncharged
  <1> QED BY <1>1, <1>2, <1>3, <1>4, <1>5, <1>6, <1>7, <1>8 DEF Next, ProcessProceeds

(***************************************************************************)
(* Theorems.                                                               *)
(***************************************************************************)
\* The inductive invariant: the counts, the latch and the enable[] that
\* timer_process has in hand agree on which timers are still to ring.
THEOREM TimerInvariant ==
    ASSUME Nested = {}
    PROVE  Spec => []TimerInv
  <1>1. Init => TimerInv
    BY InitInv
  <1>2. TimerInv /\ [Next]_vars => TimerInv'
    BY NextInv
  <1> QED BY <1>1, <1>2, PTL DEF Spec

\* The counters of timer.c keep their types: what is not charged yet is never
\* more than the slice has run, and the calls of timer_process are well formed.
THEOREM TimerTypeCorrect ==
    ASSUME Nested = {}
    PROVE  Spec => []TimerTypeOK
  <1>1. TimerInv => TimerTypeOK
    BY DEF TimerInv
  <1> QED BY <1>1, TimerInvariant, PTL

\* No device's timer is ever overdue by more than a slice and the rounding of
\* timer_update_outstanding, however many timers there are.
THEOREM TimerNeverVeryLate ==
    ASSUME Nested = {}
    PROVE  Spec => []NeverVeryLate
  <1>1. TimerInv => NeverVeryLate
    BY DEF TimerInv
  <1> QED BY <1>1, TimerInvariant, PTL

(***************************************************************************)
(* Refinement: every step of timer.c is a step of the alarm clock, or none *)
(* that a device could tell.                                               *)
(***************************************************************************)
\* What a device sees of the table has the alarm clock's types.
ClockTyped == Clock!ClockTypeOK /\ Armed \subseteq Timers

LEMMA ClockTypes == TimerInv => ClockTyped
  <1> SUFFICES ASSUME TimerInv PROVE ClockTyped
    OBVIOUS
  <1>1. /\ count \in [Timers -> Int] /\ latch \in Int /\ timer_count \in Int
        /\ ran \in 0..MaxSlice /\ spent \in Int
    BY TimerAssumption DEF TimerInv, TimerTypeOK
  <1>2. Uncharged \in Int
    BY <1>1 DEF Uncharged
  <1>3. Armed \subseteq Timers
    BY ArmedAreTimers DEF TimerInv
  <1>4. Left \in [Timers -> Int]
    BY <1>1, <1>2 DEF Left
  <1> QED BY <1>1, <1>3, <1>4 DEF ClockTyped, Clock!ClockTypeOK

LEMMA ClockTypesNext == TimerInv' => ClockTyped'
  BY ClockTypes, PTL

LEMMA InitClock == Init => Clock!ClockInit
  <1> SUFFICES ASSUME Init PROVE Clock!ClockInit
    OBVIOUS
  <1>1. TimerInv
    BY InitInv
  <1>2. Armed \subseteq Timers
    BY <1>1, ClockTypes DEF ClockTyped
  <1>3. Uncharged = 0
    BY DEF Init, Uncharged, Running
  <1>4. Left = [t \in Timers |-> 0]
    BY <1>3 DEF Init, Left
  <1> QED BY <1>2, <1>4 DEF Init, Clock!ClockInit

\* Running the guest takes time off every alarm that is set.
LEMMA ExecuteTicks ==
    ASSUME TimerInv, TimerInv', NEW d \in 1..MaxSlice, Execute(d)
    PROVE  Clock!Tick
  <1>1. /\ ran' = ran + d /\ ran + d <= MaxSlice /\ ran \in Nat
        /\ Running /\ spent' = spent + d /\ spent \in Int
        /\ latch \in Int /\ timer_count \in Int /\ count \in [Timers -> Int]
        /\ UNCHANGED <<count, enable, latch, timer_count, calls>>
    BY TimerAssumption DEF Execute, TimerInv, TimerTypeOK
  <1>2. d \in 1..(MaxSlice - ran)
    BY <1>1, TimerAssumption
  <1>3. Armed' = Armed
    BY <1>1 DEF Armed, Enabled, Due, Running
  <1>4. Running' /\ Uncharged' = Uncharged + d /\ Uncharged \in Int
    BY <1>1 DEF Uncharged, Running
  <1>5. Left' = [t \in Timers |-> IF t \in Armed THEN Left[t] - d ELSE Left[t]]
    <2>1. ASSUME NEW t \in Timers
          PROVE  (IF t \in Armed THEN count[t] - Uncharged' ELSE count[t])
                   = (IF t \in Armed THEN Left[t] - d ELSE Left[t])
      BY <1>1, <1>4 DEF Left
    <2>2. Left' = [t \in Timers |-> IF t \in Armed THEN count[t] - Uncharged' ELSE count[t]]
      BY <1>1, <1>3 DEF Left
    <2> QED BY <2>1, <2>2
  <1> QED BY <1>1, <1>2, <1>3, <1>5 DEF Clock!Tick

\* A slice that does not reach the next timer ends with every alarm ahead of
\* it, but for the rounding; one that does charges the time first.
LEMMA EndPeriodEnds ==
    ASSUME TimerInv, TimerInv', EndPeriod
    PROVE  Clock!EndSlice \/ UNCHANGED <<Left, Armed, ran>>
  <1>1. CASE timer_count' <= 0
    BY <1>1, EndPeriodEnters, ProcessStep DEF EndPeriod
  <1>2. CASE ~(timer_count' <= 0)
    <2>1. /\ Running /\ ran' = 0 /\ spent' = 0 /\ timer_count' = timer_count - spent
          /\ UNCHANGED <<count, enable, latch, calls>>
      BY <1>2 DEF EndPeriod
    <2>2. /\ spent \in Int /\ latch \in Int /\ timer_count \in Int
          /\ count \in [Timers -> Int]
      BY TimerAssumption DEF TimerInv, TimerTypeOK
    <2>3. Armed' = Armed /\ Armed = Enabled(count, enable) /\ Armed \subseteq Timers
      BY <2>1, NoCall, ClockTypes DEF ClockTyped, Armed, Enabled, Due, Running
    <2>4. Uncharged' = Uncharged /\ Uncharged = latch - timer_count + spent
      BY <2>1, <2>2 DEF Uncharged, Running
    <2>5. Left' = Left
      BY <2>1, <2>3, <2>4 DEF Left
    <2>6. ASSUME NEW t \in Armed
          PROVE  Left[t] > -Slack
      <3>1. latch <= count[t] + Slack
        BY <2>1, <2>3, <2>6 DEF TimerInv, LatchCovers
      <3>2. Left[t] = count[t] - Uncharged
        BY <2>3, <2>6 DEF Left
      <3>3. timer_count - spent > 0 /\ count[t] \in Int
        BY <1>2, <2>1, <2>2, <2>3, <2>6
      <3> QED BY <2>2, <2>4, <3>1, <3>2, <3>3, TimerAssumption
    <2> QED BY <2>1, <2>3, <2>5, <2>6 DEF Clock!EndSlice
  <1> QED BY <1>1, <1>2

LEMMA DeviceAccessStutters ==
    ASSUME TimerInv, NEW t \in Timers, DeviceAccess(t)
    PROVE  UNCHANGED <<Left, Armed, ran>>
  BY DeviceEnters, ProcessStep

\* A callback is the ringing of an alarm that is due, and of the one that has
\* been due for the longest.
LEMMA FireRings ==
    ASSUME TimerInv, TimerInv', NEW t \in Timers, Fire(t)
    PROVE  Clock!Ring(t)
  <1>1. /\ ~Running /\ ~Running' /\ UNCHANGED <<spent, ran>>
        /\ t \in Armed /\ count[t] <= 0
        /\ \A u \in Armed : count[t] <= count[u]
        /\ Armed \ {t} \subseteq Armed'
        /\ \A u \in Armed' \ {t} : \/ u \in Armed /\ count'[u] = count[u]
                                   \/ count'[u] \in Periods
        /\ t \in Armed' => \E p \in Periods : count'[t] \in {count[t] + p, p}
    BY FireStep
  <1>2. /\ Armed \subseteq Timers /\ Armed' \subseteq Timers
        /\ count \in [Timers -> Int] /\ count' \in [Timers -> Int]
        /\ spent \in 0..ran /\ ran \in Nat
    <2>1. Armed \subseteq Timers
      BY ClockTypes DEF ClockTyped
    <2>2. Armed' \subseteq Timers
      BY ClockTypesNext DEF ClockTyped
    <2> QED BY <2>1, <2>2, TimerAssumption DEF TimerInv, TimerTypeOK
  <1>3. Uncharged = spent /\ Uncharged' = spent
    BY <1>1 DEF Uncharged
  <1>4. \A u \in Armed : Left[u] = count[u] - spent
    BY <1>2, <1>3 DEF Left
  <1>5. \A u \in Armed' : Left'[u] = count'[u] - spent
    BY <1>2, <1>3 DEF Left
  <1>6. Left[t] <= 0 /\ \A u \in Armed : Left[t] <= Left[u]
    <2>1. Left[t] <= 0
      <3>1. count[t] \in Int /\ spent \in Int /\ spent >= 0 /\ Left[t] = count[t] - spent
        BY <1>1, <1>2, <1>4
      <3> QED BY <1>1, <3>1
    <2>2. ASSUME NEW u \in Armed PROVE Left[t] <= Left[u]
      <3>1. count[t] \in Int /\ count[u] \in Int /\ spent \in Int
        BY <1>2
      <3> QED BY <1>1, <1>4, <3>1
    <2> QED BY <2>1, <2>2
  <1>7. ASSUME NEW u \in Armed' \ {t}
        PROVE  \/ u \in Armed /\ Left'[u] = Left[u]
               \/ \E p \in Periods, e \in 0..ran : Left'[u] = p - e
    BY <1>1, <1>2, <1>4, <1>5, <1>7
  <1>8. ASSUME t \in Armed'
        PROVE  \E p \in Periods, e \in 0..ran : Left'[t] \in {Left[t] + p, p - e}
    <2>1. PICK p \in Periods : count'[t] \in {count[t] + p, p}
      BY <1>1, <1>8
    <2>2. Left'[t] \in {Left[t] + p, p - spent}
      <3>1. p \in Int /\ count[t] \in Int /\ spent \in Int
        BY <1>2, TimerAssumption
      <3>2. Left'[t] = count'[t] - spent /\ Left[t] = count[t] - spent
        BY <1>1, <1>4, <1>5, <1>8
      <3> QED BY <2>1, <3>1, <3>2
    <2> QED BY <1>2, <2>2
  <1> QED BY <1>1, <1>6, <1>7, <1>8 DEF Clock!Ring

\* timer_process returns to the CPU loop, and the slice ends, or to a device
\* that has set its alarm.
LEMMA ReturnEndsOrSets ==
    ASSUME TimerInv, TimerInv', Return
    PROVE  Clock!EndSlice \/ \E t \in Timers : Clock!SetAlarm(t)
  <1>1. /\ ~Running /\ Running' /\ spent' = spent
        /\ \A u \in Armed : count[u] > 0
        /\ \A u \in Timers : count'[u] >= 0
        /\ \/ ran' = 0 /\ spent = 0 /\ UNCHANGED <<count, enable>>
           \/ /\ ran' = ran
              /\ \E t \in Timers : DeviceSets(t) /\ (t \in Synced => spent = 0)
    BY ReturnStep
  <1>2. /\ Armed \subseteq Timers
        /\ count \in [Timers -> Int] /\ count' \in [Timers -> Int]
        /\ spent \in 0..ran /\ ran \in Nat /\ TimerTypeOK
    BY ClockTypes, TimerAssumption DEF ClockTyped, TimerInv, TimerTypeOK
  <1>3. Armed = Enabled(count, enable) /\ Armed' = Enabled(count', enable')
    BY <1>1 DEF Return, Armed, Due
  <1>4. Uncharged = spent /\ Uncharged' = spent
    <2>1. latch' = timer_count'
      BY DEF Return, UpdateOutstanding
    <2>2. latch' \in Int /\ spent \in Int /\ spent' = spent
      BY <1>1, <1>2 DEF TimerInv, TimerTypeOK
    <2>3. Uncharged' = latch' - timer_count' + spent' /\ Uncharged = spent
      BY <1>1 DEF Uncharged
    <2>4. \A a, b \in Int : a - a + b = b
      OBVIOUS
    <2> QED BY <2>1, <2>2, <2>3, <2>4, Zenon
  <1>5. /\ \A u \in Armed : Left[u] = count[u] - spent
        /\ \A u \in Timers \ Armed : Left[u] = count[u]
        /\ \A u \in Timers : u \in Armed' => Left'[u] = count'[u] - spent
    BY <1>2, <1>4 DEF Left
  <1>6. CASE ran' = 0 /\ spent = 0 /\ UNCHANGED <<count, enable>>
    <2>1. Armed' = Armed /\ Left' = Left
      BY <1>3, <1>4, <1>6 DEF Left
    <2>2. ASSUME NEW u \in Armed
          PROVE  Left[u] > -Slack
      <3>1. count[u] \in Int /\ count[u] > 0 /\ Left[u] = count[u]
        BY <1>1, <1>2, <1>5, <1>6, <2>2
      <3> QED BY <3>1, TimerAssumption
    <2> QED BY <1>6, <2>1, <2>2 DEF Clock!EndSlice
  <1>7. CASE ran' = ran /\ \E t \in Timers : DeviceSets(t) /\ (t \in Synced => spent = 0)
    <2>1. PICK t \in Timers : DeviceSets(t) /\ (t \in Synced => spent = 0)
      BY <1>7
    <2> DEFINE lag == IF t \in Synced THEN 0 ELSE ran
    <2>2. spent \in 0..lag
      BY <1>2, <2>1
    <2>3. count[t] >= 0
      <3>1. count[t] \in Int
        BY <1>2
      <3> QED BY <1>1, <3>1 DEF TimerInv, CountsAhead
    <2>4. /\ \A u \in Timers \ {t} : count'[u] = count[u]
          /\ \A u \in Timers \ {t} : u \in enable' <=> u \in enable
          /\ t \in Enabled(count', enable') => count'[t] \in {count[t]} \cup Periods
      BY <1>2, <2>1, <2>3, DeviceCounts
    <2>5. ASSUME t \in Armed
          PROVE  Left[t] > -lag
      <3>1. count[t] \in Int /\ count[t] > 0 /\ Left[t] = count[t] - spent
        BY <1>1, <1>2, <1>5, <2>5
      <3>2. lag \in Int /\ spent \in Int /\ spent <= lag
        BY <1>2, <2>2
      <3> QED BY <3>1, <3>2
    <2>6. \A u \in Timers \ {t} : u \in Armed' <=> u \in Armed
      BY <1>3, <2>4, TimerAssumption DEF Enabled
    <2>7. Armed' \in {Armed \cup {t}, Armed \ {t}}
      <3>1. Armed' \subseteq Timers
        BY ClockTypesNext DEF ClockTyped
      <3> QED BY <1>2, <2>6, <3>1
    <2>8. ASSUME t \in Armed'
          PROVE  \/ \E p \in Periods, e \in 0..lag : Left'[t] = p - e
                 \/ \E e \in 0..lag : Left'[t] = Left[t] - e
      <3>1. Left'[t] = count'[t] - spent
        BY <1>5, <2>8
      <3>2. CASE count'[t] \in Periods
        BY <2>2, <3>1, <3>2
      <3>3. CASE count'[t] = count[t] /\ t \in Armed
        <4>1. Left'[t] = Left[t] - 0
          <5>1. Left'[t] = Left[t] /\ Left[t] \in Int
            BY <1>2, <1>5, <3>1, <3>3
          <5> QED BY <5>1
        <4>2. 0 \in 0..lag
          BY <1>2
        <4> QED BY <4>1, <4>2
      <3>4. CASE count'[t] = count[t] /\ t \notin Armed
        BY <1>5, <2>2, <3>1, <3>4
      <3> QED BY <1>3, <2>4, <2>8, <3>2, <3>3, <3>4
    <2>9. \A u \in Armed \ {t} : Left'[u] = Left[u]
      BY <1>2, <1>5, <2>4, <2>6
    <2> QED BY <1>7, <2>5, <2>7, <2>8, <2>9 DEF Clock!SetAlarm
  <1> QED BY <1>1, <1>6, <1>7

LEMMA HardResetResets ==
    ASSUME TimerInv, TimerInv', HardReset
    PROVE  Clock!Reset
  <1>1. /\ Running /\ ran = 0 /\ ran' = 0 /\ spent = 0 /\ spent' = 0
        /\ latch' = 0 /\ timer_count' = 0 /\ enable' = {} /\ calls' = calls
        /\ latch \in Int /\ timer_count \in Int /\ timer_count <= latch
        /\ count \in [Timers -> Int]
    BY TimerAssumption DEF HardReset, TimerInv, TimerTypeOK, LatchCovers
  <1>2. Running' /\ Uncharged' = 0 /\ Uncharged = latch - timer_count
    BY <1>1 DEF Uncharged, Running
  <1>3. Always \subseteq Armed /\ Always \subseteq Armed' /\ Armed' \subseteq Timers
    <2>1. Always \subseteq Armed /\ Always \subseteq Armed'
      BY DEF Armed, Enabled
    <2>2. Armed' \subseteq Timers
      BY ClockTypesNext DEF ClockTyped
    <2> QED BY <2>1, <2>2
  <1>4. PICK static \in SUBSET Always, set \in [Timers -> {0} \cup Periods] :
          count' = [t \in Timers |-> IF t \in static THEN count[t] ELSE set[t]]
    BY DEF HardReset
  <1>5. ASSUME NEW t \in Armed'
        PROVE  \/ Left'[t] \in {0} \cup Periods
               \/ t \in Always \cap Armed /\ Left'[t] >= Left[t]
    <2>1. t \in Timers
      BY <1>3, <1>5
    <2>2. count'[t] \in Int
      BY <2>1 DEF TimerInv, TimerTypeOK
    <2>3. Left'[t] = count'[t]
      <3>1. Left'[t] = count'[t] - 0
        BY <1>2, <1>5, <2>1 DEF Left
      <3> QED BY <2>2, <3>1
    <2>4. CASE t \notin static
      BY <1>4, <2>1, <2>3, <2>4
    <2>5. CASE t \in static
      <3>1. t \in Always \cap Armed /\ count'[t] = count[t]
        BY <1>3, <1>4, <2>1, <2>5
      <3>2. Left[t] = count[t] - (latch - timer_count)
        BY <1>2, <2>1, <3>1 DEF Left
      <3>3. Left'[t] >= Left[t]
        BY <1>1, <2>2, <2>3, <3>1, <3>2
      <3> QED BY <3>1, <3>3
    <2> QED BY <2>4, <2>5
  <1> QED BY <1>1, <1>3, <1>5 DEF Clock!Reset

LEMMA NextClock ==
    ASSUME Nested = {}
    PROVE  TimerInv /\ TimerInv' /\ [Next]_vars
             => [Clock!ClockNext /\ Clock!ClockTypeOK']_<<Left, Armed, ran>>
  <1> SUFFICES ASSUME TimerInv, TimerInv', [Next]_vars
               PROVE  Clock!ClockNext \/ UNCHANGED <<Left, Armed, ran>>
    BY ClockTypesNext DEF ClockTyped
  <1> USE DEF Clock!ClockNext
  <1>1. CASE \E d \in 1..MaxSlice : Execute(d)
    BY <1>1, ExecuteTicks
  <1>2. CASE EndPeriod
    BY <1>2, EndPeriodEnds
  <1>3. CASE \E t \in Timers : DeviceAccess(t)
    BY <1>3, DeviceAccessStutters
  <1>4. CASE Return
    BY <1>4, ReturnEndsOrSets
  <1>5. CASE \E t \in Timers : Fire(t)
    BY <1>5, FireRings
  <1>6. CASE \E t \in Timers : FireNested(t)
    BY <1>6 DEF FireNested
  <1>7. CASE HardReset
    BY <1>7, HardResetResets
  <1>8. CASE UNCHANGED vars
    BY <1>8 DEF vars, Left, Armed, Enabled, Due, Uncharged, Running
  <1> QED BY <1>1, <1>2, <1>3, <1>4, <1>5, <1>6, <1>7, <1>8 DEF Next, ProcessProceeds

\* timer.c implements the alarm clock: whatever its devices, their timers ring
\* when the guest has run for the time they were set to, up to the slice in
\* which a device did not synchronise, once, and the earliest first.
THEOREM TimerRingsOnTime ==
    ASSUME Nested = {}
    PROVE  Spec => RingsOnTime
  <1>1. Init => Clock!ClockInit
    BY InitClock
  <1>2. TimerInv /\ TimerInv' /\ [Next]_vars
          => [Clock!ClockNext /\ Clock!ClockTypeOK']_<<Left, Armed, ran>>
    BY NextClock
  <1>3. Spec => []TimerInv
    BY TimerInvariant
  <1> QED BY <1>1, <1>2, <1>3, PTL DEF Spec, RingsOnTime, Clock!ClockSpec, Clock!clock
=============================================================================
