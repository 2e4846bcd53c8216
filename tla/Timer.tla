------------------------------- MODULE Timer -------------------------------
(***************************************************************************)
(* timer.c: the table of the devices' timers and the counter the CPU loops *)
(* count down.  Time is counted in ticks, 1 << TIMER_SHIFT to a CPU cycle, *)
(* and always relative to the present.  The CPU runs the guest in slices:  *)
(* up to the next timer (386.c), 5 us (386_dynarec.c) or one instruction   *)
(* (808x.c); between two instructions of a slice a device may be accessed. *)
(***************************************************************************)
EXTENDS Integers, Sequences

CONSTANTS
    Timers,     \* the table, in its order
    Always,     \* timers added as TIMER_ALWAYS_ENABLED
    SelfEnabled,\* timers enabled by a count other than zero (fdc, ide, nvr_at)
    Synced,     \* timers whose device calls timer_clock (pit, esdi), not
                \* just timer_process (fdc, ide, sb_dsp), before it sets them
    Rings,      \* pairs: the callback of the first may set the second
    Nested,     \* timers whose callback calls timer_process (fdc)
    Periods,    \* what timers are set to
    MaxSlice,   \* the longest slice
    Slack       \* (1 << TIMER_SHIFT) - 1

ASSUME TimerAssumption ==
    /\ Timers \subseteq Nat
    /\ Always \subseteq Timers /\ Always # {}
    /\ SelfEnabled \subseteq Timers \ Always
    /\ Synced \subseteq Timers
    /\ Rings \subseteq Timers \X SelfEnabled
    /\ Nested \subseteq SelfEnabled
    /\ Periods \subseteq Nat \ {0}
    /\ MaxSlice \in Nat \ {0}
    /\ Slack \in Nat

VARIABLES
    count,      \* *timers[].count
    enable,     \* the timers with a flag of their own that is set
    latch,
    timer_count,
    spent,      \* timer_start - cycles: run, and not yet taken off timer_count
    ran,        \* how long the current slice has run
    calls       \* the calls of timer_process in progress, the innermost first:
                \* enable[], who called, and the timer the caller is to set

vars == <<count, enable, latch, timer_count, spent, ran, calls>>

None == -1
Callers == {"slice", "device", "callback"}
CallType == [enable : SUBSET Timers, caller : Callers, sets : Timers \cup {None}]

Enabled(c, e) == Always \cup {t \in SelfEnabled : c[t] # 0} \cup e

(***************************************************************************)
(* timer_process up to its loop, and timer_update_outstanding.             *)
(***************************************************************************)
\* Mutant: enable is looked at after the count, which enables some timers.
ProcessLate(c, elapsed, caller, t) ==
    LET charged == [u \in Timers |-> IF u \in Enabled(c, enable)
                                     THEN c[u] - elapsed ELSE c[u]]
    IN /\ count' = charged
       /\ calls' = <<[enable |-> Enabled(charged, enable), caller |-> caller,
                      sets |-> t]>> \o calls

Process(c, elapsed, caller, t) ==
    /\ count' = [u \in Timers |-> IF u \in Enabled(c, enable)
                                  THEN c[u] - elapsed ELSE c[u]]
    /\ calls' = <<[enable |-> Enabled(c, enable), caller |-> caller,
                   sets |-> t]>> \o calls

\* Mutant: the latest count is taken for the lowest.
UpdateOutstandingLast ==
    \E t \in Enabled(count', enable') :
        /\ \A u \in Enabled(count', enable') : count'[t] >= count'[u]
        /\ latch' = count'[t] + Slack
        /\ timer_count' = count'[t] + Slack

UpdateOutstanding ==
    \E t \in Enabled(count', enable') :
        /\ \A u \in Enabled(count', enable') : count'[t] <= count'[u]
        /\ latch' = count'[t] + Slack
        /\ timer_count' = count'[t] + Slack

(***************************************************************************)
(* The CPU.                                                                *)
(***************************************************************************)
Running == calls = <<>>

Execute(d) ==
    /\ Running
    /\ ran + d <= MaxSlice
    /\ spent' = spent + d
    /\ ran' = ran + d
    /\ UNCHANGED <<count, enable, latch, timer_count, calls>>

\* timer_end_period
EndPeriod ==
    /\ Running
    /\ ran > 0
    /\ timer_count' = timer_count - spent
    /\ spent' = 0
    /\ IF timer_count' <= 0
       THEN /\ Process(count, latch - timer_count', "slice", None)
            /\ latch' = 0
            /\ UNCHANGED ran
       ELSE /\ ran' = 0
            /\ UNCHANGED <<count, latch, calls>>
    /\ UNCHANGED enable

\* A device is accessed; it brings the timers up to date before it sets t.
DeviceAccess(t) ==
    /\ Running
    /\ LET clocked == IF t \in Synced THEN spent ELSE 0
       IN /\ timer_count' = timer_count - clocked
          /\ spent' = spent - clocked
          /\ Process(count, latch - timer_count', "device", t)
    /\ latch' = 0
    /\ UNCHANGED <<enable, ran>>

(***************************************************************************)
(* The loop of timer_process.                                              *)
(***************************************************************************)
Due == IF Running THEN {} ELSE {t \in Head(calls).enable : count[t] <= 0}

\* The first of those that are the furthest behind.
Lowest(t) ==
    /\ t \in Due
    /\ \A u \in Due : count[t] < count[u] \/ (count[t] = count[u] /\ t <= u)

\* Mutant: the callback adds a period of zero.
CallbackSetsNothing(t) == UNCHANGED <<count, enable>>

\* What a callback may leave: its timer counts on from when it was due, or
\* from now, or is stopped (with time left, if a flag stops it), and a timer
\* that depends on it may be set.
CallbackSets(t) ==
    /\ \E p \in Periods, q \in Periods, set \in SUBSET {r \in Timers : <<t, r>> \in Rings} :
       \E own \in {count[t] + p, p} \cup (IF t \in SelfEnabled THEN {0} ELSE {}) :
         count' = [u \in Timers |-> CASE u = t -> own
                                     [] u \in set \ {t} -> q
                                     [] OTHER -> count[u]]
    /\ \/ UNCHANGED enable
       \/ count'[t] > 0 /\ enable' = enable \ {t}

Fire(t) ==
    /\ Lowest(t)
    /\ t \notin Nested
    /\ CallbackSets(t)
    /\ calls' = [calls EXCEPT ![1].enable =
                    IF t \in Enabled(count', enable') THEN @ ELSE @ \ {t}]
    /\ UNCHANGED <<latch, timer_count, spent, ran>>

\* fdc_callback stops its timer, brings the others up to date and sets it.
FireNested(t) ==
    /\ Lowest(t)
    /\ t \in Nested
    /\ Process([count EXCEPT ![t] = 0], latch - timer_count, "callback", t)
    /\ latch' = 0
    /\ UNCHANGED <<enable, timer_count, spent, ran>>

\* What a device does to its timer: it sets, stops or resumes it, or only
\* had the time brought up to date.
DeviceSets(t) ==
    /\ \E c \in {count[t]} \cup Periods \cup (IF t \in SelfEnabled THEN {0} ELSE {}) :
         count' = [count EXCEPT ![t] = c]
    /\ enable' \in {enable, enable \ {t}} \cup
                   (IF t \in Always \cup SelfEnabled THEN {} ELSE {enable \cup {t}})

Return ==
    /\ ~Running
    /\ Due = {}
    /\ LET call == Head(calls)
           refreshed == IF call.sets \in Enabled(count', enable')
                        THEN {call.sets} ELSE {}
       IN /\ IF call.caller = "slice" THEN UNCHANGED <<count, enable>>
             ELSE DeviceSets(call.sets)
          /\ ran' = IF call.caller = "slice" THEN 0 ELSE ran
          /\ calls' = IF call.caller = "callback"
                      THEN [Tail(calls) EXCEPT ![1].enable =
                                (@ \ {call.sets}) \cup refreshed]
                      ELSE Tail(calls)
    /\ UpdateOutstanding
    /\ UNCHANGED spent

(***************************************************************************)
(* timer_reset, between two slices; the devices are created anew, set and  *)
(* add their timers, some of which keep a static count.                    *)
(***************************************************************************)
HardReset ==
    /\ Running
    /\ ran = 0
    /\ latch' = 0
    /\ timer_count' = 0
    /\ enable' = {}
    /\ \E static \in SUBSET Always, set \in [Timers -> {0} \cup Periods] :
         count' = [t \in Timers |-> IF t \in static THEN count[t] ELSE set[t]]
    /\ UNCHANGED <<spent, ran, calls>>

Init ==
    /\ count = [t \in Timers |-> 0]
    /\ enable = {}
    /\ latch = 0
    /\ timer_count = 0
    /\ spent = 0
    /\ ran = 0
    /\ calls = <<>>

ProcessProceeds == Return \/ \E t \in Timers : Fire(t) \/ FireNested(t)

Next ==
    \/ \E d \in 1..MaxSlice : Execute(d)
    \/ EndPeriod
    \/ \E t \in Timers : DeviceAccess(t)
    \/ ProcessProceeds
    \/ HardReset

Spec == Init /\ [][Next]_vars

\* pc_thread runs on: a call of timer_process is never left where it is.
FairSpec == Spec /\ WF_vars(ProcessProceeds)

(***************************************************************************)
(* Properties.                                                             *)
(***************************************************************************)
\* The type invariant of the timer table and the counters.
TimerTypeOK ==
    /\ count \in [Timers -> Int]
    /\ enable \in SUBSET (Timers \ (Always \cup SelfEnabled))
    /\ latch \in Int /\ timer_count \in Int
    /\ ran \in 0..MaxSlice /\ spent \in 0..ran
    /\ calls \in Seq(CallType)

\* The time the guest has run that is not in the counts yet.
Uncharged == IF Running THEN latch - timer_count + spent ELSE spent

\* A timer whose count has just reached zero is set until it has rung.
Armed == Enabled(count, enable) \cup Due

Left == [t \in Timers |-> IF t \in Armed THEN count[t] - Uncharged ELSE count[t]]

\* No alarm is ever later than the slice it falls due in, plus the rounding:
\* what the guest may have run past it when timer_process is called.
NeverVeryLate == \A t \in Armed : Left[t] >= -(MaxSlice + Slack)

Clock == INSTANCE AlarmClock WITH left <- Left, armed <- Armed

\* Timers ring neither early nor long after they are due, once, and in order.
RingsOnTime == Clock!ClockSpec

\* timer_process always comes to an end and the CPU runs on.
CpuResumes == ~Running ~> Running
=============================================================================
