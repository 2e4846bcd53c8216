----------------------------- MODULE AlarmClock -----------------------------
(***************************************************************************)
(* What the devices of the machine are promised by timer.c: an alarm rings *)
(* when the guest has run for the time it was set to, neither before nor   *)
(* long after, once, and earlier alarms first.  The guest runs in slices;  *)
(* a device that does not synchronise before it sets an alarm has it count *)
(* from some earlier moment of the slice.                                  *)
(***************************************************************************)
EXTENDS Integers

CONSTANTS
    Timers,     \* the alarms
    Always,     \* the alarms that are set for as long as the machine is on
    Synced,     \* the alarms whose device synchronises before setting them
    Periods,    \* what alarms are set to
    MaxSlice,   \* the longest slice
    Slack       \* what the rounding of an alarm may cost

VARIABLES
    left,       \* the time left, which a stopped alarm may keep
    armed,      \* the alarms that are set
    ran         \* how long the current slice has run

clock == <<left, armed, ran>>

ClockTypeOK == left \in [Timers -> Int] /\ armed \in SUBSET Timers /\ ran \in 0..MaxSlice

ClockInit ==
    /\ armed \in SUBSET Timers
    /\ left = [t \in Timers |-> 0]
    /\ ran = 0

Tick ==
    \E d \in 1..(MaxSlice - ran) :
        /\ ran' = ran + d
        /\ left' = [t \in Timers |-> IF t \in armed THEN left[t] - d ELSE left[t]]
        /\ UNCHANGED armed

\* No slice ends with an alarm overdue.
EndSlice ==
    /\ \A t \in armed : left[t] > -Slack
    /\ ran' = 0
    /\ UNCHANGED <<left, armed>>

\* The alarm's device may set it again, and set others.
Ring(t) ==
    /\ t \in armed
    /\ left[t] <= 0
    /\ \A u \in armed : left[t] <= left[u]
    /\ \A u \in armed' \ {t} : \/ u \in armed /\ left'[u] = left[u]
                               \/ \E p \in Periods, e \in 0..ran : left'[u] = p - e
    /\ t \in armed' => \E p \in Periods, e \in 0..ran : left'[t] \in {left[t] + p, p - e}
    /\ armed \ {t} \subseteq armed'
    /\ UNCHANGED ran

\* A device sets, stops or resumes one of its alarms; the others are not
\* disturbed, and the alarm has rung if it was due.
SetAlarm(t) ==
    LET lag == IF t \in Synced THEN 0 ELSE ran
    IN /\ t \in armed => left[t] > -lag
       /\ armed' \in {armed \cup {t}, armed \ {t}}
       /\ t \in armed' => \/ \E p \in Periods, e \in 0..lag : left'[t] = p - e
                          \/ \E e \in 0..lag : left'[t] = left[t] - e
       /\ \A u \in armed \ {t} : left'[u] = left[u]
       /\ UNCHANGED ran

\* The machine is reset, and its devices set their alarms as they start; one
\* that is always set may also be left as it was, or later.
Reset ==
    /\ ran = 0
    /\ Always \subseteq armed'
    /\ \A t \in armed' : \/ left'[t] \in {0} \cup Periods
                         \/ t \in Always \cap armed /\ left'[t] >= left[t]
    /\ UNCHANGED ran

ClockNext ==
    \/ Tick \/ EndSlice \/ Reset
    \/ \E t \in Timers : Ring(t) \/ SetAlarm(t)

ClockSpec == ClockInit /\ [][ClockNext /\ ClockTypeOK']_clock
=============================================================================
