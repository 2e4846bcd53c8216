---------------------------- MODULE PriorityInt -----------------------------
(***************************************************************************)
(* What the two 8259s promise a machine: one controller with fifteen       *)
(* inputs in a fixed order of priority.  It interrupts the processor for   *)
(* the first requested input, and only over a handler of an input after    *)
(* it; handlers end in the reverse of the order in which they began.       *)
(***************************************************************************)
EXTENDS Integers, Sequences

CONSTANTS
    Inputs,  \* the inputs of the controller
    RankOf   \* RankOf[i]: the place of input i in the order, first is least

VARIABLES
    requested, \* the inputs that wait for service
    serving    \* the inputs in service, the latest first

TypeOK ==
    /\ requested \subseteq Inputs
    /\ serving \in Seq(Inputs)

Init == requested = {} /\ serving = <<>>

Request(i) == requested' = requested \cup {i} /\ UNCHANGED serving

Withdraw(i) == requested' = requested \ {i} /\ UNCHANGED serving

Accept(i) ==
    /\ i \in requested
    /\ \A j \in requested : RankOf[i] <= RankOf[j]
    /\ serving # <<>> => RankOf[i] < RankOf[Head(serving)]
    /\ requested' = requested \ {i}
    /\ serving' = <<i>> \o serving

\* A level triggered input that is still raised is requested again.
Finish(again) ==
    /\ serving # <<>>
    /\ serving' = Tail(serving)
    /\ requested' = IF again THEN requested \cup {Head(serving)} ELSE requested

Next ==
    \/ \E i \in Inputs : Request(i) \/ Withdraw(i) \/ Accept(i)
    \/ \E again \in BOOLEAN : Finish(again)

Spec == Init /\ [][Next]_<<requested, serving>>
=============================================================================
