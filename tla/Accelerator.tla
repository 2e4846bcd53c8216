---------------------------- MODULE Accelerator ----------------------------
(***************************************************************************)
(* What the guest is promised by an accelerator whose commands a thread    *)
(* executes: commands are executed in the order they were written, each    *)
(* once, and a register that is read back shows all of them.               *)
(***************************************************************************)
EXTENDS Naturals

CONSTANT Writes     \* how many commands the guest writes

VARIABLES
    written,    \* how many commands the guest has written: their numbers
    engine,     \* the number of the last command executed
    seen        \* the last command whose effect a register has shown

card == <<written, engine, seen>>

AccInit == written = 0 /\ engine = 0 /\ seen = 0

Write ==
    /\ written < Writes
    /\ written' = written + 1
    /\ UNCHANGED <<engine, seen>>

Execute ==
    /\ engine < written
    /\ engine' = engine + 1
    /\ UNCHANGED <<written, seen>>

ReadBack ==
    /\ engine = written
    /\ seen' = written
    /\ UNCHANGED <<written, engine>>

AccNext == Write \/ Execute \/ ReadBack

AccSpec == AccInit /\ [][AccNext]_card
=============================================================================
