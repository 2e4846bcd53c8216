---------------------------- MODULE MCInterrupts ----------------------------
(* Instances of Interrupts for TLC: two PCI cards share line 11 of the     *)
(* slave; ISA devices drive a line before it, one on the slave before it   *)
(* and one after both.                                                     *)
EXTENDS Interrupts, TLC

NoMasks == {{}}
SharedPin == (5 :> 0) @@ (6 :> 0)
Empty == {}
=============================================================================
