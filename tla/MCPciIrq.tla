------------------------------ MODULE MCPciIrq ------------------------------
(* Instances of PciIrq for TLC: two cards whose slots route INTA to the    *)
(* same routing input, and one MIRQ, all routed to one line or none.       *)
EXTENDS PciIrq, TLC

NoMasks == {{}}
MasksNoneOrAll == {{}, 0 .. 7}
PlainIcw1 == {{"ic4"}}
EdgeOrLevel10 == {{}, {10}}
SharedPin == (5 :> 0) @@ (6 :> 0)
=============================================================================
