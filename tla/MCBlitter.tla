----------------------------- MODULE MCBlitter -----------------------------
(* Instances of Blitter for TLC.                                           *)
EXTENDS Blitter

Everything == AllCommands
Switching == {"fullscreen", "size", "close"}
Running == AllCommands \ {"close"}
=============================================================================
