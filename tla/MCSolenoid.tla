----------------------------- MODULE MCSolenoid -----------------------------
(* The runs of the solenoid driver: its constants are small numbers.       *)
EXTENDS Solenoid
=============================================================================
