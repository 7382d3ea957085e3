------------------------------ MODULE MCDevice ------------------------------
(* Device 0 is a saucer that can lock one ball, device 1 the trough.       *)
EXTENDS Device, TLC

MCDevices == {0, 1}
MCNone    == {}
MCSaucer  == {0}
MCSize    == 0 :> 1 @@ 1 :> 2
MCInitMax == 0 :> 0 @@ 1 :> 2
MCErrors  == 0 :> 2 @@ 1 :> 2
=============================================================================
