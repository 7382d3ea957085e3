------------------------------- MODULE MCLeff -------------------------------
(* A leff_table for TLC: effects that overlap in pairs, one of them on a   *)
(* lamp that a switch pulses as well.                                      *)
EXTENDS Leff, TLC

CONSTANTS tilt, jets, ramp, amode, flash, l1, l2, l3, l4

MCEffects == {tilt, jets, ramp, amode, flash}
MCLamps   == {l1, l2, l3, l4}
MCLampset == (tilt :> {l1, l2, l3}) @@ (jets :> {l1, l2}) @@ (ramp :> {l2, l3}) @@ (amode :> {l1})
             @@ (flash :> {l3, l4})
MCPrio    == (tilt :> 3) @@ (jets :> 2) @@ (ramp :> 2) @@ (amode :> 1) @@ (flash :> 1)
MCQuick   == {l3}
=============================================================================
