------------------------------ MODULE MCModes -------------------------------
(* Games of a few players, balls and coins, with one extra ball and        *)
(* buy-in, and with two multiball modes.                                   *)
EXTENDS Modes

CONSTANTS mb1, mb2

MCMbs == {mb1, mb2}
=============================================================================
