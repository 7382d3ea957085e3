------------------------------- MODULE MCCoin -------------------------------
(* Coins of one and three units; two make a credit, four a bonus.          *)
EXTENDS Coin
=============================================================================
