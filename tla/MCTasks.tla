------------------------------ MODULE MCTasks ------------------------------
(* A small instance of Tasks for TLC: the task of the booting thread lasts  *)
(* a ball, the others for ever, and the ball ends.                          *)
EXTENDS Tasks

MCLifetimes == {Infinite}
MCExpiries  == {Ball}
============================================================================
