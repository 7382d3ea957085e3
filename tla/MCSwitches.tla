----------------------------- MODULE MCSwitches -----------------------------
(* Small matrices for TLC.  Door: switch 0 is on the coin door, needs no   *)
(* debouncing and is scheduled on both edges; 1 is an opto of the matrix.  *)
(* Pair: 1, an opto, and 2, scheduled on both edges, share a column and    *)
(* compete for the queue.  The rows are those whose closure is a short.    *)
EXTENDS Switches, TLC

MCNone == {}

MCDoorColumns  == <<{0}, {1}>>
MCDoorOpto     == {1}
MCDoorEdge     == {0}
MCDoorRows     == {{0, 1}}
MCDoorDebounce == 0 :> 0 @@ 1 :> 2

MCPairColumns  == <<{}, {1, 2}>>
MCPairRows     == {{1, 2}}
MCPairOpto     == {1}
MCPairEdge     == {2}
MCPairDebounce == 1 :> 1 @@ 2 :> 1
=============================================================================
