------------------------------- MODULE MCDeff -------------------------------
(* A deff_table for TLC: two background effects, a jackpot that holds the  *)
(* balls, the total a mode shows when it ends, a quick abortable effect.   *)
EXTENDS Deff, TLC

CONSTANTS scores, mode, jackpot, total, quick

MCEffects    == {scores, mode, jackpot, total, quick}
MCBackground == {scores, mode}
MCConditions == {{scores}, {scores, mode}}
MCEndings    == {total}
MCPrio  == (scores :> 1) @@ (mode :> 2) @@ (quick :> 3) @@ (total :> 3) @@ (jackpot :> 4)
MCFlags == (scores :> {}) @@ (mode :> {}) @@ (quick :> {"abortable", "restartable", "timeout"})
           @@ (total :> {"queued", "endball"}) @@ (jackpot :> {"queued", "timeout", "pause"})
=============================================================================
