-------------------------------- MODULE Leff --------------------------------
(***************************************************************************)
(* Lamp effects (kernel/leff.c): a lamp effect is a task that owns a set   *)
(* of lamps while it runs.  Its group id is one of a few, and indexes      *)
(* leff_running_list; leff_free_set says which lamps nobody owns.  Quick   *)
(* effects (a switch's lamp pulse, a lamp timer) take one lamp by          *)
(* themselves and are not in the list.                                     *)
(*                                                                         *)
(* Lamp effects live as long as the ball: a tilt and the end of the ball   *)
(* kill their tasks without leff_exit, and the lamps stay taken until      *)
(* leff_stop_all at the start of the next ball (kernel/game.c).  General   *)
(* illumination strings are not modelled.                                  *)
(***************************************************************************)
EXTENDS Integers, FiniteSets

CONSTANTS
  Effects,     \* the rows of leff_table
  NONE,        \* LEFF_NULL; also no task of a group
  Lamps,
  Lampset,     \* the lamps of an effect, leff_get_set
  Prio,        \* its priority
  NumGids,     \* MAX_RUNNING_LEFFS
  QuickLamps,  \* lamps that quick effects use
  MaxQuick     \* bound: quick effects on one lamp

Gids == 0 .. NumGids - 1                   \* relative to GID_LEFF_BASE

ASSUME LeffAssumption ==
  /\ NONE \notin Effects
  /\ Lampset \in [Effects -> SUBSET Lamps]
  /\ Prio \in [Effects -> Nat]
  /\ NumGids \in Nat \ {0}
  /\ QuickLamps \subseteq Lamps
  /\ MaxQuick \in Nat

VARIABLES
  list,   \* leff_running_list
  task,   \* the effect whose function the task of a gid runs
  next,   \* leff_next_gid
  free,   \* leff_free_set
  lit,    \* leff_data_set
  quick,  \* how many quick effects hold, or believe to hold, a lamp
  ball    \* "play", or "ended" by a tilt or drained, until leff_stop_all

vars == <<list, task, next, free, lit, quick, ball>>

Listed(f)     == \E g \in Gids : list[g] = f
Overlap(e, f) == Lampset[e] \cap Lampset[f] # {}

(* leff_gid_alloc: the first gid without a task, from leff_next_gid on.    *)
Distance(g)  == (g - next) % NumGids
FreeGid      == {g \in Gids : /\ task[g] = NONE
                              /\ \A h \in Gids : task[h] = NONE => Distance(g) <= Distance(h)}
After(g)     == (g + 1) % NumGids

-----------------------------------------------------------------------------
(* leff_close, and the kill before it in leff_stop, for the gids K.        *)
(* Variants of the code, wrong ones, are named ...Bug: none is used below. *)

LampsOf(K)   == UNION {Lampset[list[g]] : g \in K}
Close(K)     == /\ list' = [g \in Gids |-> IF g \in K THEN NONE ELSE list[g]]
                /\ task' = [g \in Gids |-> IF g \in K THEN NONE ELSE task[g]]
                /\ free' = free \cup LampsOf(K)
                /\ lit' = lit \ LampsOf(K)

(* leff_start, once a gid is found: the entries K are stopped for it.      *)
Launch(f, g, K) ==
  /\ list' = [h \in Gids |-> IF h = g THEN f ELSE IF h \in K THEN NONE ELSE list[h]]
  /\ task' = [h \in Gids |-> IF h = g THEN f ELSE IF h \in K THEN NONE ELSE task[h]]
  /\ free' = (free \cup LampsOf(K)) \ Lampset[f]
  /\ lit' = lit \ LampsOf(K)

(* leff_res_can_alloc and leff_can_preempt: the entries, of tasks that are *)
(* gone too, that hold lamps of f.  Lamps that only a quick effect holds   *)
(* do not stop it.                                                         *)
Holders(f)   == {g \in Gids : list[g] # NONE /\ Overlap(list[g], f)}
Blocked(f)   == \E g \in Holders(f) : Prio[list[g]] >= Prio[f]
CanAllocBug(f) == Lampset[f] \cap free # {}
CanAlloc(f)  == Lampset[f] \subseteq free

LeffStart(f) ==
  /\ ~ Listed(f)
  /\ \E g \in FreeGid :
       /\ next' = After(g)
       /\ \/ CanAlloc(f) /\ Launch(f, g, {})
          \/ ~ CanAlloc(f) /\ ~ Blocked(f) /\ Launch(f, g, Holders(f))
          \/ ~ CanAlloc(f) /\ Blocked(f) /\ UNCHANGED <<list, task, free, lit>>
  /\ UNCHANGED <<quick, ball>>

LeffStop(f) ==
  /\ Listed(f)
  /\ \E g \in Gids : list[g] = f /\ Close({g})
  /\ UNCHANGED <<next, quick, ball>>

(* leff_restart of an effect in the list, its task alive or not; of        *)
(* another one it is leff_start.                                           *)
LeffRestart(f) ==
  \E g \in Gids :
    /\ list[g] = f
    /\ task' = [task EXCEPT ![g] = f]
    /\ lit' = lit \ Lampset[f]
    /\ UNCHANGED <<list, next, free, quick, ball>>

(* The task of g calls leff_exit, which goes by the list.                  *)
LeffExit(g) ==
  /\ task[g] # NONE
  /\ list[g] # NONE
  /\ Close({g})
  /\ UNCHANGED <<next, quick, ball>>

(* leff_on, leff_off and leff_toggle by the function of the effect.        *)
LeffDraw(g) ==
  /\ task[g] # NONE
  /\ \E l \in Lampset[task[g]] : lit' = (lit \ {l}) \cup ({l} \ lit)
  /\ UNCHANGED <<list, task, next, free, quick, ball>>

-----------------------------------------------------------------------------
(* Quick effects: leff_quick_alloc, the toggles, leff_quick_free, each by  *)
(* one that has a lamp.  An effect that frees a lamp in this way (the      *)
(* attract mode of WCS), and peers, further tasks of a group id, are not   *)
(* modelled.                                                               *)

QuickAlloc(l) ==
  /\ l \in free /\ quick[l] < MaxQuick
  /\ free' = free \ {l}
  /\ quick' = [quick EXCEPT ![l] = @ + 1]
  /\ UNCHANGED <<list, task, next, lit, ball>>

QuickToggle(l) ==
  /\ quick[l] > 0
  /\ lit' = (lit \ {l}) \cup ({l} \ lit)
  /\ UNCHANGED <<list, task, next, free, quick, ball>>

QuickFree(l) ==
  /\ quick[l] > 0
  /\ free' = free \cup {l}
  /\ quick' = [quick EXCEPT ![l] = @ - 1]
  /\ UNCHANGED <<list, task, next, lit, ball>>

-----------------------------------------------------------------------------
(* A tilt, and the end of the ball after it, kill all these tasks, and     *)
(* change nothing else: the effect of the tilt itself is among them.       *)

DurationExpire ==
  /\ ball' = "ended"
  /\ task' = [g \in Gids |-> NONE]
  /\ quick' = [l \in QuickLamps |-> 0]
  /\ UNCHANGED <<list, next, free, lit>>

(* leff_stop_all, by start_ball, stop_game or amode_stop: quick effects    *)
(* that are under way keep on.                                             *)
LeffResetBug == list' = [g \in Gids |-> NONE] /\ UNCHANGED free /\ lit' = {}
LeffReset    == list' = [g \in Gids |-> NONE] /\ free' = Lamps /\ lit' = {}
LeffStopAll ==
  /\ LeffReset
  /\ task' = [g \in Gids |-> NONE]
  /\ ball' = "play"
  /\ UNCHANGED <<next, quick>>

LampAllOff ==
  /\ lit' = {}
  /\ UNCHANGED <<list, task, next, free, quick, ball>>

-----------------------------------------------------------------------------
Init ==
  /\ list = [g \in Gids |-> NONE] /\ task = [g \in Gids |-> NONE]
  /\ next = 0
  /\ free = Lamps /\ lit = {}
  /\ quick = [l \in QuickLamps |-> 0]
  /\ ball = "play"

Next ==
  \/ \E f \in Effects : LeffStart(f) \/ LeffStop(f) \/ LeffRestart(f)
  \/ \E g \in Gids : LeffExit(g) \/ LeffDraw(g)
  \/ \E l \in QuickLamps : QuickAlloc(l) \/ QuickToggle(l) \/ QuickFree(l)
  \/ DurationExpire \/ LeffStopAll \/ LampAllOff

Spec == Init /\ [][Next]_vars

-----------------------------------------------------------------------------
(* The variables keep their types.                                         *)
TypeOK ==
  /\ list \in [Gids -> Effects \cup {NONE}]
  /\ task \in [Gids -> Effects \cup {NONE}]
  /\ next \in Gids
  /\ free \subseteq Lamps /\ lit \subseteq Lamps
  /\ quick \in [QuickLamps -> 0 .. MaxQuick]
  /\ ball \in {"play", "ended"}

(* The list says what the task of a gid runs, so that leff_exit frees the  *)
(* lamps of the effect that exits: entries of killed tasks, restarts and   *)
(* reused gids included.                                                   *)
RunningIsListed == \A g \in Gids : task[g] # NONE => list[g] = task[g]

(* No lamp is owned by two effects, and none of the lamps of a running     *)
(* effect is free for another one, but for the lamps of quick effects:     *)
(* leff_can_preempt does not see those, and takes such a lamp from them.   *)
SharedOnlyWithQuick ==
  /\ \A g, h \in Gids : g # h /\ NONE \notin {task[g], task[h]} =>
       Lampset[task[g]] \cap Lampset[task[h]] \subseteq QuickLamps
  /\ \A g \in Gids : task[g] # NONE => Lampset[task[g]] \cap free \subseteq QuickLamps

(* Lamps are lost, owned by nobody and not free, only from a tilt or the   *)
(* end of a ball until the next one starts.                                *)
LostOnlyBetweenBalls ==
  ball = "play" =>
    \A l \in Lamps \ QuickLamps :
      l \notin free => \E g \in Gids : task[g] # NONE /\ l \in Lampset[task[g]]

(* A lamp effect that starts stops only effects of a lower priority.       *)
OnlyLowerPreempted ==
  [][\A g, h \in Gids :
       /\ task[g] # NONE /\ task'[g] # task[g]
       /\ task[h] # task'[h] /\ task'[h] # NONE
       => Prio[task[g]] < Prio[task'[h]]]_vars
=============================================================================
