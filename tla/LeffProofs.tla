----------------------------- MODULE LeffProofs -----------------------------
(***************************************************************************)
(* What module Leff promises of lamp effects, for every table of effects,  *)
(* every number of group ids and every set of quick lamps.                 *)
(*                                                                         *)
(* The invariant speaks of leff_running_list and not of the tasks: the     *)
(* entries of killed tasks stay in it, and their lamps are still theirs,   *)
(* until leff_stop_all or until another effect takes the gid or the lamps. *)
(***************************************************************************)
EXTENDS Leff, TLAPS

(* The lamps of listed effects are not free, and not another one's.        *)
ListedApart ==
  \A g, h \in Gids : g # h /\ list[g] # NONE /\ list[h] # NONE =>
    Lampset[list[g]] \cap Lampset[list[h]] \subseteq QuickLamps

ListedNotFree ==
  \A g \in Gids : list[g] # NONE => Lampset[list[g]] \cap free \subseteq QuickLamps

(* In play every entry has its task.                                       *)
ListedRuns == ball = "play" => \A g \in Gids : list[g] # NONE => task[g] # NONE

LeffInv ==
  /\ TypeOK /\ RunningIsListed
  /\ ListedApart /\ ListedNotFree
  /\ ListedRuns /\ LostOnlyBetweenBalls

-----------------------------------------------------------------------------
(* The invariant holds when the driver has been initialised.               *)
LEMMA InitInv == Init => LeffInv
<1> SUFFICES ASSUME Init PROVE LeffInv
  OBVIOUS
<1> USE LeffAssumption DEF Init, Gids
<1>1. TypeOK
  BY DEF TypeOK
<1>2. RunningIsListed /\ ListedApart /\ ListedNotFree /\ ListedRuns /\ LostOnlyBetweenBalls
  BY DEF RunningIsListed, ListedApart, ListedNotFree, ListedRuns, LostOnlyBetweenBalls
<1> QED BY <1>1, <1>2 DEF LeffInv

(* The gid that leff_gid_alloc returns has no task, and leff_next_gid      *)
(* stays in range.                                                         *)
LEMMA FreeGidFacts ==
  ASSUME TypeOK, NEW g \in FreeGid
  PROVE  g \in Gids /\ task[g] = NONE /\ After(g) \in Gids
<1>1. g \in Gids /\ task[g] = NONE
  BY DEF FreeGid
<1>2. After(g) \in Gids
  BY <1>1, LeffAssumption DEF After, Gids
<1> QED BY <1>1, <1>2

(* Closing an entry gives its lamps back and no others.                    *)
LEMMA CloseInv ==
  ASSUME LeffInv, NEW k \in Gids, list[k] # NONE, Close({k}), UNCHANGED <<next, quick, ball>>
  PROVE  LeffInv'
<1> USE DEF LeffInv, Close, LampsOf
<1>0. list[k] \in Effects /\ Lampset[list[k]] \subseteq Lamps
  BY LeffAssumption DEF TypeOK
<1>1. free' = free \cup Lampset[list[k]] /\ lit' = lit \ Lampset[list[k]]
  OBVIOUS
<1>2. TypeOK'
  BY <1>0, <1>1 DEF TypeOK
<1>3. /\ \A h \in Gids : list'[h] = IF h = k THEN NONE ELSE list[h]
      /\ \A h \in Gids : task'[h] = IF h = k THEN NONE ELSE task[h]
  OBVIOUS
<1>4. RunningIsListed'
  BY <1>3 DEF RunningIsListed
<1>5. ListedApart'
  BY <1>3 DEF ListedApart
<1>6. ListedNotFree'
  BY <1>1, <1>3 DEF ListedNotFree, ListedApart
<1>7. ListedRuns'
  BY <1>3 DEF ListedRuns
<1>8. LostOnlyBetweenBalls'
  <2> SUFFICES ASSUME ball = "play", NEW l \in Lamps \ QuickLamps, l \notin free'
               PROVE  \E g \in Gids : task'[g] # NONE /\ l \in Lampset[task'[g]]
    BY DEF LostOnlyBetweenBalls
  <2>1. PICK g \in Gids : task[g] # NONE /\ l \in Lampset[task[g]]
    BY <1>1 DEF LostOnlyBetweenBalls
  <2>2. g # k
    BY <1>1, <2>1 DEF RunningIsListed
  <2> QED BY <1>3, <2>1, <2>2
<1> QED BY <1>2, <1>4, <1>5, <1>6, <1>7, <1>8

(* Starting an effect on lamps that are free, or that the entries K give   *)
(* up, when no entry but those in K has any of its lamps.                  *)
LEMMA LaunchInv ==
  ASSUME LeffInv, NEW f \in Effects, NEW g \in FreeGid, NEW K \in SUBSET Gids,
         \A k \in K : list[k] # NONE,
         \A h \in Gids \ K : list[h] # NONE => Lampset[list[h]] \cap Lampset[f] \subseteq QuickLamps,
         Launch(f, g, K), next' = After(g), UNCHANGED <<quick, ball>>
  PROVE  LeffInv'
<1> USE DEF LeffInv
<1>0. g \in Gids /\ task[g] = NONE /\ next' \in Gids
  BY FreeGidFacts
<1>1. /\ \A h \in Gids : list'[h] = IF h = g THEN f ELSE IF h \in K THEN NONE ELSE list[h]
      /\ \A h \in Gids : task'[h] = IF h = g THEN f ELSE IF h \in K THEN NONE ELSE task[h]
      /\ free' = (free \cup LampsOf(K)) \ Lampset[f]
      /\ lit' = lit \ LampsOf(K)
  BY DEF Launch
<1>2. f # NONE /\ Lampset[f] \subseteq Lamps
  BY LeffAssumption
<1>3. LampsOf(K) \subseteq Lamps
  BY LeffAssumption DEF LampsOf, TypeOK
<1>4. TypeOK'
  BY <1>0, <1>1, <1>2, <1>3 DEF TypeOK, Launch
<1>5. RunningIsListed'
  BY <1>1 DEF RunningIsListed
<1>6. ListedApart'
  BY <1>1 DEF ListedApart
<1>7. ListedNotFree'
  <2> SUFFICES ASSUME NEW h \in Gids, list'[h] # NONE
               PROVE  Lampset[list'[h]] \cap free' \subseteq QuickLamps
    BY DEF ListedNotFree
  <2>1. CASE h = g
    BY <1>1, <2>1
  <2>2. CASE h # g
    <3>1. h \notin K /\ list'[h] = list[h] /\ list[h] # NONE
      BY <1>1, <2>2
    <3>2. Lampset[list[h]] \cap LampsOf(K) \subseteq QuickLamps
      BY <3>1 DEF LampsOf, ListedApart
    <3>3. Lampset[list[h]] \cap free \subseteq QuickLamps
      BY <3>1 DEF ListedNotFree
    <3> QED BY <1>1, <3>1, <3>2, <3>3
  <2> QED BY <2>1, <2>2
<1>8. ListedRuns'
  BY <1>1, <1>2 DEF ListedRuns
<1>9. LostOnlyBetweenBalls'
  <2> SUFFICES ASSUME ball = "play", NEW l \in Lamps \ QuickLamps, l \notin free'
               PROVE  \E h \in Gids : task'[h] # NONE /\ l \in Lampset[task'[h]]
    BY DEF LostOnlyBetweenBalls
  <2>1. CASE l \in Lampset[f]
    BY <1>0, <1>1, <1>2, <2>1
  <2>2. CASE l \notin Lampset[f]
    <3>1. l \notin free /\ l \notin LampsOf(K)
      BY <1>1, <2>2
    <3>2. PICK h \in Gids : task[h] # NONE /\ l \in Lampset[task[h]]
      BY <3>1 DEF LostOnlyBetweenBalls
    <3>3. h # g /\ h \notin K
      BY <1>0, <3>1, <3>2 DEF LampsOf, RunningIsListed
    <3> QED BY <1>1, <3>2, <3>3
  <2> QED BY <2>1, <2>2
<1> QED BY <1>4, <1>5, <1>6, <1>7, <1>8, <1>9

-----------------------------------------------------------------------------
(* Each operation keeps the invariant.                                     *)
LEMMA LeffStartInv == ASSUME LeffInv, NEW f \in Effects, LeffStart(f) PROVE LeffInv'
<1>1. PICK g \in FreeGid :
        /\ next' = After(g)
        /\ \/ CanAlloc(f) /\ Launch(f, g, {})
           \/ ~ CanAlloc(f) /\ ~ Blocked(f) /\ Launch(f, g, Holders(f))
           \/ ~ CanAlloc(f) /\ Blocked(f) /\ UNCHANGED <<list, task, free, lit>>
  BY DEF LeffStart
<1>2. UNCHANGED <<quick, ball>>
  BY DEF LeffStart
<1>3. CASE CanAlloc(f) /\ Launch(f, g, {})
  <2>1. \A h \in Gids \ {} : list[h] # NONE => Lampset[list[h]] \cap Lampset[f] \subseteq QuickLamps
    BY <1>3 DEF CanAlloc, LeffInv, ListedNotFree
  <2> QED BY <1>1, <1>2, <1>3, <2>1, LaunchInv
<1>4. CASE Launch(f, g, Holders(f))
  <2>1. Holders(f) \in SUBSET Gids /\ \A k \in Holders(f) : list[k] # NONE
    BY DEF Holders
  <2>2. \A h \in Gids \ Holders(f) :
          list[h] # NONE => Lampset[list[h]] \cap Lampset[f] \subseteq QuickLamps
    BY DEF Holders, Overlap
  <2> QED BY <1>1, <1>2, <1>4, <2>1, <2>2, LaunchInv
<1>5. CASE UNCHANGED <<list, task, free, lit>>
  <2>1. next' \in Gids
    BY <1>1, FreeGidFacts DEF LeffInv
  <2> QED BY <1>2, <1>5, <2>1 DEF LeffInv, TypeOK, RunningIsListed, ListedApart, ListedNotFree,
             ListedRuns, LostOnlyBetweenBalls
<1> QED BY <1>1, <1>3, <1>4, <1>5

LEMMA LeffStopInv == ASSUME LeffInv, NEW f \in Effects, LeffStop(f) PROVE LeffInv'
<1>1. PICK g \in Gids : list[g] = f /\ Close({g})
  BY DEF LeffStop
<1>2. list[g] # NONE
  BY <1>1, LeffAssumption
<1>3. UNCHANGED <<next, quick, ball>>
  BY DEF LeffStop
<1> QED BY <1>1, <1>2, <1>3, CloseInv

LEMMA LeffRestartInv == ASSUME LeffInv, NEW f \in Effects, LeffRestart(f) PROVE LeffInv'
<1> USE DEF LeffInv
<1>1. PICK g \in Gids : /\ list[g] = f
                        /\ task' = [task EXCEPT ![g] = f]
                        /\ lit' = lit \ Lampset[f]
                        /\ UNCHANGED <<list, next, free, quick, ball>>
  BY DEF LeffRestart
<1>2. f # NONE
  BY LeffAssumption
<1>3. TypeOK'
  BY <1>1 DEF TypeOK
<1>4. \A h \in Gids : task'[h] = IF h = g THEN f ELSE task[h]
  BY <1>1 DEF TypeOK
<1>5. RunningIsListed' /\ ListedApart' /\ ListedNotFree' /\ ListedRuns'
  BY <1>1, <1>2, <1>4 DEF RunningIsListed, ListedApart, ListedNotFree, ListedRuns
<1>6. LostOnlyBetweenBalls'
  BY <1>1, <1>2, <1>4 DEF LostOnlyBetweenBalls, RunningIsListed
<1> QED BY <1>3, <1>5, <1>6

LEMMA LeffExitInv == ASSUME LeffInv, NEW g \in Gids, LeffExit(g) PROVE LeffInv'
  BY CloseInv DEF LeffExit

(* Drawing, quick effects, the kill and the reset.                         *)
LEMMA OthersInv ==
  ASSUME LeffInv,
         \/ \E g \in Gids : LeffDraw(g)
         \/ \E l \in QuickLamps : QuickAlloc(l) \/ QuickToggle(l) \/ QuickFree(l)
         \/ DurationExpire \/ LeffStopAll \/ LampAllOff
         \/ UNCHANGED vars
  PROVE  LeffInv'
<1> USE LeffAssumption DEF LeffInv
<1>1. ASSUME NEW g \in Gids, LeffDraw(g) PROVE LeffInv'
  <2>1. TypeOK'
    BY <1>1 DEF LeffDraw, TypeOK
  <2> QED BY <1>1, <2>1 DEF LeffDraw, RunningIsListed, ListedApart, ListedNotFree, ListedRuns,
             LostOnlyBetweenBalls
<1>2. ASSUME NEW l \in QuickLamps, QuickAlloc(l) PROVE LeffInv'
  <2>1. TypeOK'
    BY <1>2 DEF QuickAlloc, TypeOK
  <2> QED BY <1>2, <2>1 DEF QuickAlloc, RunningIsListed, ListedApart, ListedNotFree, ListedRuns,
             LostOnlyBetweenBalls
<1>3. ASSUME NEW l \in QuickLamps, QuickToggle(l) PROVE LeffInv'
  <2>1. TypeOK'
    BY <1>3 DEF QuickToggle, TypeOK
  <2> QED BY <1>3, <2>1 DEF QuickToggle, RunningIsListed, ListedApart, ListedNotFree, ListedRuns,
             LostOnlyBetweenBalls
<1>4. ASSUME NEW l \in QuickLamps, QuickFree(l) PROVE LeffInv'
  <2>1. TypeOK'
    BY <1>4 DEF QuickFree, TypeOK
  <2> QED BY <1>4, <2>1 DEF QuickFree, RunningIsListed, ListedApart, ListedNotFree, ListedRuns,
             LostOnlyBetweenBalls
<1>5. ASSUME DurationExpire PROVE LeffInv'
  <2>1. TypeOK'
    BY <1>5 DEF DurationExpire, TypeOK
  <2> QED BY <1>5, <2>1 DEF DurationExpire, RunningIsListed, ListedApart, ListedNotFree, ListedRuns,
             LostOnlyBetweenBalls
<1>6. ASSUME LeffStopAll PROVE LeffInv'
  <2>1. TypeOK'
    BY <1>6 DEF LeffStopAll, LeffReset, TypeOK
  <2> QED BY <1>6, <2>1 DEF LeffStopAll, LeffReset, RunningIsListed, ListedApart, ListedNotFree,
             ListedRuns, LostOnlyBetweenBalls
<1>7. ASSUME LampAllOff \/ UNCHANGED vars PROVE LeffInv'
  <2>1. TypeOK'
    BY <1>7 DEF LampAllOff, vars, TypeOK
  <2> QED BY <1>7, <2>1 DEF LampAllOff, vars, RunningIsListed, ListedApart, ListedNotFree,
             ListedRuns, LostOnlyBetweenBalls
<1> QED BY <1>1, <1>2, <1>3, <1>4, <1>5, <1>6, <1>7

LEMMA NextInv == LeffInv /\ [Next]_vars => LeffInv'
<1> SUFFICES ASSUME LeffInv, [Next]_vars PROVE LeffInv'
  OBVIOUS
<1> QED BY LeffStartInv, LeffStopInv, LeffRestartInv, LeffExitInv, OthersInv DEF Next

-----------------------------------------------------------------------------
(* The variables of the driver keep their types.                           *)
THEOREM TypeCorrect == Spec => []TypeOK
<1>1. LeffInv => TypeOK
  BY DEF LeffInv
<1> QED BY <1>1, InitInv, NextInv, PTL DEF Spec

(* leff_running_list names the effect that the task of a gid runs, so      *)
(* leff_exit frees the lamps of the effect that calls it.                  *)
THEOREM ListNamesRunning == Spec => []RunningIsListed
<1>1. LeffInv => RunningIsListed
  BY DEF LeffInv
<1> QED BY <1>1, InitInv, NextInv, PTL DEF Spec

(* Two running effects share no lamp, and the lamps of a running effect    *)
(* are not free, but for the lamps that quick effects use.                 *)
THEOREM LampsApart == Spec => []SharedOnlyWithQuick
<1>1. LeffInv => SharedOnlyWithQuick
  BY DEF LeffInv, ListedApart, ListedNotFree, RunningIsListed, SharedOnlyWithQuick
<1> QED BY <1>1, InitInv, NextInv, PTL DEF Spec

(* leff_stop_all at the start of a ball finds again every lamp that killed *)
(* effects have not given back.                                            *)
THEOREM NoLampLost == Spec => []LostOnlyBetweenBalls
<1>1. LeffInv => LostOnlyBetweenBalls
  BY DEF LeffInv
<1> QED BY <1>1, InitInv, NextInv, PTL DEF Spec

(* What a step of leff_start may stop.                                     *)
StopsLower ==
  \A g, h \in Gids :
    /\ task[g] # NONE /\ task'[g] # task[g]
    /\ task[h] # task'[h] /\ task'[h] # NONE
    => Prio[task[g]] < Prio[task'[h]]

LEMMA StartStopsLower == ASSUME LeffInv, NEW f \in Effects, LeffStart(f) PROVE StopsLower
<1> USE DEF LeffInv
<1>1. PICK k \in FreeGid :
        \/ Launch(f, k, {})
        \/ ~ Blocked(f) /\ Launch(f, k, Holders(f))
        \/ UNCHANGED <<list, task, free, lit>>
  BY DEF LeffStart
<1>2. k \in Gids /\ task[k] = NONE
  BY FreeGidFacts
<1>3. CASE Launch(f, k, {})
  BY <1>2, <1>3 DEF Launch, StopsLower
<1>4. CASE ~ Blocked(f) /\ Launch(f, k, Holders(f))
  <2> SUFFICES ASSUME NEW g \in Gids, NEW h \in Gids,
                      task[g] # NONE, task'[g] # task[g], task[h] # task'[h], task'[h] # NONE
               PROVE  Prio[task[g]] < Prio[task'[h]]
    BY DEF StopsLower
  <2>1. \A j \in Gids : task'[j] = IF j = k THEN f ELSE IF j \in Holders(f) THEN NONE ELSE task[j]
    BY <1>4 DEF Launch
  <2>2. task'[h] = f /\ g \in Holders(f)
    BY <1>2, <2>1
  <2>3. list[g] = task[g] /\ ~ Prio[list[g]] >= Prio[f]
    BY <1>4, <2>2 DEF Blocked, RunningIsListed
  <2>4. Prio[task[g]] \in Nat /\ Prio[f] \in Nat
    BY LeffAssumption DEF TypeOK
  <2> QED BY <2>2, <2>3, <2>4
<1>5. CASE UNCHANGED <<list, task, free, lit>>
  BY <1>5 DEF StopsLower
<1> QED BY <1>1, <1>3, <1>4, <1>5

LEMMA StepStopsLower == ASSUME LeffInv, [Next]_vars PROVE StopsLower
<1> USE DEF LeffInv
<1>1. ASSUME NEW f \in Effects, LeffStop(f) PROVE StopsLower
  BY <1>1 DEF LeffStop, Close, StopsLower
<1>2. ASSUME NEW f \in Effects, LeffRestart(f) PROVE StopsLower
  BY <1>2 DEF LeffRestart, StopsLower, RunningIsListed, TypeOK
<1>3. ASSUME NEW g \in Gids, LeffExit(g) PROVE StopsLower
  BY <1>3 DEF LeffExit, Close, StopsLower
<1>4. ASSUME DurationExpire \/ LeffStopAll PROVE StopsLower
  BY <1>4 DEF DurationExpire, LeffStopAll, StopsLower
<1>5. ASSUME task' = task PROVE StopsLower
  BY <1>5 DEF StopsLower
<1>6. ASSUME NEW g \in Gids, LeffDraw(g) PROVE task' = task
  BY <1>6 DEF LeffDraw
<1>7. ASSUME NEW l \in QuickLamps, QuickAlloc(l) \/ QuickToggle(l) \/ QuickFree(l) PROVE task' = task
  BY <1>7 DEF QuickAlloc, QuickToggle, QuickFree
<1>8. ASSUME LampAllOff \/ UNCHANGED vars PROVE task' = task
  BY <1>8 DEF LampAllOff, vars
<1> QED BY <1>1, <1>2, <1>3, <1>4, <1>5, <1>6, <1>7, <1>8, StartStopsLower DEF Next

(* A lamp effect that starts stops only effects of a lower priority.       *)
THEOREM PreemptsLower == Spec => OnlyLowerPreempted
<1>1. LeffInv /\ [Next]_vars => [StopsLower]_vars
  BY StepStopsLower
<1>2. Spec => []LeffInv
  BY InitInv, NextInv, PTL DEF Spec
<1> QED BY <1>1, <1>2, PTL DEF Spec, OnlyLowerPreempted, StopsLower
=============================================================================
