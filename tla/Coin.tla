-------------------------------- MODULE Coin --------------------------------
(***************************************************************************)
(* Units and credits (common/coin.c) in protected memory, with their       *)
(* checksum (kernel/csum.c) and their registration at the power up         *)
(* (kernel/file.c).                                                        *)
(*                                                                         *)
(* Nothing sleeps in here, so operations do not interleave; but the power  *)
(* may be lost after any write to the memory, which keeps what has been    *)
(* written.  Each action is one write.                                     *)
(***************************************************************************)
EXTENDS Integers

CONSTANTS
  MaxCredits,      \* max_credits
  UnitsPerCredit,  \* units_per_credit
  UnitsPerBonus,   \* units_per_bonus
  BonusCredits,    \* bonus_credits
  CoinUnits,       \* the values of coin_units
  Locks,           \* whether locked memory ignores writes: it does on the WPC
  ByteSize,        \* bound: 2^8
  MaxInserted,     \* bound: units put in
  MaxLosses,       \* bound: losses of power
  Builds           \* bound: versions of the structure

ASSUME CoinAssumption ==
  /\ {MaxCredits, UnitsPerCredit, ByteSize, Builds} \subseteq Nat \ {0}
  /\ {UnitsPerBonus, BonusCredits, MaxInserted, MaxLosses} \subseteq Nat
  /\ CoinUnits \subseteq Nat \ {0}
  /\ Locks \in BOOLEAN

VARIABLES
  nvram,  \* coin_state, and the checksum and version of its file_info
  pc,     \* the next write
  op,     \* the operation it belongs to, with the units of a coin
  build,  \* csi->version of the program
  hist    \* for the properties: units put in, credits taken, losses of power,
          \* whether nothing was being written at the last one, and the
          \* memory before the coin

vars == <<nvram, pc, op, build, hist>>

(* Variants of the code, wrong ones, are named ...Bug: none is used below. *)

None      == [is |-> "none", units |-> 0]
Call(is)  == [is |-> is, units |-> 0]

Sum(x)    == (x.units + x.total_units + x.credits) % ByteSize
Byte(n)   == n % ByteSize
Worth(x)  == x.units + x.credits * UnitsPerCredit
Cleared   == nvram.units = 0 /\ nvram.total_units = 0

Write(x, next) ==
  /\ nvram' = x
  /\ pc' = next
  /\ UNCHANGED <<op, build, hist>>

Go(next) == Write(nvram, next)

Finished == pc' = "idle" /\ op' = None

-----------------------------------------------------------------------------
(* csum_area_update.                                                       *)
Updated(x) == [x EXCEPT !.csum = Sum(x)]

UpdateDoneBug ==
  /\ pc = "update"
  /\ Finished
  /\ UNCHANGED <<nvram, build, hist>>

UpdateDone ==
  /\ pc = "update"
  /\ nvram' = Updated(nvram)
  /\ Finished
  /\ UNCHANGED <<build, hist>>

(* What follows csum_area_check, or csum_area_reset.                       *)
AfterCheck == CASE op.is = "coin"   -> "units"
                [] op.is = "remove" -> "remove"
                [] OTHER            -> "done"

Check ==
  /\ pc = "check"
  /\ Go(IF nvram.csum = Sum(nvram) THEN AfterCheck ELSE "reset")

(* coin_reset, in its order, and the update.                               *)
ResetWrite ==
  /\ pc = "reset"
  /\ \/ /\ nvram.units # 0
        /\ Write([nvram EXCEPT !.units = 0], "reset")
     \/ /\ nvram.units = 0 /\ nvram.total_units # 0
        /\ Write([nvram EXCEPT !.total_units = 0], "reset")
     \/ /\ Cleared /\ nvram.credits # 0
        /\ Write([nvram EXCEPT !.credits = 0], "reset")
     \/ /\ Cleared /\ nvram.credits = 0
        /\ Write(Updated(nvram), AfterCheck)

Done ==
  /\ pc = "done"
  /\ Finished
  /\ UNCHANGED <<nvram, build, hist>>

-----------------------------------------------------------------------------
(* The operations begin with a check.                                      *)
Begin(call) ==
  /\ pc = "idle"
  /\ op' = call /\ pc' = "check"
  /\ UNCHANGED <<nvram, build>>

HasCredits == Begin(Call("look")) /\ UNCHANGED hist

InsertCoin(n) ==
  /\ hist.inserted + n <= MaxInserted
  /\ Begin([is |-> "coin", units |-> n])
  /\ hist' = [hist EXCEPT !.inserted = @ + n,
                          !.before = [worth |-> Worth(nvram), total_units |-> nvram.total_units]]

TakeCredit == Begin(Call("remove")) /\ UNCHANGED hist

RemoveCredit ==
  /\ pc = "remove"
  /\ IF nvram.credits > 0
       THEN /\ nvram' = [nvram EXCEPT !.credits = @ - 1]
            /\ pc' = "update"
            /\ hist' = [hist EXCEPT !.taken = @ + 1]
            /\ UNCHANGED <<op, build>>
       ELSE Go("done")

(* units_clear, at the start of a ball, and credits_clear.                 *)
Clear(is) ==
  /\ pc = "idle"
  /\ op' = Call(is) /\ pc' = "clear"
  /\ UNCHANGED <<nvram, build, hist>>

ClearWrite ==
  /\ pc = "clear"
  /\ \/ /\ op.is = "credits_clear" /\ nvram.credits # 0
        /\ Write([nvram EXCEPT !.credits = 0], "clear")
     \/ /\ op.is = "units_clear" \/ nvram.credits = 0
        /\ nvram.units # 0
        /\ Write([nvram EXCEPT !.units = 0], "clear")
     \/ /\ op.is = "units_clear" \/ nvram.credits = 0
        /\ nvram.units = 0
        /\ Write([nvram EXCEPT !.total_units = 0], "update")

-----------------------------------------------------------------------------
(* add_units.                                                              *)
AddUnits ==
  /\ pc = "units"
  /\ IF nvram.credits >= MaxCredits
       THEN Go("done")
       ELSE Write([nvram EXCEPT !.units = Byte(@ + op.units)],
                  IF UnitsPerBonus > 0 THEN "total" ELSE "convert")

AddTotalUnits ==
  /\ pc = "total"
  /\ Write([nvram EXCEPT !.total_units = Byte(@ + op.units)], "bonus")

Bonus ==
  /\ pc = "bonus"
  /\ IF nvram.total_units >= UnitsPerBonus
       THEN Write([nvram EXCEPT !.total_units = @ - UnitsPerBonus], "award")
       ELSE Go("convert")

BonusCredit ==
  /\ pc = "award"
  /\ Write([nvram EXCEPT !.credits = Byte(@ + BonusCredits)], "bonus")

ConvertBug ==
  /\ pc = "convert"
  /\ IF nvram.units >= UnitsPerCredit
       THEN Write([nvram EXCEPT !.units = @ - 1], "credit")
       ELSE Go("last")

Convert ==
  /\ pc = "convert"
  /\ IF nvram.units >= UnitsPerCredit
       THEN Write([nvram EXCEPT !.units = @ - UnitsPerCredit], "credit")
       ELSE Go("last")

(* add_credit.                                                             *)
AddCredit ==
  /\ pc = "credit"
  /\ IF nvram.credits >= MaxCredits
       THEN Go("convert")
       ELSE Write([nvram EXCEPT !.credits = Byte(@ + 1)], "credit_update")

CreditUpdate ==
  /\ pc = "credit_update"
  /\ Write(Updated(nvram), "convert")

(* The update at the end comes after the memory has been locked.           *)
LastUpdateBug ==
  /\ pc = "last"
  /\ Finished
  /\ UNCHANGED <<nvram, build, hist>>

LastUpdate ==
  /\ pc = "last"
  /\ nvram' = IF Locks THEN nvram ELSE Updated(nvram)
  /\ Finished
  /\ UNCHANGED <<build, hist>>

AddUnitsWrite == AddUnits \/ AddTotalUnits \/ Bonus \/ BonusCredit
                 \/ Convert \/ AddCredit \/ CreditUpdate \/ LastUpdate

-----------------------------------------------------------------------------
(* The loss of power, and the power up, perhaps with another program.  The *)
(* version stands for all that file_register compares: version, address    *)
(* and length; 0 is that of an entry that is like no program's: of a file  *)
(* that has just been created, or with some of the three written.          *)
Resting == pc \in {"idle", "done"} \/ (pc = "check" /\ op.is # "boot")

PowerLoss ==
  /\ pc # "off"
  /\ hist.losses < MaxLosses
  /\ pc' = "off" /\ op' = None
  /\ hist' = [hist EXCEPT !.losses = @ + 1, !.safe = Resting]
  /\ UNCHANGED <<nvram, build>>

PowerUp(b) ==
  /\ pc = "off"
  /\ build' = b
  /\ pc' = "register" /\ op' = Call("boot")
  /\ UNCHANGED <<nvram, hist>>

(* The first writes of the three, when more than one of them differs.      *)
FileRegisterPart ==
  /\ pc = "register"
  /\ nvram.version # build
  /\ nvram' = [nvram EXCEPT !.version = 0]
  /\ hist' = [hist EXCEPT !.safe = FALSE]
  /\ UNCHANGED <<pc, op, build>>

FileRegister ==
  /\ pc = "register"
  /\ nvram' = [nvram EXCEPT !.version = build]
  /\ pc' = IF nvram.version # build THEN "reset" ELSE "check"
  /\ hist' = [hist EXCEPT !.safe = @ /\ nvram.version = build]
  /\ UNCHANGED <<op, build>>

-----------------------------------------------------------------------------
Init ==
  /\ nvram = [units |-> 0, total_units |-> 0, credits |-> 0, csum |-> 0, version |-> 0]
  /\ pc = "off" /\ op = None /\ build = 1
  /\ hist = [inserted |-> 0, taken |-> 0, losses |-> 0, safe |-> FALSE,
             before |-> [worth |-> 0, total_units |-> 0]]

Calls == \/ HasCredits \/ TakeCredit
         \/ \E n \in CoinUnits : InsertCoin(n)
         \/ Clear("units_clear") \/ Clear("credits_clear")

Writes == Check \/ ResetWrite \/ UpdateDone \/ Done \/ RemoveCredit \/ ClearWrite
          \/ AddUnitsWrite \/ FileRegisterPart \/ FileRegister

Power == PowerLoss \/ \E b \in build .. Builds : PowerUp(b)

Next == Calls \/ Writes \/ Power

Spec == Init /\ [][Next]_vars

-----------------------------------------------------------------------------
(* The variables keep their types.                                         *)
TypeOK ==
  /\ nvram \in [units : 0 .. ByteSize - 1, total_units : 0 .. ByteSize - 1,
                credits : 0 .. ByteSize - 1, csum : 0 .. ByteSize - 1, version : 0 .. Builds]
  /\ pc \in {"off", "register", "check", "reset", "done", "idle", "update", "remove", "clear",
             "units", "total", "bonus", "award", "convert", "credit", "credit_update", "last"}
  /\ op \in [is : {"none", "boot", "look", "coin", "remove", "units_clear", "credits_clear"},
             units : {0} \cup CoinUnits]
  /\ build \in 1 .. Builds

(* Between operations the checksum is that of the units and credits ("this *)
(* should be invoked immediately after any changes to protected memory").  *)
ChecksumCurrent == pc = "idle" => nvram.csum = Sum(nvram)

(* Credits are reset by a check only at a power up, and then only when the *)
(* power was lost in the middle of an operation, or the structure has      *)
(* changed: no coin makes the next check fail.                             *)
ResetOnlyWhenTorn == pc = "reset" => op.is = "boot" /\ ~ hist.safe

(* No loss of power, at whatever write and with whatever checksum is left, *)
(* and no sequence of operations makes credits that were not paid for.     *)
Bonuses(units) == IF UnitsPerBonus > 0 THEN BonusCredits * (units \div UnitsPerBonus) ELSE 0

NothingForNothing ==
  Worth(nvram) + hist.taken * UnitsPerCredit
    <= hist.inserted + Bonuses(hist.inserted) * UnitsPerCredit

(* A coin that is accepted counts, once, for its units and its bonuses,    *)
(* unless the credits are at their maximum.                                *)
CoinCounts ==
  [][pc = "last" /\ pc' = "idle" /\ nvram.credits < MaxCredits =>
       Worth(nvram') = hist.before.worth + op.units
                       + UnitsPerCredit * Bonuses(hist.before.total_units + op.units)]_vars
=============================================================================
