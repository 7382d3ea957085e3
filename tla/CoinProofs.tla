----------------------------- MODULE CoinProofs -----------------------------
(***************************************************************************)
(* Credits in protected memory, for every price, bonus, coin and number of *)
(* power losses, on a platform whose lock does not keep the last update    *)
(* out (Locks = FALSE).                                                    *)
(*                                                                         *)
(* The checksum is wrong only from the first write of an operation to its  *)
(* end.  So an operation that begins finds it right, and the one check     *)
(* that can fail is that of a power up after a loss in between, or after   *)
(* a failed reset of the power up before.                                  *)
(***************************************************************************)
EXTENDS Coin, TLAPS

Bytes == 0 .. ByteSize - 1
Nvram == [units : Bytes, total_units : Bytes, credits : Bytes, csum : Bytes, version : 0 .. Builds]
Hist  == [inserted : Nat, taken : Nat, losses : Nat, safe : BOOLEAN,
          before : [worth : Nat, total_units : Nat]]

Sane == nvram.csum = Sum(nvram)

(* Where nothing has been written since the last update.                   *)
Unwritten == \/ pc \in {"idle", "done", "units", "remove"}
             \/ pc = "check" /\ op.is # "boot"

CoinInv ==
  /\ TypeOK
  /\ hist \in Hist
  /\ Unwritten => Sane
  /\ pc \in {"off", "register", "check"} /\ hist.safe => Sane
  /\ pc = "register" => op.is = "boot"
  /\ ResetOnlyWhenTorn

-----------------------------------------------------------------------------
LEMMA ByteRange == \A n \in Int : Byte(n) \in Bytes
  BY CoinAssumption DEF Byte, Bytes

LEMMA SumRange == \A x \in Nvram : Sum(x) \in Bytes
<1> SUFFICES ASSUME NEW x \in Nvram PROVE Sum(x) \in Bytes
  OBVIOUS
<1>1. x.units + x.total_units + x.credits \in Int
  BY CoinAssumption DEF Nvram, Bytes
<1> QED BY <1>1, CoinAssumption DEF Sum, Bytes

(* An update makes the memory sane, and changes the checksum only.         *)
LEMMA UpdatedSane ==
  ASSUME NEW x \in Nvram
  PROVE  Updated(x) \in Nvram /\ Updated(x).csum = Sum(Updated(x))
  BY SumRange DEF Updated, Sum, Nvram

LEMMA WorthNat == \A x \in Nvram : Worth(x) \in Nat
<1> SUFFICES ASSUME NEW x \in Nvram PROVE Worth(x) \in Nat
  OBVIOUS
<1>1. x.units \in Nat /\ x.credits \in Nat /\ UnitsPerCredit \in Nat
  BY CoinAssumption DEF Nvram, Bytes
<1>2. x.credits * UnitsPerCredit \in Nat
  BY <1>1
<1> QED BY <1>1, <1>2 DEF Worth

LEMMA CoinUnit == TypeOK => op.units \in Nat /\ nvram \in Nvram
<1> SUFFICES ASSUME TypeOK PROVE op.units \in Nat /\ nvram \in Nvram
  OBVIOUS
<1>1. \A u \in CoinUnits : u \in Nat
  BY CoinAssumption
<1>3. op.units \in Nat
  BY <1>1 DEF TypeOK
<1>2. nvram \in Nvram
  BY DEF TypeOK, Nvram, Bytes
<1> QED BY <1>2, <1>3

LEMMA InitInv == Init => CoinInv
<1> SUFFICES ASSUME Init PROVE CoinInv
  OBVIOUS
<1>1. TypeOK
  BY CoinAssumption DEF Init, TypeOK, None
<1>2. hist \in Hist /\ ~ hist.safe
  BY DEF Init, Hist
<1> QED BY <1>1, <1>2 DEF Init, CoinInv, Unwritten, ResetOnlyWhenTorn

-----------------------------------------------------------------------------
(* csum_area_check and its reset: the reset of a power up only.            *)
LEMMA CheckInv == ASSUME CoinInv, Check \/ ResetWrite \/ Done \/ UpdateDone PROVE CoinInv'
<1>1. nvram \in Nvram /\ Updated(nvram) \in Nvram /\ op = op /\ hist' = hist /\ build' = build
  BY CoinUnit, UpdatedSane DEF CoinInv, Check, ResetWrite, Done, UpdateDone, Go, Write
<1>2. CASE Check
  <2>1. TypeOK'
    BY <1>2 DEF CoinInv, TypeOK, Check, Go, Write, AfterCheck
  <2>2. nvram' = nvram /\ op' = op /\ pc = "check"
    BY <1>2 DEF Check, Go, Write
  <2>3. CASE Sane
    <3>1. pc' \in {"units", "remove", "done"} /\ Sane'
      BY <1>2, <2>2, <2>3 DEF Check, Go, Write, AfterCheck, Sane
    <3> QED BY <1>1, <2>1, <3>1 DEF CoinInv, ResetOnlyWhenTorn
  <2>4. CASE ~ Sane
    <3>1. pc' = "reset" /\ op.is = "boot" /\ ~ hist.safe
      BY <1>2, <2>4 DEF Check, Go, Write, Sane, CoinInv, Unwritten
    <3> QED BY <1>1, <2>1, <2>2, <3>1 DEF CoinInv, Unwritten, ResetOnlyWhenTorn
  <2> QED BY <2>3, <2>4
<1>3. CASE ResetWrite
  <2>1. op' = op /\ op.is = "boot" /\ ~ hist.safe /\ AfterCheck = "done"
    BY <1>3 DEF ResetWrite, Write, CoinInv, ResetOnlyWhenTorn, AfterCheck
  <2>2. nvram' \in Nvram
    BY <1>1, <1>3, CoinAssumption DEF ResetWrite, Write, Nvram, Bytes
  <2>3. pc' = "reset" \/ (pc' = "done" /\ Sane')
    BY <1>1, <1>3, <2>1, UpdatedSane DEF ResetWrite, Write, Sane
  <2>4. TypeOK'
    BY <1>1, <2>1, <2>2, <2>3 DEF CoinInv, TypeOK, Nvram, Bytes
  <2> QED BY <1>1, <2>1, <2>3, <2>4 DEF CoinInv, Unwritten, ResetOnlyWhenTorn
<1>4. CASE Done \/ UpdateDone
  <2>1. pc' = "idle" /\ op' = None
    BY <1>4 DEF Done, UpdateDone, Finished
  <2>2. nvram' \in Nvram /\ Sane'
    BY <1>1, <1>4, UpdatedSane DEF Done, UpdateDone, CoinInv, Unwritten, Sane
  <2>3. TypeOK'
    BY <1>1, <2>1, <2>2 DEF CoinInv, TypeOK, Nvram, Bytes, None
  <2> QED BY <1>1, <2>1, <2>2, <2>3 DEF CoinInv, Unwritten, ResetOnlyWhenTorn
<1> QED BY <1>2, <1>3, <1>4

-----------------------------------------------------------------------------
(* The beginnings of the operations, which write nothing.                  *)
LEMMA BeginInv ==
  ASSUME CoinInv, NEW call \in [is : {"look", "coin", "remove"}, units : {0} \cup CoinUnits],
         Begin(call), hist' \in Hist
  PROVE  CoinInv'
<1>1. pc = "idle" /\ pc' = "check" /\ op' = call /\ UNCHANGED <<nvram, build>>
  BY DEF Begin
<1>2. TypeOK'
  BY <1>1 DEF CoinInv, TypeOK
<1>3. Sane'
  BY <1>1 DEF CoinInv, Unwritten, Sane
<1> QED BY <1>1, <1>2, <1>3 DEF CoinInv, Unwritten, ResetOnlyWhenTorn

LEMMA CallsInv == ASSUME CoinInv, Calls PROVE CoinInv'
<1>1. CASE HasCredits \/ TakeCredit
  BY <1>1, BeginInv DEF HasCredits, TakeCredit, Call, CoinInv
<1>2. ASSUME NEW n \in CoinUnits, InsertCoin(n) PROVE CoinInv'
  <2>1. n \in Nat /\ Worth(nvram) \in Nat /\ nvram.total_units \in Nat
    BY WorthNat, CoinUnit, CoinAssumption DEF CoinInv, Nvram, Bytes
  <2>3. /\ hist.inserted + n \in Nat
        /\ [worth |-> Worth(nvram), total_units |-> nvram.total_units]
             \in [worth : Nat, total_units : Nat]
    BY <2>1 DEF CoinInv, Hist
  <2>2. hist' \in Hist
    BY <1>2, <2>3 DEF InsertCoin, CoinInv, Hist
  <2> QED BY <1>2, <2>2, BeginInv DEF InsertCoin
<1>3. ASSUME NEW is \in {"units_clear", "credits_clear"}, Clear(is) PROVE CoinInv'
  <2>1. pc' = "clear" /\ op' = Call(is) /\ UNCHANGED <<nvram, build, hist>>
    BY <1>3 DEF Clear
  <2>2. TypeOK'
    BY <2>1 DEF CoinInv, TypeOK, Call
  <2> QED BY <2>1, <2>2 DEF CoinInv, Unwritten, ResetOnlyWhenTorn
<1> QED BY <1>1, <1>2, <1>3 DEF Calls

-----------------------------------------------------------------------------
(* The writes of an operation: between the first one and the update, the   *)
(* sum may be anything.                                                    *)
Writing == {"update", "clear", "total", "bonus", "award", "convert", "credit",
            "credit_update", "last"}

LEMMA WritingInv ==
  ASSUME CoinInv, nvram' \in Nvram, pc' \in Writing, UNCHANGED <<op, build>>, hist' \in Hist
  PROVE  CoinInv'
<1>1. TypeOK'
  BY DEF CoinInv, TypeOK, Writing, Nvram, Bytes
<1> QED BY <1>1 DEF CoinInv, Writing, Unwritten, ResetOnlyWhenTorn

LEMMA RefusedInv ==
  ASSUME CoinInv, pc \in {"units", "remove"}, Go("done")
  PROVE  CoinInv'
<1>1. TypeOK' /\ Sane'
  BY DEF CoinInv, TypeOK, Go, Write, Unwritten, Sane
<1> QED BY <1>1 DEF CoinInv, Unwritten, ResetOnlyWhenTorn, Go, Write

LEMMA TakeInv == ASSUME CoinInv, RemoveCredit \/ ClearWrite PROVE CoinInv'
<1>1. nvram \in Nvram /\ \A c \in Bytes : c > 0 => c - 1 \in Bytes
  BY CoinUnit, CoinAssumption DEF CoinInv, Bytes
<1>2. CASE RemoveCredit /\ nvram.credits > 0
  <2>1. nvram' \in Nvram /\ pc' = "update" /\ UNCHANGED <<op, build>>
    BY <1>1, <1>2 DEF RemoveCredit, Nvram
  <2>2. hist' \in Hist
    BY <1>2 DEF RemoveCredit, CoinInv, Hist
  <2> QED BY <2>1, <2>2, WritingInv DEF Writing
<1>3. CASE RemoveCredit /\ ~ nvram.credits > 0
  BY <1>3, RefusedInv DEF RemoveCredit
<1>4. CASE ClearWrite
  <2>1. nvram' \in Nvram /\ pc' \in {"clear", "update"} /\ UNCHANGED <<op, build, hist>>
    BY <1>1, <1>4, CoinAssumption DEF ClearWrite, Write, Nvram, Bytes
  <2> QED BY <2>1, WritingInv DEF Writing, CoinInv
<1> QED BY <1>2, <1>3, <1>4

LEMMA AddUnitsInv == ASSUME Locks = FALSE, CoinInv, AddUnitsWrite PROVE CoinInv'
<1>1. /\ nvram \in Nvram /\ op.units \in Int /\ BonusCredits \in Int
      /\ \A c \in Bytes, n \in Int : c + n \in Int
      /\ UnitsPerCredit \in Nat /\ UnitsPerBonus \in Nat
  BY CoinUnit, CoinAssumption DEF CoinInv, Bytes
<1>2. \A c \in Bytes, n \in Nat : c >= n => c - n \in Bytes
  BY CoinAssumption DEF Bytes
<1>3. CASE AddUnits /\ nvram.credits >= MaxCredits
  BY <1>3, RefusedInv DEF AddUnits
<1>4. CASE AddUnits /\ ~ nvram.credits >= MaxCredits
  <2>1. nvram' \in Nvram /\ pc' \in {"total", "convert"} /\ UNCHANGED <<op, build, hist>>
    BY <1>1, <1>4, ByteRange DEF AddUnits, Write, Nvram
  <2> QED BY <2>1, WritingInv DEF Writing, CoinInv
<1>5. CASE AddTotalUnits \/ BonusCredit
  <2>1. nvram' \in Nvram /\ pc' = "bonus" /\ UNCHANGED <<op, build, hist>>
    BY <1>1, <1>5, ByteRange DEF AddTotalUnits, BonusCredit, Write, Nvram
  <2> QED BY <2>1, WritingInv DEF Writing, CoinInv
<1>6. CASE Bonus \/ Convert
  <2>1. /\ nvram' \in Nvram /\ pc' \in {"award", "convert", "credit", "last"}
        /\ UNCHANGED <<op, build, hist>>
    BY <1>1, <1>2, <1>6 DEF Bonus, Convert, Go, Write, Nvram
  <2> QED BY <2>1, WritingInv DEF Writing, CoinInv
<1>7. CASE AddCredit \/ CreditUpdate
  <2>1. /\ nvram' \in Nvram /\ pc' \in {"convert", "credit_update"}
        /\ UNCHANGED <<op, build, hist>>
    BY <1>1, <1>7, ByteRange, UpdatedSane DEF AddCredit, CreditUpdate, Go, Write, Nvram
  <2> QED BY <2>1, WritingInv DEF Writing, CoinInv
<1>8. CASE LastUpdate
  <2>1. nvram' \in Nvram /\ Sane' /\ pc' = "idle" /\ op' = None /\ UNCHANGED <<build, hist>>
    BY <1>1, <1>8, UpdatedSane DEF LastUpdate, Finished, Sane
  <2>2. TypeOK'
    BY <2>1 DEF CoinInv, TypeOK, Nvram, Bytes, None
  <2> QED BY <2>1, <2>2 DEF CoinInv, Unwritten, ResetOnlyWhenTorn
<1> QED BY <1>3, <1>4, <1>5, <1>6, <1>7, <1>8 DEF AddUnitsWrite

-----------------------------------------------------------------------------
(* The loss of power, the power up and the registration: hist.safe says    *)
(* that nothing was being written, so what is found is sane.               *)
LEMMA PowerInv == ASSUME CoinInv, Power \/ FileRegisterPart \/ FileRegister PROVE CoinInv'
<1>1. CASE PowerLoss
  <2>1. hist' \in Hist /\ (hist'.safe <=> Resting)
    <3>1. Resting \in BOOLEAN
      BY DEF Resting
    <3>2. PICK r \in BOOLEAN :
            /\ r = Resting
            /\ hist' = [hist EXCEPT !.losses = @ + 1, !.safe = r]
      BY <1>1, <3>1, Zenon DEF PowerLoss
    <3>5. hist.losses + 1 \in Nat /\ hist \in Hist
      BY DEF CoinInv, Hist
    <3>3. hist' \in Hist
      <4> DEFINE more == [hist EXCEPT !.losses = @ + 1]
      <4>1. more \in Hist
        BY <3>5 DEF Hist
      <4>2. hist' = [more EXCEPT !.safe = r]
        BY <3>2
      <4> QED BY <4>1, <4>2, <3>2 DEF Hist
    <3>4. hist'.safe <=> r
      BY <3>2 DEF CoinInv, Hist
    <3> QED BY <3>2, <3>3, <3>4
  <2>2. Resting => Unwritten
    BY DEF Resting, Unwritten, CoinInv
  <2>3. TypeOK' /\ (hist'.safe => Sane')
    BY <1>1, <2>1, <2>2 DEF PowerLoss, CoinInv, TypeOK, None, Sane
  <2> QED BY <1>1, <2>1, <2>3 DEF PowerLoss, CoinInv, Unwritten, ResetOnlyWhenTorn
<1>2. ASSUME NEW b \in build .. Builds, PowerUp(b) PROVE CoinInv'
  <2>1. TypeOK'
    <3>1. b \in 1 .. Builds
      BY CoinAssumption DEF CoinInv, TypeOK
    <3> QED BY <1>2, <3>1 DEF PowerUp, CoinInv, TypeOK, Call
  <2>2. hist' = hist /\ nvram' = nvram /\ pc = "off" /\ pc' = "register" /\ op'.is = "boot"
    BY <1>2 DEF PowerUp, Call
  <2> QED BY <2>1, <2>2 DEF CoinInv, Unwritten, ResetOnlyWhenTorn, Sane, Sum
<1>3. CASE FileRegister
  <2>1. /\ nvram \in Nvram /\ nvram' \in Nvram /\ (Sane => Sane')
        /\ pc = "register" /\ op' = op /\ op.is = "boot" /\ build' = build
        /\ pc' = IF nvram.version # build THEN "reset" ELSE "check"
    BY <1>3, CoinUnit, CoinAssumption DEF FileRegister, CoinInv, TypeOK, Nvram, Sane, Sum
  <2>2. hist' \in Hist /\ (hist'.safe <=> hist.safe /\ nvram.version = build)
    BY <1>3 DEF FileRegister, CoinInv, Hist
  <2>3. TypeOK'
    BY <2>1 DEF CoinInv, TypeOK, Nvram, Bytes
  <2> QED BY <2>1, <2>2, <2>3 DEF CoinInv, Unwritten, ResetOnlyWhenTorn
<1>4. CASE FileRegisterPart
  <2>1. nvram \in Nvram /\ nvram' \in Nvram /\ UNCHANGED <<pc, op, build>> /\ pc = "register"
    <3>1. nvram \in Nvram /\ Builds \in Nat
      BY CoinAssumption DEF CoinInv, TypeOK, Nvram, Bytes
    <3>2. nvram' = [nvram EXCEPT !.version = 0] /\ UNCHANGED <<pc, op, build>> /\ pc = "register"
      BY <1>4 DEF FileRegisterPart
    <3> QED BY <3>1, <3>2 DEF Nvram
  <2>2. hist' \in Hist /\ ~ hist'.safe
    BY <1>4 DEF FileRegisterPart, CoinInv, Hist
  <2>3. TypeOK'
    BY <2>1 DEF CoinInv, TypeOK, Nvram, Bytes
  <2> QED BY <2>1, <2>2, <2>3 DEF CoinInv, Unwritten, ResetOnlyWhenTorn
<1> QED BY <1>1, <1>2, <1>3, <1>4 DEF Power

LEMMA NextInv == ASSUME Locks = FALSE, CoinInv, [Next]_vars PROVE CoinInv'
<1>1. CASE UNCHANGED vars
  BY <1>1 DEF vars, CoinInv, TypeOK, Unwritten, Sane, Sum, ResetOnlyWhenTorn
<1>2. CASE Writes
  BY <1>2, CheckInv, TakeInv, AddUnitsInv, PowerInv DEF Writes
<1> QED BY <1>1, <1>2, CallsInv, PowerInv DEF Next

-----------------------------------------------------------------------------
(* Where the lock does not keep the last update of add_units out, no       *)
(* operation leaves a wrong checksum, and credits are reset only at a      *)
(* power up after a loss in the middle of a write, or with another         *)
(* structure (csum_area_check, called first by every coin and every look   *)
(* at the credits).                                                        *)
THEOREM CoinInvariant == ASSUME Locks = FALSE PROVE Spec => []CoinInv
<1>1. Init => CoinInv
  BY InitInv
<1>2. CoinInv /\ [Next]_vars => CoinInv'
  BY NextInv
<1> QED BY <1>1, <1>2, PTL DEF Spec

THEOREM CreditsAreSafe == ASSUME Locks = FALSE PROVE Spec => []ResetOnlyWhenTorn
<1>1. CoinInv => ResetOnlyWhenTorn
  BY DEF CoinInv
<1> QED BY <1>1, CoinInvariant, PTL

(* The checksum is current whenever nothing is being done.                 *)
THEOREM ChecksumIsCurrent == ASSUME Locks = FALSE PROVE Spec => []ChecksumCurrent
<1>1. CoinInv => ChecksumCurrent
  BY DEF CoinInv, Unwritten, Sane, ChecksumCurrent
<1> QED BY <1>1, CoinInvariant, PTL

-----------------------------------------------------------------------------
(* Types, whatever the lock does.                                          *)
TypeInv == TypeOK /\ hist \in Hist

LEMMA TypesKept ==
  ASSUME TypeInv, nvram' \in Nvram, pc' \in Writing \cup {"reset", "units", "remove", "done", "check"},
         UNCHANGED <<op, build>>, hist' \in Hist
  PROVE  TypeInv'
  BY DEF TypeInv, TypeOK, Writing, Nvram, Bytes

LEMMA WritesTypes == ASSUME TypeInv, Writes PROVE TypeInv'
<1>1. /\ nvram \in Nvram /\ Updated(nvram) \in Nvram /\ op.units \in Int /\ BonusCredits \in Int
      /\ \A c \in Bytes, n \in Int : c + n \in Int
      /\ UnitsPerCredit \in Nat /\ UnitsPerBonus \in Nat /\ hist \in Hist
  BY CoinUnit, UpdatedSane, CoinAssumption DEF TypeInv, Bytes
<1>2. 0 \in Bytes /\ \A c \in Bytes, n \in Nat : c >= n => c - n \in Bytes
  BY CoinAssumption DEF Bytes
<1>3. CASE Check
  BY <1>1, <1>3, TypesKept DEF Check, Go, Write, AfterCheck
<1>4. CASE ResetWrite
  <2>1. nvram' \in Nvram /\ UNCHANGED <<op, build, hist>> /\ pc' \in {"reset", "units", "remove", "done"}
    BY <1>1, <1>2, <1>4 DEF ResetWrite, Write, AfterCheck, Nvram
  <2> QED BY <1>1, <2>1, TypesKept
<1>5. CASE UpdateDone \/ Done \/ LastUpdate
  <2>1. nvram' \in Nvram /\ pc' = "idle" /\ op' = None /\ UNCHANGED <<build, hist>>
    BY <1>1, <1>5 DEF UpdateDone, Done, LastUpdate, Finished
  <2> QED BY <2>1 DEF TypeInv, TypeOK, Nvram, Bytes, None
<1>6. CASE RemoveCredit
  <2>1. nvram' \in Nvram /\ UNCHANGED <<op, build>> /\ pc' \in {"update", "done"}
    <3>1. nvram.credits > 0 => nvram.credits - 1 \in Bytes
      BY <1>1, <1>2 DEF Nvram, Bytes
    <3> QED BY <1>1, <1>6, <3>1 DEF RemoveCredit, Go, Write, Nvram
  <2>2. hist' \in Hist
    BY <1>1, <1>6 DEF RemoveCredit, Go, Write, Hist
  <2> QED BY <2>1, <2>2, TypesKept DEF Writing
<1>7. CASE ClearWrite
  <2>1. nvram' \in Nvram /\ UNCHANGED <<op, build, hist>> /\ pc' \in {"clear", "update"}
    BY <1>1, <1>2, <1>7 DEF ClearWrite, Write, Nvram
  <2> QED BY <1>1, <2>1, TypesKept DEF Writing
<1>8. CASE AddUnits \/ AddTotalUnits \/ BonusCredit \/ AddCredit \/ CreditUpdate
  <2>1. nvram' \in Nvram /\ UNCHANGED <<op, build, hist>> /\ pc' \in Writing \cup {"done"}
    BY <1>1, <1>8, ByteRange
    DEF AddUnits, AddTotalUnits, BonusCredit, AddCredit, CreditUpdate, Go, Write, Nvram, Writing
  <2> QED BY <1>1, <2>1, TypesKept
<1>9. CASE Bonus \/ Convert
  <2>1. nvram' \in Nvram /\ UNCHANGED <<op, build, hist>> /\ pc' \in Writing
    BY <1>1, <1>2, <1>9 DEF Bonus, Convert, Go, Write, Nvram, Writing
  <2> QED BY <1>1, <2>1, TypesKept
<1>10. CASE FileRegister
  <2>1. hist' \in Hist
    BY <1>1, <1>10 DEF FileRegister, Hist
  <2>2. nvram' \in Nvram /\ UNCHANGED <<op, build>> /\ pc' \in {"reset", "check"}
    BY <1>1, <1>10, CoinAssumption DEF FileRegister, TypeInv, TypeOK, Nvram
  <2> QED BY <2>1, <2>2, TypesKept
<1>11. CASE FileRegisterPart
  <2>1. hist' \in Hist
    BY <1>1, <1>11 DEF FileRegisterPart, Hist
  <2>2. nvram' \in Nvram /\ UNCHANGED <<pc, op, build>>
    BY <1>1, <1>11, CoinAssumption DEF FileRegisterPart, TypeInv, TypeOK, Nvram
  <2> QED BY <2>1, <2>2 DEF TypeInv, TypeOK, Nvram, Bytes
<1> QED BY <1>3, <1>4, <1>5, <1>6, <1>7, <1>8, <1>9, <1>10, <1>11 DEF Writes, AddUnitsWrite

LEMMA OtherTypes == ASSUME TypeInv, Calls \/ Power PROVE TypeInv'
<1>1. CASE HasCredits \/ TakeCredit \/ Clear("units_clear") \/ Clear("credits_clear")
  BY <1>1 DEF HasCredits, TakeCredit, Clear, Begin, Call, TypeInv, TypeOK
<1>2. ASSUME NEW n \in CoinUnits, InsertCoin(n) PROVE TypeInv'
  <2>1. n \in Nat /\ Worth(nvram) \in Nat /\ nvram.total_units \in Nat
    BY WorthNat, CoinUnit, CoinAssumption DEF TypeInv, Nvram, Bytes
  <2>2. hist.inserted + n \in Nat /\ hist \in Hist
    BY <2>1 DEF TypeInv, Hist
  <2>3. [worth |-> Worth(nvram), total_units |-> nvram.total_units]
          \in [worth : Nat, total_units : Nat]
    BY <2>1
  <2>4. hist' \in Hist
    BY <1>2, <2>2, <2>3 DEF InsertCoin, Hist
  <2> QED BY <1>2, <2>4 DEF InsertCoin, Begin, TypeInv, TypeOK
<1>3. CASE PowerLoss
  <2>1. Resting \in BOOLEAN
    BY DEF Resting
  <2>2. PICK r \in BOOLEAN : hist' = [hist EXCEPT !.losses = @ + 1, !.safe = r]
    BY <1>3, <2>1, Zenon DEF PowerLoss
  <2> DEFINE more == [hist EXCEPT !.losses = @ + 1]
  <2>3. more \in Hist /\ hist' = [more EXCEPT !.safe = r]
    BY <2>2 DEF TypeInv, Hist
  <2>4. hist' \in Hist
    BY <2>3 DEF Hist
  <2> QED BY <1>3, <2>4 DEF PowerLoss, TypeInv, TypeOK, None
<1>4. ASSUME NEW b \in build .. Builds, PowerUp(b) PROVE TypeInv'
  <2>1. b \in 1 .. Builds
    BY CoinAssumption DEF TypeInv, TypeOK
  <2> QED BY <1>4, <2>1 DEF PowerUp, TypeInv, TypeOK, Call
<1> QED BY <1>1, <1>2, <1>3, <1>4 DEF Calls, Power

LEMMA TypeInvariance == Spec => []TypeInv
<1>1. Init => TypeInv
  BY InitInv DEF CoinInv, TypeInv
<1>2. TypeInv /\ [Next]_vars => TypeInv'
  <2>1. CASE UNCHANGED vars
    BY <2>1 DEF vars, TypeInv, TypeOK
  <2> QED BY <2>1, WritesTypes, OtherTypes DEF Next
<1> QED BY <1>1, <1>2, PTL DEF Spec

(* The units, credits and the checksum keep their types.                   *)
THEOREM TypeCorrect == Spec => []TypeOK
<1>1. TypeInv => TypeOK
  BY DEF TypeInv
<1> QED BY <1>1, TypeInvariance, PTL

-----------------------------------------------------------------------------
(* The account.  Units i have been put in; v is what they have become,     *)
(* and t what still counts towards a bonus: some number a of bonuses       *)
(* explains both.                                                          *)
Award == BonusCredits * UnitsPerCredit

Paid(i, v, t) == \E a \in Nat : /\ a * UnitsPerBonus + t <= i
                                /\ v <= i + a * Award
                                /\ UnitsPerBonus = 0 => a = 0

LEMMA Products ==
  /\ \A x, y, z \in Nat : x * y \in Nat /\ (x + y) * z = x * z + y * z
  /\ \A x, y, z \in Nat : x <= y => x * z <= y * z
  /\ \A x, y \in Nat : x >= 1 => (x - 1) * y = x * y - y
<1>1. \A x, y, z \in Nat : x * y \in Nat /\ (x + y) * z = x * z + y * z
  OBVIOUS
<1>2. ASSUME NEW x \in Nat, NEW y \in Nat, NEW z \in Nat, x <= y PROVE x * z <= y * z
  <2>1. PICK k \in Nat : y = x + k
    <3>1. y - x \in Nat /\ y = x + (y - x)
      BY <1>2
    <3> QED BY <3>1
  <2>2. y * z = x * z + k * z /\ k * z \in Nat /\ x * z \in Nat
    BY <1>1, <2>1
  <2> QED BY <2>2
<1>3. \A x, y \in Nat : x >= 1 => (x - 1) * y = x * y - y
  OBVIOUS
<1> QED BY <1>1, <1>2, <1>3

LEMMA Prices == {UnitsPerCredit, UnitsPerBonus, BonusCredits, Award} \subseteq Nat
  BY CoinAssumption, Products DEF Award

LEMMA PaidOn ==
  ASSUME NEW i \in Nat, NEW v \in Nat, NEW t \in Nat, Paid(i, v, t),
         NEW d \in Nat, NEW w \in Nat, w <= v + d, NEW u \in Nat, u <= t + d
  PROVE  Paid(i + d, w, u)
<1>1. PICK a \in Nat : a * UnitsPerBonus + t <= i /\ v <= i + a * Award /\ (UnitsPerBonus = 0 => a = 0)
  BY DEF Paid
<1> DEFINE m == a * UnitsPerBonus
           n == a * Award
<1>2. m \in Nat /\ n \in Nat
  BY Prices, Products
<1> HIDE DEF m, n
<1>3. m + u <= i + d /\ w <= i + d + n
  BY <1>1, <1>2 DEF m, n
<1> QED BY <1>1, <1>3 DEF Paid, m, n

LEMMA PaidBonus ==
  ASSUME NEW i \in Nat, NEW v \in Nat, NEW t \in Nat, Paid(i, v, t),
         UnitsPerBonus > 0, t >= UnitsPerBonus
  PROVE  Paid(i, v + Award, t - UnitsPerBonus)
<1>1. PICK a \in Nat : a * UnitsPerBonus + t <= i /\ v <= i + a * Award
  BY DEF Paid
<1> DEFINE m == a * UnitsPerBonus
           n == a * Award
<1>2. m \in Nat /\ n \in Nat /\ Award \in Nat /\ UnitsPerBonus \in Nat
  BY Prices, Products
<1>3. (a + 1) * UnitsPerBonus = m + UnitsPerBonus /\ (a + 1) * Award = n + Award
  BY <1>2, Products
<1> HIDE DEF m, n
<1>4. m + UnitsPerBonus + (t - UnitsPerBonus) <= i /\ v + Award <= i + (n + Award)
  BY <1>1, <1>2 DEF m, n
<1> QED BY <1>3, <1>4 DEF Paid

LEMMA PaidFor ==
  ASSUME NEW i \in Nat, NEW v \in Nat, NEW t \in Nat, Paid(i, v, t)
  PROVE  v <= i + Bonuses(i) * UnitsPerCredit
<1>1. PICK a \in Nat : a * UnitsPerBonus + t <= i /\ v <= i + a * Award /\ (UnitsPerBonus = 0 => a = 0)
  BY DEF Paid
<1>2. CASE UnitsPerBonus = 0
  <2>1. a * Award = 0
    BY <1>1, <1>2, Prices
  <2>2. Bonuses(i) = 0
    BY <1>2 DEF Bonuses
  <2> QED BY <1>1, <2>1, <2>2, CoinAssumption
<1>3. CASE UnitsPerBonus > 0
  <2> DEFINE q == i \div UnitsPerBonus
  <2>1. q \in Nat /\ q * UnitsPerBonus + UnitsPerBonus > i
    <3>1. UnitsPerBonus \in Nat \ {0}
      BY <1>3, Prices
    <3>2. \A n \in Nat \ {0} : (i \div n) \in Nat /\ (i \div n) * n + n > i
      OBVIOUS
    <3> QED BY <3>1, <3>2
  <2> HIDE DEF q
  <2>2. a <= q
    <3>1. ~ q + 1 <= a
      <4>1. (q + 1) * UnitsPerBonus = q * UnitsPerBonus + UnitsPerBonus
        BY <2>1, Prices, Products
      <4>2. q + 1 <= a => (q + 1) * UnitsPerBonus <= a * UnitsPerBonus
        BY <2>1, Prices, Products
      <4>3. a * UnitsPerBonus \in Nat /\ q * UnitsPerBonus \in Nat /\ UnitsPerBonus \in Nat
        BY <2>1, Prices, Products
      <4> QED BY <1>1, <2>1, <4>1, <4>2, <4>3
    <3> QED BY <2>1, <3>1
  <2>3. a * Award <= q * Award /\ a * Award \in Nat /\ q * Award \in Nat
    BY <2>1, <2>2, Prices, Products
  <2>4. Bonuses(i) * UnitsPerCredit = q * Award
    <3>1. \A x, y, z \in Nat : (x * y) * z = y * (x * z)
      OBVIOUS
    <3> QED BY <1>3, <2>1, <3>1, Prices DEF Bonuses, Award, q
  <2> QED BY <1>1, <2>3, <2>4
<1> QED BY <1>2, <1>3, Prices
-----------------------------------------------------------------------------
(* What the steps do to the account: units of a coin are owed until they   *)
(* are added, to both sums in turn, and a credit or a bonus from the write *)
(* that takes its units off until the one that adds it.                    *)
Uncounted(p, o) == p = "units" \/ (p \in {"check", "reset"} /\ o.is = "coin")

Owed(p, o) == CASE Uncounted(p, o) -> o.units
                [] p = "award"     -> Award
                [] p = "credit"    -> UnitsPerCredit
                [] OTHER           -> 0

OwedTotal(p, o) == IF Uncounted(p, o) \/ p = "total" THEN o.units ELSE 0

Value(x, taken, p, o) == Worth(x) + taken * UnitsPerCredit + Owed(p, o)
Counted(x, p, o)      == x.total_units + OwedTotal(p, o)

Account == Paid(hist.inserted, Value(nvram, hist.taken, pc, op), Counted(nvram, pc, op))

AccountInv == /\ TypeInv /\ Account
              /\ pc \in {"total", "bonus", "award"} => UnitsPerBonus > 0
              /\ pc = "register" => op.is = "boot"

LEMMA OwedNat ==
  ASSUME NEW p, NEW o, o.units \in Nat PROVE Owed(p, o) \in Nat /\ OwedTotal(p, o) \in Nat
  BY Prices DEF Owed, OwedTotal

LEMMA ValueNat ==
  ASSUME NEW x \in Nvram, NEW taken \in Nat, NEW p, NEW o, o.units \in Nat
  PROVE  Value(x, taken, p, o) \in Nat /\ Counted(x, p, o) \in Nat
<1>1. Worth(x) \in Nat /\ x.total_units \in Nat
  BY WorthNat, CoinAssumption DEF Nvram, Bytes
<1>2. taken * UnitsPerCredit \in Nat
  BY Prices, Products
<1> QED BY <1>1, <1>2, OwedNat DEF Value, Counted

LEMMA AccountTypes ==
  ASSUME TypeInv
  PROVE  /\ nvram \in Nvram /\ hist.taken \in Nat /\ hist.inserted \in Nat /\ op.units \in Nat
         /\ Value(nvram, hist.taken, pc, op) \in Nat /\ Counted(nvram, pc, op) \in Nat
<1>1. nvram \in Nvram /\ op.units \in Nat /\ hist \in Hist
  BY CoinUnit DEF TypeInv
<1>2. hist.taken \in Nat /\ hist.inserted \in Nat
  BY <1>1 DEF Hist
<1> QED BY <1>1, <1>2, ValueNat

(* A step that adds nothing to the account keeps it.                       *)
LEMMA NothingAdded ==
  ASSUME AccountInv, NEW x \in Nvram, NEW k \in Nat, NEW p, NEW o, o.units \in Nat,
         Value(x, k, p, o) <= Value(nvram, hist.taken, pc, op),
         Counted(x, p, o) <= Counted(nvram, pc, op)
  PROVE  Paid(hist.inserted, Value(x, k, p, o), Counted(x, p, o))
<1> DEFINE v == Value(nvram, hist.taken, pc, op)
           t == Counted(nvram, pc, op)
           w == Value(x, k, p, o)
           u == Counted(x, p, o)
<1>1. v \in Nat /\ t \in Nat /\ hist.inserted \in Nat
  BY AccountTypes DEF AccountInv
<1>2. w \in Nat /\ u \in Nat
  BY ValueNat
<1>3. Paid(hist.inserted, v, t) /\ w <= v /\ u <= t
  BY DEF AccountInv, Account
<1> HIDE DEF v, t, w, u
<1>4. Paid(hist.inserted + 0, w, u)
  <2>1. w <= v + 0 /\ u <= t + 0
    BY <1>1, <1>2, <1>3
  <2>2. 0 \in Nat /\ Paid(hist.inserted, v, t)
    BY <1>3
  <2> QED BY ONLY <1>1, <1>2, <2>1, <2>2, PaidOn
<1>5. hist.inserted + 0 = hist.inserted
  BY <1>1
<1> QED BY <1>4, <1>5 DEF w, u

LEMMA ByteLess == \A n \in Nat : Byte(n) <= n /\ Byte(n) \in Nat
  BY CoinAssumption DEF Byte

LEMMA WorthOf ==
  ASSUME NEW x \in Nvram
  PROVE  /\ x.units \in Nat /\ x.total_units \in Nat /\ x.credits \in Nat
         /\ x.credits * UnitsPerCredit \in Nat
         /\ Worth(x) = x.units + x.credits * UnitsPerCredit
  BY Prices, Products, CoinAssumption DEF Nvram, Bytes, Worth

(* The writes of coin_reset, of the updates and of the clearing functions  *)
(* can only take units and credits away.                                   *)
LEMMA LessWorth ==
  ASSUME NEW x \in Nvram, NEW y \in Nvram, y.units <= x.units, y.credits <= x.credits
  PROVE  Worth(y) <= Worth(x)
<1>1. x.credits \in Nat /\ y.credits \in Nat
  BY WorthOf
<1>2. y.credits * UnitsPerCredit <= x.credits * UnitsPerCredit
  BY <1>1, Prices, Products
<1> QED BY <1>2, WorthOf

LEMMA TakesAway ==
  ASSUME AccountInv, nvram' \in Nvram, op'.units \in Nat,
         nvram'.units <= nvram.units, nvram'.credits <= nvram.credits,
         nvram'.total_units <= nvram.total_units,
         hist'.inserted = hist.inserted, hist'.taken = hist.taken,
         Owed(pc', op') <= Owed(pc, op), OwedTotal(pc', op') <= OwedTotal(pc, op)
  PROVE  Account'
<1>1. nvram \in Nvram /\ hist.taken \in Nat /\ op.units \in Nat
  BY AccountTypes DEF AccountInv
<1>2. Worth(nvram') <= Worth(nvram) /\ Worth(nvram') \in Nat /\ Worth(nvram) \in Nat
  BY <1>1, LessWorth, WorthNat
<1>3. hist.taken * UnitsPerCredit \in Nat
  BY <1>1, Prices, Products
<1>4. {Owed(pc, op), Owed(pc', op'), OwedTotal(pc, op), OwedTotal(pc', op')} \subseteq Nat
  BY <1>1, OwedNat
<1>5. Value(nvram', hist.taken, pc', op') <= Value(nvram, hist.taken, pc, op)
  BY <1>2, <1>3, <1>4 DEF Value
<1>6. Counted(nvram', pc', op') <= Counted(nvram, pc, op)
  BY <1>1, <1>4, WorthOf DEF Counted
<1> QED BY <1>1, <1>5, <1>6, NothingAdded DEF Account
(* A write that keeps the program waiting for the same operation.          *)
LEMMA ResetAccount == ASSUME AccountInv, ResetWrite PROVE Account'
<1>1. nvram \in Nvram /\ op.units \in Nat /\ TypeInv
  BY AccountTypes DEF AccountInv
<1>2. nvram.units \in Nat /\ nvram.total_units \in Nat /\ nvram.credits \in Nat
  BY <1>1, WorthOf
<1>3. op' = op /\ hist' = hist /\ pc = "reset" /\ pc' \in {"reset", AfterCheck}
  BY DEF ResetWrite, Write
<1>4. /\ nvram'.units <= nvram.units /\ nvram'.credits <= nvram.credits
      /\ nvram'.total_units <= nvram.total_units /\ nvram' \in Nvram
  BY <1>1, <1>2, UpdatedSane, CoinAssumption DEF ResetWrite, Write, Updated, Nvram, Bytes
<1>5. Owed(pc', op) <= Owed(pc, op) /\ OwedTotal(pc', op) <= OwedTotal(pc, op)
  BY <1>1, <1>3 DEF AfterCheck, Owed, OwedTotal, Uncounted
<1> QED BY <1>1, <1>3, <1>4, <1>5, TakesAway

(* The checks and the ends of operations change no unit and no credit.     *)
Untouched(x) == /\ x.units = nvram.units /\ x.total_units = nvram.total_units
                /\ x.credits = nvram.credits

LEMMA UntouchedAccount ==
  ASSUME AccountInv, Untouched(nvram'), nvram' \in Nvram, op'.units \in Nat,
         hist'.inserted = hist.inserted, hist'.taken = hist.taken,
         Owed(pc', op') <= Owed(pc, op), OwedTotal(pc', op') <= OwedTotal(pc, op)
  PROVE  Account'
<1>1. nvram.units \in Nat /\ nvram.total_units \in Nat /\ nvram.credits \in Nat
  BY AccountTypes, WorthOf DEF AccountInv
<1> QED BY <1>1, TakesAway DEF Untouched

LEMMA EndsAccount ==
  ASSUME AccountInv,
         Check \/ UpdateDone \/ Done \/ LastUpdate \/ CreditUpdate \/ PowerLoss \/ FileRegister
           \/ FileRegisterPart \/ \E b \in build .. Builds : PowerUp(b)
  PROVE  Account'
<1>1. nvram \in Nvram /\ op.units \in Nat /\ hist \in Hist /\ Updated(nvram) \in Nvram
  BY AccountTypes, UpdatedSane DEF AccountInv, TypeInv
<1>2. Untouched(nvram) /\ Untouched(Updated(nvram))
  BY <1>1 DEF Untouched, Updated, Nvram
<1>3. hist'.inserted = hist.inserted /\ hist'.taken = hist.taken
  BY <1>1 DEF Check, UpdateDone, Done, LastUpdate, CreditUpdate, PowerLoss, FileRegister, PowerUp,
              FileRegisterPart, Go, Write, Hist
<1>4. Owed(pc, op) \in Nat /\ OwedTotal(pc, op) \in Nat
  BY <1>1, OwedNat
<1>5. CASE Check
  <2>1. nvram' = nvram /\ op' = op /\ pc = "check" /\ pc' \in {AfterCheck, "reset"}
    BY <1>5 DEF Check, Go, Write
  <2>2. Owed(pc', op) <= Owed(pc, op) /\ OwedTotal(pc', op) <= OwedTotal(pc, op)
    BY <1>1, <2>1 DEF AfterCheck, Owed, OwedTotal, Uncounted
  <2> QED BY <1>1, <1>2, <1>3, <2>1, <2>2, UntouchedAccount
<1>6. CASE UpdateDone \/ Done \/ LastUpdate \/ PowerLoss
  <2>1. nvram' \in {nvram, Updated(nvram)} /\ op' = None /\ pc' \in {"idle", "off"}
    BY <1>6 DEF UpdateDone, Done, LastUpdate, PowerLoss, Finished
  <2>2. op'.units = 0 /\ Owed(pc', op') = 0 /\ OwedTotal(pc', op') = 0
    BY <2>1 DEF None, Owed, OwedTotal, Uncounted
  <2> QED BY <1>1, <1>2, <1>3, <1>4, <2>1, <2>2, UntouchedAccount
<1>7. CASE CreditUpdate
  <2>1. nvram' = Updated(nvram) /\ op' = op /\ pc' = "convert"
    BY <1>7 DEF CreditUpdate, Write
  <2>2. Owed(pc', op) = 0 /\ OwedTotal(pc', op) = 0
    BY <2>1 DEF Owed, OwedTotal, Uncounted
  <2> QED BY <1>1, <1>2, <1>3, <1>4, <2>1, <2>2, UntouchedAccount
<1>8. CASE FileRegister
  <2>1. nvram' \in Nvram /\ Untouched(nvram')
    BY <1>1, <1>8, CoinAssumption DEF FileRegister, AccountInv, TypeInv, TypeOK, Nvram, Untouched
  <2>2. op' = op /\ pc = "register" /\ pc' \in {"reset", "check"}
    BY <1>8 DEF FileRegister
  <2>3. CASE op.is = "coin"
    BY <2>2, <2>3, <1>1 DEF AccountInv
  <2>4. CASE op.is # "coin"
    <3>1. Owed(pc', op') = 0 /\ OwedTotal(pc', op') = 0
      BY <2>2, <2>4 DEF Owed, OwedTotal, Uncounted
    <3> QED BY <1>1, <1>3, <1>4, <2>1, <2>2, <3>1, UntouchedAccount
  <2> QED BY <2>3, <2>4
<1>9. ASSUME NEW b \in build .. Builds, PowerUp(b) PROVE Account'
  <2>1. nvram' = nvram /\ op' = Call("boot") /\ pc' = "register"
    BY <1>9 DEF PowerUp
  <2>2. op'.units = 0 /\ Owed(pc', op') = 0 /\ OwedTotal(pc', op') = 0
    BY <2>1 DEF Call, Owed, OwedTotal, Uncounted
  <2> QED BY <1>1, <1>2, <1>3, <1>4, <2>1, <2>2, UntouchedAccount
<1>10. CASE FileRegisterPart
  <2>1. nvram' \in Nvram /\ Untouched(nvram')
    BY <1>1, <1>10, CoinAssumption DEF FileRegisterPart, Nvram, Untouched
  <2>2. UNCHANGED <<pc, op>>
    BY <1>10 DEF FileRegisterPart
  <2> QED BY <1>1, <1>3, <1>4, <2>1, <2>2, UntouchedAccount
<1> QED BY <1>5, <1>6, <1>7, <1>8, <1>9, <1>10

(* The calls: the units of a coin are put in and owed.                     *)
LEMMA CallsAccount == ASSUME AccountInv, Calls PROVE Account'
<1>1. nvram \in Nvram /\ op.units \in Nat /\ hist \in Hist /\ hist.inserted \in Nat
  BY AccountTypes DEF AccountInv, TypeInv
<1>2. Owed(pc, op) \in Nat /\ OwedTotal(pc, op) \in Nat /\ Untouched(nvram)
  BY <1>1, OwedNat DEF Untouched
<1>3. CASE HasCredits \/ TakeCredit \/ Clear("units_clear") \/ Clear("credits_clear")
  <2>1. /\ nvram' = nvram /\ hist' = hist /\ pc' \in {"check", "clear"}
        /\ op'.units = 0 /\ op'.is # "coin"
    BY <1>3 DEF HasCredits, TakeCredit, Clear, Begin, Call
  <2>2. Owed(pc', op') = 0 /\ OwedTotal(pc', op') = 0
    BY <2>1 DEF Owed, OwedTotal, Uncounted
  <2> QED BY <1>1, <1>2, <2>1, <2>2, UntouchedAccount
<1>4. ASSUME NEW n \in CoinUnits, InsertCoin(n) PROVE Account'
  <2> DEFINE v == Value(nvram, hist.taken, pc, op)
             t == Counted(nvram, pc, op)
             w == Value(nvram, hist.taken, pc', op')
             u == Counted(nvram, pc', op')
  <2>1. n \in Nat
    BY CoinAssumption
  <2>2. /\ nvram' = nvram /\ hist'.inserted = hist.inserted + n /\ hist'.taken = hist.taken
        /\ pc = "idle" /\ pc' = "check" /\ op'.is = "coin" /\ op'.units = n
    BY <1>1, <1>4 DEF InsertCoin, Begin, Hist
  <2>3. Owed(pc, op) = 0 /\ OwedTotal(pc, op) = 0 /\ Owed(pc', op') = n /\ OwedTotal(pc', op') = n
    BY <2>2 DEF Owed, OwedTotal, Uncounted
  <2>4. Worth(nvram) \in Nat /\ hist.taken * UnitsPerCredit \in Nat /\ nvram.total_units \in Nat
    BY <1>1, AccountTypes, WorthOf, WorthNat, Prices, Products DEF AccountInv
  <2>5. v \in Nat /\ w \in Nat /\ w = v + n
    BY <2>1, <2>3, <2>4 DEF Value
  <2>6. t \in Nat /\ u \in Nat /\ u = t + n
    BY <2>1, <2>3, <2>4 DEF Counted
  <2>7. Paid(hist.inserted, v, t)
    BY DEF AccountInv, Account
  <2> HIDE DEF v, t, w, u
  <2>8. Paid(hist.inserted + n, w, u)
    <3>1. w <= v + n /\ u <= t + n
      BY <2>1, <2>5, <2>6
    <3> QED BY ONLY <1>1, <2>1, <2>5, <2>6, <2>7, <3>1, PaidOn
  <2> QED BY <2>2, <2>8 DEF Account, w, u
<1> QED BY <1>3, <1>4 DEF Calls

LEMMA TakeAccount == ASSUME AccountInv, RemoveCredit \/ ClearWrite, TypeInv' PROVE Account'
<1>1. nvram \in Nvram /\ op.units \in Nat /\ hist \in Hist /\ hist.taken \in Nat
  BY AccountTypes DEF AccountInv, TypeInv
<1>2. Owed(pc, op) \in Nat /\ OwedTotal(pc, op) \in Nat /\ nvram' \in Nvram /\ Untouched(nvram)
  BY <1>1, OwedNat DEF TypeInv, TypeOK, Nvram, Bytes, Untouched
<1>3. nvram.units \in Nat /\ nvram.total_units \in Nat /\ nvram.credits \in Nat
  BY <1>1, WorthOf
<1>4. CASE ClearWrite
  <2>1. /\ nvram'.units <= nvram.units /\ nvram'.credits <= nvram.credits
        /\ nvram'.total_units <= nvram.total_units
        /\ op' = op /\ hist' = hist /\ pc' \in {"clear", "update"}
    BY <1>1, <1>3, <1>4 DEF ClearWrite, Write, Nvram
  <2>2. Owed(pc', op) = 0 /\ OwedTotal(pc', op) = 0
    BY <2>1 DEF Owed, OwedTotal, Uncounted
  <2> QED BY <1>1, <1>2, <2>1, <2>2, TakesAway
<1>5. CASE RemoveCredit /\ ~ nvram.credits > 0
  <2>1. nvram' = nvram /\ op' = op /\ hist' = hist /\ pc' = "done"
    BY <1>5 DEF RemoveCredit, Go, Write
  <2>2. Owed(pc', op) = 0 /\ OwedTotal(pc', op) = 0
    BY <2>1 DEF Owed, OwedTotal, Uncounted
  <2> QED BY <1>1, <1>2, <2>1, <2>2, UntouchedAccount
<1>6. CASE RemoveCredit /\ nvram.credits > 0
  <2>1. /\ nvram'.units = nvram.units /\ nvram'.total_units = nvram.total_units
        /\ nvram'.credits = nvram.credits - 1 /\ op' = op /\ pc = "remove" /\ pc' = "update"
        /\ hist'.taken = hist.taken + 1 /\ hist'.inserted = hist.inserted
    BY <1>1, <1>6 DEF RemoveCredit, Nvram, Hist
  <2>2. /\ Owed(pc, op) = 0 /\ OwedTotal(pc, op) = 0
        /\ Owed(pc', op') = 0 /\ OwedTotal(pc', op') = 0
    BY <2>1 DEF Owed, OwedTotal, Uncounted
  <2>3. (nvram.credits - 1) * UnitsPerCredit = nvram.credits * UnitsPerCredit - UnitsPerCredit
    BY <1>3, <1>6, Prices, Products
  <2>4. /\ (hist.taken + 1) * UnitsPerCredit = hist.taken * UnitsPerCredit + UnitsPerCredit
        /\ hist.taken * UnitsPerCredit \in Nat
    BY <1>1, Prices, Products
  <2>5. Worth(nvram') = Worth(nvram) - UnitsPerCredit /\ Worth(nvram) \in Nat
    BY <1>1, <1>2, <2>1, <2>3, WorthOf, WorthNat, Prices
  <2>6. Value(nvram', hist'.taken, pc', op') <= Value(nvram, hist.taken, pc, op)
    BY <2>1, <2>2, <2>4, <2>5, Prices DEF Value
  <2>7. Counted(nvram', pc', op') <= Counted(nvram, pc, op)
    BY <1>3, <2>1, <2>2 DEF Counted
  <2>8. hist'.taken \in Nat
    BY <1>1, <2>1
  <2> QED BY <1>1, <1>2, <2>1, <2>6, <2>7, <2>8, NothingAdded DEF Account
<1> QED BY <1>4, <1>5, <1>6
(* add_units: each write of a sum takes what it adds from what is owed.    *)
LEMMA Fields ==
  ASSUME AccountInv, nvram' \in Nvram, UNCHANGED <<op, hist>>,
         nvram'.units + nvram'.credits * UnitsPerCredit + Owed(pc', op)
           <= nvram.units + nvram.credits * UnitsPerCredit + Owed(pc, op),
         nvram'.total_units + OwedTotal(pc', op) <= nvram.total_units + OwedTotal(pc, op)
  PROVE  Account'
<1>1. nvram \in Nvram /\ op.units \in Nat /\ hist.taken \in Nat
  BY AccountTypes DEF AccountInv
<1>2. hist.taken * UnitsPerCredit \in Nat /\ Owed(pc, op) \in Nat /\ Owed(pc', op) \in Nat
  BY <1>1, OwedNat, Prices, Products
<1>3. Value(nvram', hist.taken, pc', op) <= Value(nvram, hist.taken, pc, op)
  BY <1>1, <1>2, WorthOf DEF Value
<1>4. Counted(nvram', pc', op) <= Counted(nvram, pc, op)
  BY DEF Counted
<1> QED BY <1>1, <1>3, <1>4, NothingAdded DEF Account

LEMMA AddUnitsAccount ==
  ASSUME AccountInv, AddUnitsWrite, ~ LastUpdate, ~ CreditUpdate, TypeInv'
  PROVE  Account' /\ (pc' \in {"total", "bonus", "award"} => UnitsPerBonus > 0)
<1>1. /\ nvram \in Nvram /\ op.units \in Nat /\ nvram' \in Nvram
      /\ {UnitsPerCredit, UnitsPerBonus, BonusCredits, Award} \subseteq Nat
  BY AccountTypes, Prices DEF AccountInv, TypeInv, TypeOK, Nvram, Bytes
<1>2. /\ nvram.units \in Nat /\ nvram.total_units \in Nat /\ nvram.credits \in Nat
      /\ nvram.credits * UnitsPerCredit \in Nat
  BY <1>1, WorthOf
<1>3. /\ Byte(nvram.units + op.units) <= nvram.units + op.units
      /\ Byte(nvram.total_units + op.units) <= nvram.total_units + op.units
  BY <1>1, <1>2, ByteLess
<1>4. CASE AddUnits
  <2>1. UNCHANGED <<op, hist>> /\ pc = "units"
    BY <1>4 DEF AddUnits, Go, Write
  <2>2. Owed(pc, op) = op.units /\ OwedTotal(pc, op) = op.units
    BY <2>1 DEF Owed, OwedTotal, Uncounted
  <2>3. CASE nvram' = nvram /\ pc' = "done"
    <3>1. Owed(pc', op) = 0 /\ OwedTotal(pc', op) = 0
      BY <2>3 DEF Owed, OwedTotal, Uncounted
    <3> QED BY <1>1, <1>2, <2>1, <2>2, <2>3, <3>1, Fields
  <2>4. CASE /\ nvram' = [nvram EXCEPT !.units = Byte(nvram.units + op.units)]
             /\ pc' = IF UnitsPerBonus > 0 THEN "total" ELSE "convert"
    <3>1. Owed(pc', op) = 0 /\ OwedTotal(pc', op) <= op.units
      BY <1>1, <2>4 DEF Owed, OwedTotal, Uncounted
    <3>2. /\ nvram'.units = Byte(nvram.units + op.units) /\ nvram'.credits = nvram.credits
          /\ nvram'.total_units = nvram.total_units
      BY <1>1, <2>4 DEF Nvram
    <3>3. Byte(nvram.units + op.units) \in Nat /\ OwedTotal(pc', op) \in Nat
      BY <1>1, <1>2, ByteLess, OwedNat
    <3>4. Account'
      BY <1>1, <1>2, <1>3, <2>1, <2>2, <3>1, <3>2, <3>3, Fields
    <3> QED BY <2>4, <3>4
  <2> QED BY <1>4, <2>3, <2>4 DEF AddUnits, Go, Write
<1>5. CASE AddTotalUnits
  <2>1. /\ UNCHANGED <<op, hist>> /\ pc = "total" /\ pc' = "bonus"
        /\ nvram' = [nvram EXCEPT !.total_units = Byte(nvram.total_units + op.units)]
    BY <1>5 DEF AddTotalUnits, Write
  <2>2. Owed(pc, op) = 0 /\ OwedTotal(pc, op) = op.units /\ Owed(pc', op) = 0 /\ OwedTotal(pc', op) = 0
    BY <2>1 DEF Owed, OwedTotal, Uncounted
  <2>3. /\ nvram'.units = nvram.units /\ nvram'.credits = nvram.credits
        /\ nvram'.total_units = Byte(nvram.total_units + op.units)
    BY <1>1, <2>1 DEF Nvram
  <2>4. Byte(nvram.total_units + op.units) \in Nat
    BY <1>1, <1>2, ByteLess
  <2> QED BY <1>1, <1>2, <1>3, <2>1, <2>2, <2>3, <2>4, Fields DEF AccountInv
<1>6. CASE Bonus /\ ~ nvram.total_units >= UnitsPerBonus
  <2>1. UNCHANGED <<op, hist>> /\ pc = "bonus" /\ pc' = "convert" /\ nvram' = nvram
    BY <1>6 DEF Bonus, Go, Write
  <2>2. Owed(pc, op) = 0 /\ OwedTotal(pc, op) = 0 /\ Owed(pc', op) = 0 /\ OwedTotal(pc', op) = 0
    BY <2>1 DEF Owed, OwedTotal, Uncounted
  <2> QED BY <1>1, <1>2, <2>1, <2>2, Fields
<1>7. CASE Bonus /\ nvram.total_units >= UnitsPerBonus
  <2> DEFINE i == hist.inserted
             v == Value(nvram, hist.taken, pc, op)
             t == Counted(nvram, pc, op)
  <2>1. /\ UNCHANGED <<op, hist>> /\ pc = "bonus" /\ pc' = "award"
        /\ nvram' = [nvram EXCEPT !.total_units = nvram.total_units - UnitsPerBonus]
    BY <1>7 DEF Bonus, Write
  <2>2. Owed(pc, op) = 0 /\ OwedTotal(pc, op) = 0 /\ Owed(pc', op) = Award /\ OwedTotal(pc', op) = 0
    BY <2>1 DEF Owed, OwedTotal, Uncounted
  <2>3. /\ Worth(nvram') = Worth(nvram)
        /\ nvram'.total_units = nvram.total_units - UnitsPerBonus
    BY <1>1, <2>1 DEF Nvram, Worth
  <2>4. i \in Nat /\ v \in Nat /\ t \in Nat /\ hist.taken \in Nat /\ Paid(i, v, t)
    BY AccountTypes DEF AccountInv, Account
  <2>5. hist.taken * UnitsPerCredit \in Nat /\ Worth(nvram) \in Nat
    BY <1>1, <2>4, Products, WorthNat
  <2>6. Value(nvram', hist'.taken, pc', op') = v + Award
    BY <1>1, <2>1, <2>2, <2>3, <2>5 DEF Value
  <2>7. Counted(nvram', pc', op') = t - UnitsPerBonus /\ t = nvram.total_units
    BY <1>1, <1>2, <2>1, <2>2, <2>3 DEF Counted
  <2>8. UnitsPerBonus > 0
    BY <2>1 DEF AccountInv
  <2> HIDE DEF v, t
  <2>9. Paid(i, v + Award, t - UnitsPerBonus)
    BY <1>7, <2>4, <2>7, <2>8, PaidBonus
  <2> QED BY <2>1, <2>6, <2>7, <2>8, <2>9 DEF Account
<1>8. CASE BonusCredit
  <2>1. /\ UNCHANGED <<op, hist>> /\ pc = "award" /\ pc' = "bonus"
        /\ nvram' = [nvram EXCEPT !.credits = Byte(nvram.credits + BonusCredits)]
    BY <1>8 DEF BonusCredit, Write
  <2>2. Owed(pc, op) = Award /\ OwedTotal(pc, op) = 0 /\ Owed(pc', op) = 0 /\ OwedTotal(pc', op) = 0
    BY <2>1 DEF Owed, OwedTotal, Uncounted
  <2> DEFINE c == Byte(nvram.credits + BonusCredits)
  <2>3. nvram'.units = nvram.units /\ nvram'.credits = c /\ nvram'.total_units = nvram.total_units
    BY <1>1, <2>1 DEF Nvram
  <2>4. c \in Nat /\ c <= nvram.credits + BonusCredits /\ nvram.credits + BonusCredits \in Nat
    BY <1>1, <1>2, ByteLess
  <2> HIDE DEF c
  <2>5. c * UnitsPerCredit <= (nvram.credits + BonusCredits) * UnitsPerCredit
    BY <1>1, <2>4, Products
  <2>6. (nvram.credits + BonusCredits) * UnitsPerCredit = nvram.credits * UnitsPerCredit + Award
    BY <1>1, <1>2, Products DEF Award
  <2>7. c * UnitsPerCredit \in Nat
    BY <1>1, <2>4, Products
  <2> QED BY <1>1, <1>2, <2>1, <2>2, <2>3, <2>5, <2>6, <2>7, Fields DEF AccountInv
<1>9. CASE Convert
  <2>1. UNCHANGED <<op, hist>> /\ pc = "convert" /\ pc' \in {"credit", "last"}
    BY <1>9 DEF Convert, Go, Write
  <2>2. /\ Owed(pc, op) = 0 /\ OwedTotal(pc, op) = 0 /\ OwedTotal(pc', op) = 0
        /\ pc' = "credit" => Owed(pc', op) = UnitsPerCredit
        /\ pc' = "last" => Owed(pc', op) = 0
    BY <2>1 DEF Owed, OwedTotal, Uncounted
  <2>3. /\ pc' = "last" => nvram' = nvram
        /\ pc' = "credit" => nvram' = [nvram EXCEPT !.units = nvram.units - UnitsPerCredit]
    BY <1>9 DEF Convert, Go, Write
  <2>4. /\ nvram'.credits = nvram.credits /\ nvram'.total_units = nvram.total_units
        /\ pc' = "last" => nvram'.units = nvram.units
        /\ pc' = "credit" => nvram'.units = nvram.units - UnitsPerCredit
    BY <1>1, <2>1, <2>3 DEF Nvram
  <2> QED BY <1>1, <1>2, <2>1, <2>2, <2>4, Fields
<1>10. CASE AddCredit
  <2>1. UNCHANGED <<op, hist>> /\ pc = "credit" /\ pc' \in {"convert", "credit_update"}
    BY <1>10 DEF AddCredit, Go, Write
  <2>2. /\ Owed(pc, op) = UnitsPerCredit /\ OwedTotal(pc, op) = 0
        /\ Owed(pc', op) = 0 /\ OwedTotal(pc', op) = 0
    BY <2>1 DEF Owed, OwedTotal, Uncounted
  <2>3. CASE nvram' = nvram
    BY <1>1, <1>2, <2>1, <2>2, <2>3, Fields
  <2>4. CASE nvram' = [nvram EXCEPT !.credits = Byte(nvram.credits + 1)]
    <3> DEFINE c == Byte(nvram.credits + 1)
    <3>1. nvram'.units = nvram.units /\ nvram'.credits = c /\ nvram'.total_units = nvram.total_units
      BY <1>1, <2>4 DEF Nvram
    <3>2. c \in Nat /\ c <= nvram.credits + 1 /\ nvram.credits + 1 \in Nat
      BY <1>2, ByteLess
    <3> HIDE DEF c
    <3>3. c * UnitsPerCredit <= (nvram.credits + 1) * UnitsPerCredit /\ c * UnitsPerCredit \in Nat
      BY <1>1, <3>2, Products
    <3>4. (nvram.credits + 1) * UnitsPerCredit = nvram.credits * UnitsPerCredit + UnitsPerCredit
      BY <1>1, <1>2, Products
    <3> QED BY <1>1, <1>2, <2>1, <2>2, <3>1, <3>3, <3>4, Fields
  <2> QED BY <1>10, <2>1, <2>3, <2>4 DEF AddCredit, Go, Write
<1> QED BY <1>4, <1>5, <1>6, <1>7, <1>8, <1>9, <1>10 DEF AddUnitsWrite, Convert, AddCredit, Go, Write

LEMMA AccountStep == ASSUME AccountInv, Next PROVE AccountInv'
<1>1. TypeInv'
  BY WritesTypes, OtherTypes DEF AccountInv, Next
<1>2. pc' = "register" => op'.is = "boot"
  BY DEF AccountInv, Next, Calls, Writes, Power, HasCredits, TakeCredit, InsertCoin, Clear, Begin,
         Check, ResetWrite, UpdateDone, Done, RemoveCredit, ClearWrite, AddUnitsWrite, AddUnits,
         AddTotalUnits, Bonus, BonusCredit, Convert, AddCredit, CreditUpdate, LastUpdate,
         FileRegisterPart, FileRegister, PowerLoss, PowerUp, Go, Write, Finished, AfterCheck, Call
<1>3. CASE AddUnitsWrite /\ ~ LastUpdate /\ ~ CreditUpdate
  BY <1>1, <1>2, <1>3, AddUnitsAccount DEF AccountInv
<1>4. CASE ~ (AddUnitsWrite /\ ~ LastUpdate /\ ~ CreditUpdate)
  <2>1. Account'
    BY <1>1, <1>4, ResetAccount, EndsAccount, CallsAccount, TakeAccount
    DEF Next, Writes, Power, AddUnitsWrite
  <2>2. pc' \notin {"total", "bonus", "award"}
    BY <1>4 DEF Next, Calls, Writes, Power, HasCredits, TakeCredit, InsertCoin, Clear, Begin,
         Check, ResetWrite, UpdateDone, Done, RemoveCredit, ClearWrite, AddUnitsWrite,
         CreditUpdate, LastUpdate, FileRegisterPart, FileRegister, PowerLoss, PowerUp, Go, Write,
         Finished, AfterCheck
  <2> QED BY <1>1, <1>2, <2>1, <2>2 DEF AccountInv
<1> QED BY <1>3, <1>4

LEMMA AccountInvariance == Spec => []AccountInv
<1>1. Init => AccountInv
  <2> SUFFICES ASSUME Init PROVE AccountInv
    OBVIOUS
  <2>1. TypeInv /\ pc = "off" /\ hist.inserted = 0 /\ hist.taken = 0
    BY InitInv DEF CoinInv, TypeInv, Init
  <2>2. Value(nvram, hist.taken, pc, op) = 0 /\ Counted(nvram, pc, op) = 0
    BY <2>1, CoinAssumption DEF Init, Value, Counted, Worth, Owed, OwedTotal, Uncounted
  <2>3. 0 * UnitsPerBonus = 0 /\ 0 * Award = 0
    BY Prices
  <2> QED BY <2>1, <2>2, <2>3 DEF AccountInv, Account, Paid
<1>2. AccountInv /\ [Next]_vars => AccountInv'
  <2>1. CASE UNCHANGED vars
    BY <2>1 DEF vars, AccountInv, TypeInv, TypeOK, Account, Value, Counted, Worth
  <2> QED BY <2>1, AccountStep
<1> QED BY <1>1, <1>2, PTL DEF Spec

(* No sequence of coins, looks and losses of power, at whatever write and  *)
(* with whatever lock, makes credits or units that were not paid for, for  *)
(* every price and bonus.                                                  *)
THEOREM NoFreeCredits == Spec => []NothingForNothing
<1>1. AccountInv => NothingForNothing
  <2> SUFFICES ASSUME AccountInv PROVE NothingForNothing
    OBVIOUS
  <2>1. /\ hist.inserted \in Nat /\ hist.taken \in Nat /\ nvram \in Nvram /\ op.units \in Nat
        /\ Value(nvram, hist.taken, pc, op) \in Nat /\ Counted(nvram, pc, op) \in Nat
    BY AccountTypes DEF AccountInv
  <2>2. Value(nvram, hist.taken, pc, op) <= hist.inserted + Bonuses(hist.inserted) * UnitsPerCredit
    BY <2>1, PaidFor DEF AccountInv, Account
  <2>3. Owed(pc, op) \in Nat /\ Worth(nvram) \in Nat /\ hist.taken * UnitsPerCredit \in Nat
    BY <2>1, OwedNat, WorthNat, Prices, Products
  <2>4. Worth(nvram) + hist.taken * UnitsPerCredit <= Value(nvram, hist.taken, pc, op)
    BY <2>3 DEF Value
  <2>5. Bonuses(hist.inserted) * UnitsPerCredit \in Int
    <3>1. UnitsPerBonus > 0 => hist.inserted \div UnitsPerBonus \in Int
      BY <2>1, Prices
    <3>2. Bonuses(hist.inserted) \in Int
      BY <3>1, Prices DEF Bonuses
    <3> QED BY <3>2, Prices
  <2> QED BY <2>1, <2>2, <2>3, <2>4, <2>5 DEF NothingForNothing
<1> QED BY <1>1, AccountInvariance, PTL

-----------------------------------------------------------------------------
(* Exactly what was paid for.  From the check before a coin is added to    *)
(* the last update, what is in the memory, what is owed, and the bonuses   *)
(* of the units that still count towards one are the coin and what there   *)
(* was before, unless the credits have come to their maximum.              *)
Full   == nvram.credits >= MaxCredits
Coming == Worth(nvram) + Owed(pc, op) + UnitsPerCredit * Bonuses(Counted(nvram, pc, op))
Due    == hist.before.worth + op.units
          + UnitsPerCredit * Bonuses(hist.before.total_units + op.units)

Adding     == pc \in {"units", "total", "bonus", "award", "convert", "credit", "credit_update", "last"}
Converting == pc \in {"convert", "credit", "credit_update", "last"}

ExactInv ==
  /\ Adding \/ (pc = "check" /\ op.is = "coin") => Full \/ Coming = Due
  /\ Converting => Bonuses(nvram.total_units) = 0
  /\ pc \in {"total", "bonus", "award"} => UnitsPerBonus > 0

(* The sums of add_units fit into their bytes.                             *)
Fits ==
  /\ pc = "units"  => nvram.units + op.units < ByteSize
  /\ pc = "total"  => nvram.total_units + op.units < ByteSize
  /\ pc = "award"  => nvram.credits + BonusCredits < ByteSize
  /\ pc = "credit" => nvram.credits + 1 < ByteSize

LEMMA Quotient ==
  ASSUME NEW n \in Nat \ {0}, NEW t \in Nat, NEW q \in Nat, q * n <= t, t < q * n + n
  PROVE  t \div n = q
<1> DEFINE r == t \div n
<1>1. r \in Nat /\ r * n <= t /\ t < r * n + n
  <2>1. \A m \in Nat \ {0} : (t \div m) \in Nat /\ (t \div m) * m <= t /\ t < (t \div m) * m + m
    OBVIOUS
  <2> QED BY <2>1
<1> HIDE DEF r
<1>2. \A x, y \in Nat : x < y => x * n + n <= y * n
  <2>1. ASSUME NEW x \in Nat, NEW y \in Nat, x < y PROVE x * n + n <= y * n
    <3>1. (x + 1) * n <= y * n
      BY <2>1, Products
    <3>2. (x + 1) * n = x * n + n
      BY Products
    <3> QED BY <3>1, <3>2
  <2> QED BY <2>1
<1>3. q * n \in Nat /\ r * n \in Nat /\ n \in Nat
  BY <1>1, Products
<1>4. ~ r < q /\ ~ q < r
  BY <1>1, <1>2, <1>3
<1> QED BY <1>1, <1>4 DEF r

(* A bonus taken off the sum is one bonus less to come.                    *)
LEMMA BonusOff ==
  ASSUME NEW t \in Nat
  PROVE  /\ Bonuses(t) \in Nat
         /\ UnitsPerBonus = 0 \/ t < UnitsPerBonus => Bonuses(t) = 0
         /\ UnitsPerBonus > 0 /\ t >= UnitsPerBonus
            => Bonuses(t) = BonusCredits + Bonuses(t - UnitsPerBonus)
<1> DEFINE n == UnitsPerBonus
<1>1. n \in Nat /\ BonusCredits \in Nat
  BY Prices
<1>2. CASE n = 0
  BY <1>2 DEF Bonuses
<1>3. CASE n > 0
  <2>0. \A u \in Nat : /\ (u \div n) \in Nat /\ (u \div n) * n <= u /\ u < (u \div n) * n + n
                       /\ Bonuses(u) = BonusCredits * (u \div n)
    <3>1. \A u \in Nat : \A m \in Nat \ {0} :
            (u \div m) \in Nat /\ (u \div m) * m <= u /\ u < (u \div m) * m + m
      OBVIOUS
    <3>2. n \in Nat \ {0}
      BY <1>1, <1>3
    <3>3. \A u \in Nat : Bonuses(u) = BonusCredits * (u \div n)
      BY <1>3 DEF Bonuses
    <3> QED BY <3>1, <3>2, <3>3
  <2>1. Bonuses(t) \in Nat
    BY <1>1, <2>0, Products
  <2>2. t < n => Bonuses(t) = 0
    <3>1. t < n => t \div n = 0
      <4>1. 0 * n = 0 /\ n \in Nat \ {0} /\ 0 \in Nat
        BY <1>1, <1>3
      <4>2. t < n => 0 * n <= t /\ t < 0 * n + n
        BY <1>1, <4>1
      <4> QED BY <4>1, <4>2, Quotient
    <3>2. BonusCredits * 0 = 0
      BY <1>1
    <3> QED BY <2>0, <3>1, <3>2
  <2>3. ASSUME t >= n PROVE Bonuses(t) = BonusCredits + Bonuses(t - n)
    <3> DEFINE u == t - n
               q == u \div n
    <3>1. u \in Nat /\ t = u + n
      BY <1>1, <2>3
    <3>2. q \in Nat /\ q * n <= u /\ u < q * n + n /\ Bonuses(u) = BonusCredits * q
      BY <2>0, <3>1
    <3>3. q * n \in Nat /\ (q + 1) * n = q * n + n
      BY <1>1, <3>2, Products
    <3> HIDE DEF u, q
    <3>4. (q + 1) * n <= t /\ t < (q + 1) * n + n /\ q + 1 \in Nat /\ n \in Nat \ {0}
      BY <1>1, <1>3, <3>1, <3>2, <3>3
    <3>5. t \div n = q + 1
      BY <3>4, Quotient
    <3>6. Bonuses(t) = BonusCredits * (q + 1)
      BY <2>0, <3>5
    <3>7. BonusCredits * (q + 1) = BonusCredits + BonusCredits * q
      <4>1. \A x, y \in Nat : x * (y + 1) = x + x * y
        OBVIOUS
      <4> QED BY <1>1, <3>2, <4>1
    <3> QED BY <3>2, <3>6, <3>7 DEF u
  <2> QED BY <1>3, <2>1, <2>2, <2>3
<1> QED BY <1>1, <1>2, <1>3

(* What is owed at each write of add_units.                                *)
LEMMA Owing ==
  /\ pc = "units" => Owed(pc, op) = op.units /\ OwedTotal(pc, op) = op.units
  /\ pc = "total" => Owed(pc, op) = 0 /\ OwedTotal(pc, op) = op.units
  /\ pc = "award" => Owed(pc, op) = Award /\ OwedTotal(pc, op) = 0
  /\ pc = "credit" => Owed(pc, op) = UnitsPerCredit /\ OwedTotal(pc, op) = 0
  /\ pc \in {"bonus", "convert", "credit_update", "last"} =>
       Owed(pc, op) = 0 /\ OwedTotal(pc, op) = 0
  BY DEF Owed, OwedTotal, Uncounted

LEMMA ExactFacts ==
  ASSUME TypeInv
  PROVE  LET x == nvram
         IN  /\ x \in Nvram /\ op.units \in Nat
             /\ x.units \in Nat /\ x.total_units \in Nat /\ x.credits \in Nat
             /\ x.credits * UnitsPerCredit \in Nat
             /\ Worth(x) = x.units + x.credits * UnitsPerCredit
             /\ UnitsPerCredit \in Nat /\ UnitsPerBonus \in Nat /\ BonusCredits \in Nat
             /\ Award \in Nat /\ MaxCredits \in Nat /\ ByteSize \in Nat
             /\ Owed(pc, op) \in Nat /\ OwedTotal(pc, op) \in Nat
             /\ Counted(x, pc, op) = x.total_units + OwedTotal(pc, op)
<1>1. nvram \in Nvram /\ op.units \in Nat
  BY AccountTypes
<1>2. Owed(pc, op) \in Nat /\ OwedTotal(pc, op) \in Nat
  BY <1>1, OwedNat
<1>3. /\ UnitsPerCredit \in Nat /\ UnitsPerBonus \in Nat /\ BonusCredits \in Nat
      /\ Award \in Nat /\ MaxCredits \in Nat /\ ByteSize \in Nat
  BY Prices, CoinAssumption
<1>4. Counted(nvram, pc, op) = nvram.total_units + OwedTotal(pc, op)
  BY DEF Counted
<1> QED BY <1>1, <1>2, <1>3, <1>4, WorthOf

(* A write of add_units that takes what it adds from what is owed.         *)
LEMMA ExactFrame ==
  ASSUME ExactInv, Adding, UNCHANGED <<op, hist>>,
         nvram'.credits >= nvram.credits, nvram'.credits \in Nat, nvram.credits \in Nat,
         ~ Full => Coming' = Coming
  PROVE  Full' \/ Coming' = Due'
<1>1. Due' = Due
  BY DEF Due
<1>2. Full => Full'
  BY CoinAssumption DEF Full
<1> QED BY <1>1, <1>2 DEF ExactInv

LEMMA AddUnitsExact ==
  ASSUME TypeInv, TypeInv', ExactInv, Fits, AddUnitsWrite, ~ LastUpdate
  PROVE  ExactInv'
<1> DEFINE x == nvram
           y == nvram'
           n == op.units
           B(t) == UnitsPerCredit * Bonuses(t)
<1>1. /\ x \in Nvram /\ n \in Nat /\ y \in Nvram
      /\ x.units \in Nat /\ x.total_units \in Nat /\ x.credits \in Nat
      /\ x.credits * UnitsPerCredit \in Nat
      /\ Worth(x) = x.units + x.credits * UnitsPerCredit
      /\ UnitsPerCredit \in Nat /\ UnitsPerBonus \in Nat /\ BonusCredits \in Nat
      /\ Award \in Nat /\ MaxCredits \in Nat /\ ByteSize \in Nat
  <2>1. y \in Nvram
    BY DEF TypeInv, TypeOK, Nvram, Bytes
  <2> QED BY <2>1, ExactFacts
<1>2. /\ Worth(y) = y.units + y.credits * UnitsPerCredit /\ y.credits \in Nat /\ y.units \in Nat
      /\ y.total_units \in Nat
  BY <1>1, WorthOf
<1>3. Coming = Worth(x) + Owed(pc, op) + B(x.total_units + OwedTotal(pc, op))
  BY DEF Coming, Counted
<1>4. Coming' = Worth(y) + Owed(pc', op') + B(y.total_units + OwedTotal(pc', op'))
  BY DEF Coming, Counted
<1>5. Adding /\ UNCHANGED <<op, hist>>
  BY DEF Adding, AddUnitsWrite, AddUnits, AddTotalUnits, Bonus, BonusCredit, Convert, AddCredit,
         CreditUpdate, LastUpdate, Go, Write
<1>6. \A t \in Nat : B(t) \in Nat
  BY <1>1, BonusOff, Products
<1>7. \A m \in Nat : m < ByteSize => Byte(m) = m
  BY <1>1 DEF Byte
<1>8. CASE AddUnits
  <2>1. pc = "units" /\ Owed(pc, op) = n /\ OwedTotal(pc, op) = n
    BY <1>8, Owing DEF AddUnits
  <2>2. CASE Full
    <3>1. pc' = "done"
      BY <1>8, <2>2 DEF AddUnits, Full, Go, Write
    <3> QED BY <3>1 DEF ExactInv, Adding, Converting
  <2>3. CASE ~ Full
    <3>1. y = [x EXCEPT !.units = Byte(x.units + n)] /\ pc' = IF UnitsPerBonus > 0 THEN "total" ELSE "convert"
      BY <1>8, <2>3 DEF AddUnits, Full, Go, Write
    <3>2. Byte(x.units + n) = x.units + n
      BY <1>1, <1>7, <2>1 DEF Fits
    <3>3. y.units = x.units + n /\ y.credits = x.credits /\ y.total_units = x.total_units
      BY <1>1, <3>1, <3>2 DEF Nvram
    <3>4. Worth(y) = Worth(x) + n
      BY <1>1, <1>2, <3>3
    <3>5. CASE UnitsPerBonus > 0
      <4>1. pc' = "total" /\ Owed(pc', op') = 0 /\ OwedTotal(pc', op') = n
        BY <1>5, <3>1, <3>5 DEF Owed, OwedTotal, Uncounted
      <4>2. Coming' = Coming
        BY <1>1, <1>3, <1>4, <1>6, <2>1, <3>3, <3>4, <4>1
      <4> QED BY <1>1, <1>5, <3>3, <3>5, <4>1, <4>2, ExactFrame DEF ExactInv, Converting
    <3>6. CASE UnitsPerBonus = 0
      <4>1. pc' = "convert" /\ Owed(pc', op') = 0 /\ OwedTotal(pc', op') = 0
        BY <1>1, <1>5, <3>1, <3>6 DEF Owed, OwedTotal, Uncounted
      <4>2. \A t \in Nat : Bonuses(t) = 0 /\ B(t) = 0
        BY <1>1, <3>6, BonusOff
      <4>3. Coming' = Coming
        <5>1. B(y.total_units + 0) = 0 /\ B(x.total_units + n) = 0
          BY <1>1, <1>2, <4>2
        <5> QED BY <1>1, <1>3, <1>4, <2>1, <3>4, <4>1, <5>1
      <4> QED BY <1>1, <1>2, <1>5, <3>3, <4>1, <4>2, <4>3, ExactFrame DEF ExactInv, Converting
    <3> QED BY <1>1, <3>5, <3>6
  <2> QED BY <2>2, <2>3
<1>9. CASE AddTotalUnits
  <2>1. pc = "total" /\ Owed(pc, op) = 0 /\ OwedTotal(pc, op) = n /\ UnitsPerBonus > 0
    BY <1>9, Owing DEF AddTotalUnits, ExactInv
  <2>2. y = [x EXCEPT !.total_units = Byte(x.total_units + n)] /\ pc' = "bonus"
    BY <1>9 DEF AddTotalUnits, Write
  <2>3. Byte(x.total_units + n) = x.total_units + n
    BY <1>1, <1>7, <2>1 DEF Fits
  <2>4. y.units = x.units /\ y.credits = x.credits /\ y.total_units = x.total_units + n
    BY <1>1, <2>2, <2>3 DEF Nvram
  <2>5. Owed(pc', op') = 0 /\ OwedTotal(pc', op') = 0
    BY <2>2 DEF Owed, OwedTotal, Uncounted
  <2>6. Coming' = Coming
    <3>1. Worth(y) = Worth(x) /\ y.total_units + 0 = x.total_units + n
      BY <1>1, <1>2, <2>4
    <3> QED BY <1>3, <1>4, <2>1, <2>5, <3>1
  <2> QED BY <1>1, <1>5, <2>1, <2>2, <2>4, <2>6, ExactFrame DEF ExactInv, Converting
<1>10. CASE Bonus
  <2>1. pc = "bonus" /\ Owed(pc, op) = 0 /\ OwedTotal(pc, op) = 0 /\ UnitsPerBonus > 0
    BY <1>10, Owing DEF Bonus, ExactInv
  <2>2. CASE x.total_units >= UnitsPerBonus
    <3>1. y = [x EXCEPT !.total_units = x.total_units - UnitsPerBonus] /\ pc' = "award"
      BY <1>10, <2>2 DEF Bonus, Write
    <3>2. y.units = x.units /\ y.credits = x.credits /\ y.total_units = x.total_units - UnitsPerBonus
      BY <1>1, <3>1 DEF Nvram
    <3>3. Owed(pc', op') = Award /\ OwedTotal(pc', op') = 0
      BY <3>1 DEF Owed, OwedTotal, Uncounted
    <3>4. B(x.total_units) = Award + B(y.total_units)
      <4>1. Bonuses(x.total_units) = BonusCredits + Bonuses(y.total_units) /\ Bonuses(y.total_units) \in Nat
        BY <1>1, <1>2, <2>1, <2>2, <3>2, BonusOff
      <4>2. \A p, q, r \in Nat : r * (p + q) = p * r + r * q
        OBVIOUS
      <4> QED BY <1>1, <4>1, <4>2 DEF Award
    <3>5. Coming' = Coming
      <4>1. Worth(y) = Worth(x)
        BY <1>1, <1>2, <3>2
      <4>2. x.total_units + 0 = x.total_units /\ y.total_units + 0 = y.total_units
        BY <1>1, <1>2
      <4>3. B(y.total_units) \in Nat /\ Worth(x) \in Nat
        BY <1>1, <1>2, <1>6
      <4> HIDE DEF B
      <4> QED BY <1>1, <1>3, <1>4, <2>1, <3>3, <3>4, <4>1, <4>2, <4>3
    <3> QED BY <1>1, <1>5, <2>1, <3>1, <3>2, <3>5, ExactFrame DEF ExactInv, Converting
  <2>3. CASE ~ (x.total_units >= UnitsPerBonus)
    <3>1. y = x /\ pc' = "convert"
      BY <1>10, <2>3 DEF Bonus, Go, Write
    <3>2. Owed(pc', op') = 0 /\ OwedTotal(pc', op') = 0
      BY <3>1 DEF Owed, OwedTotal, Uncounted
    <3>3. Coming' = Coming
      BY <1>3, <1>4, <2>1, <3>1, <3>2
    <3>4. Bonuses(x.total_units) = 0
      BY <1>1, <2>3, BonusOff
    <3> QED BY <1>1, <1>5, <3>1, <3>3, <3>4, ExactFrame DEF ExactInv, Converting
  <2> QED BY <2>2, <2>3
<1>11. CASE BonusCredit
  <2>1. pc = "award" /\ Owed(pc, op) = Award /\ OwedTotal(pc, op) = 0 /\ UnitsPerBonus > 0
    BY <1>11, Owing DEF BonusCredit, ExactInv
  <2>2. y = [x EXCEPT !.credits = Byte(x.credits + BonusCredits)] /\ pc' = "bonus"
    BY <1>11 DEF BonusCredit, Write
  <2>3. Byte(x.credits + BonusCredits) = x.credits + BonusCredits
    BY <1>1, <1>7, <2>1 DEF Fits
  <2>4. y.units = x.units /\ y.credits = x.credits + BonusCredits /\ y.total_units = x.total_units
    BY <1>1, <2>2, <2>3 DEF Nvram
  <2>5. Owed(pc', op') = 0 /\ OwedTotal(pc', op') = 0
    BY <2>2 DEF Owed, OwedTotal, Uncounted
  <2>6. Worth(y) = Worth(x) + Award
    <3>1. (x.credits + BonusCredits) * UnitsPerCredit = x.credits * UnitsPerCredit + Award
      BY <1>1, Products DEF Award
    <3> QED BY <1>1, <1>2, <2>4, <3>1
  <2>7. Coming' = Coming
    <3>1. B(x.total_units + 0) \in Nat
      BY <1>1, <1>6
    <3> HIDE DEF B
    <3> QED BY <1>1, <1>3, <1>4, <2>1, <2>4, <2>5, <2>6, <3>1
  <2> QED BY <1>1, <1>5, <2>1, <2>2, <2>4, <2>7, ExactFrame DEF ExactInv, Converting
<1>12. CASE Convert
  <2>1. pc = "convert" /\ Owed(pc, op) = 0 /\ OwedTotal(pc, op) = 0 /\ Bonuses(x.total_units) = 0
    BY <1>12, Owing DEF Convert, ExactInv, Converting
  <2>2. CASE x.units >= UnitsPerCredit
    <3>1. y = [x EXCEPT !.units = x.units - UnitsPerCredit] /\ pc' = "credit"
      BY <1>12, <2>2 DEF Convert, Write
    <3>2. y.units = x.units - UnitsPerCredit /\ y.credits = x.credits /\ y.total_units = x.total_units
      BY <1>1, <3>1 DEF Nvram
    <3>3. Owed(pc', op') = UnitsPerCredit /\ OwedTotal(pc', op') = 0
      BY <3>1 DEF Owed, OwedTotal, Uncounted
    <3>4. Coming' = Coming
      <4>1. B(x.total_units + 0) \in Nat
        BY <1>1, <1>6
      <4> HIDE DEF B
      <4> QED BY <1>1, <1>2, <1>3, <1>4, <2>1, <3>2, <3>3, <4>1
    <3> QED BY <1>1, <1>5, <2>1, <3>1, <3>2, <3>4, ExactFrame DEF ExactInv, Converting
  <2>3. CASE ~ (x.units >= UnitsPerCredit)
    <3>1. y = x /\ pc' = "last"
      BY <1>12, <2>3 DEF Convert, Go, Write
    <3>2. Owed(pc', op') = 0 /\ OwedTotal(pc', op') = 0
      BY <3>1 DEF Owed, OwedTotal, Uncounted
    <3>3. Coming' = Coming
      BY <1>3, <1>4, <2>1, <3>1, <3>2
    <3> QED BY <1>1, <1>5, <2>1, <3>1, <3>3, ExactFrame DEF ExactInv, Converting
  <2> QED BY <2>2, <2>3
<1>13. CASE AddCredit
  <2>1. /\ pc = "credit" /\ Owed(pc, op) = UnitsPerCredit /\ OwedTotal(pc, op) = 0
        /\ Bonuses(x.total_units) = 0
    BY <1>13, Owing DEF AddCredit, ExactInv, Converting
  <2>2. CASE Full
    <3>1. y = x /\ pc' = "convert"
      BY <1>13, <2>2 DEF AddCredit, Full, Go, Write
    <3> QED BY <1>1, <1>5, <2>1, <2>2, <3>1, ExactFrame DEF ExactInv, Converting
  <2>3. CASE ~ Full
    <3>1. y = [x EXCEPT !.credits = Byte(x.credits + 1)] /\ pc' = "credit_update"
      BY <1>13, <2>3 DEF AddCredit, Full, Go, Write
    <3>2. Byte(x.credits + 1) = x.credits + 1
      BY <1>1, <1>7, <2>1 DEF Fits
    <3>3. y.units = x.units /\ y.credits = x.credits + 1 /\ y.total_units = x.total_units
      BY <1>1, <3>1, <3>2 DEF Nvram
    <3>4. Owed(pc', op') = 0 /\ OwedTotal(pc', op') = 0
      BY <3>1 DEF Owed, OwedTotal, Uncounted
    <3>5. Worth(y) = Worth(x) + UnitsPerCredit
      <4>1. (x.credits + 1) * UnitsPerCredit = x.credits * UnitsPerCredit + UnitsPerCredit
        BY <1>1, Products
      <4> QED BY <1>1, <1>2, <3>3, <4>1
    <3>6. Coming' = Coming
      <4>1. B(x.total_units + 0) \in Nat
        BY <1>1, <1>6
      <4> HIDE DEF B
      <4> QED BY <1>1, <1>3, <1>4, <2>1, <3>3, <3>4, <3>5, <4>1
    <3> QED BY <1>1, <1>5, <2>1, <3>1, <3>3, <3>6, ExactFrame DEF ExactInv, Converting
  <2> QED BY <2>2, <2>3
<1>14. CASE CreditUpdate
  <2>1. /\ pc = "credit_update" /\ Owed(pc, op) = 0 /\ OwedTotal(pc, op) = 0
        /\ Bonuses(x.total_units) = 0
    BY <1>14, Owing DEF CreditUpdate, ExactInv, Converting
  <2>2. y = Updated(x) /\ pc' = "convert"
    BY <1>14 DEF CreditUpdate, Write
  <2>3. y.units = x.units /\ y.credits = x.credits /\ y.total_units = x.total_units
    BY <1>1, <2>2 DEF Updated, Nvram
  <2>4. Owed(pc', op') = 0 /\ OwedTotal(pc', op') = 0
    BY <2>2 DEF Owed, OwedTotal, Uncounted
  <2>5. Coming' = Coming
    <3>1. Worth(y) = Worth(x)
      BY <1>1, <1>2, <2>3
    <3> QED BY <1>3, <1>4, <2>1, <2>3, <2>4, <3>1
  <2> QED BY <1>1, <1>5, <2>1, <2>2, <2>3, <2>5, ExactFrame DEF ExactInv, Converting
<1> QED BY <1>8, <1>9, <1>10, <1>11, <1>12, <1>13, <1>14 DEF AddUnitsWrite

(* The other steps come to no coin, or to the check before one.            *)
LEMMA OthersExact ==
  ASSUME CoinInv, TypeInv, ExactInv, Next, ~ AddUnitsWrite \/ LastUpdate
  PROVE  ExactInv'
<1>1. CASE Calls
  <2>1. ASSUME NEW n \in CoinUnits, InsertCoin(n) PROVE ExactInv'
    <3>1. /\ pc' = "check" /\ op' = [is |-> "coin", units |-> n] /\ nvram' = nvram
          /\ hist' = [hist EXCEPT !.inserted = hist.inserted + n,
                        !.before = [worth |-> Worth(nvram), total_units |-> nvram.total_units]]
      BY <2>1 DEF InsertCoin, Begin
    <3>2. hist'.before = [worth |-> Worth(nvram), total_units |-> nvram.total_units]
      BY <3>1 DEF TypeInv, Hist
    <3>3. op'.units = n /\ Owed(pc', op') = n /\ OwedTotal(pc', op') = n
      BY <3>1 DEF Owed, OwedTotal, Uncounted
    <3>4. Coming' = Worth(nvram') + Owed(pc', op')
                    + UnitsPerCredit * Bonuses(nvram'.total_units + OwedTotal(pc', op'))
      BY DEF Coming, Counted
    <3>5. Due' = Worth(nvram) + n + UnitsPerCredit * Bonuses(nvram.total_units + n)
      BY <3>2, <3>3 DEF Due
    <3>6. Coming' = Due'
      BY <3>1, <3>3, <3>4, <3>5
    <3> QED BY <3>1, <3>6 DEF ExactInv, Converting
  <2>2. CASE HasCredits \/ TakeCredit \/ Clear("units_clear") \/ Clear("credits_clear")
    BY <2>2 DEF HasCredits, TakeCredit, Clear, Begin, Call, ExactInv, Adding, Converting
  <2> QED BY <1>1, <2>1, <2>2 DEF Calls
<1>2. CASE Check
  <2>1. pc = "check" /\ UNCHANGED <<op, hist, nvram>> /\ pc' \in {AfterCheck, "reset"}
    BY <1>2 DEF Check, Go, Write
  <2>2. CASE pc' = "units"
    <3>1. op.is = "coin"
      BY <2>1, <2>2 DEF AfterCheck
    <3>2. /\ Owed(pc', op') = op.units /\ OwedTotal(pc', op') = op.units
          /\ Owed(pc, op) = op.units /\ OwedTotal(pc, op) = op.units
      BY <2>1, <2>2, <3>1 DEF Owed, OwedTotal, Uncounted
    <3>3. Coming' = Coming /\ Due' = Due /\ Full' = Full
      BY <2>1, <3>2 DEF Coming, Counted, Due, Full
    <3> QED BY <2>1, <2>2, <3>1, <3>3 DEF ExactInv, Converting
  <2>3. CASE pc' # "units"
    BY <2>1, <2>3 DEF AfterCheck, ExactInv, Adding, Converting
  <2> QED BY <2>2, <2>3
<1>3. CASE ResetWrite
  <2>1. pc = "reset" /\ op.is = "boot"
    BY <1>3 DEF ResetWrite, CoinInv, ResetOnlyWhenTorn
  <2>2. pc' \in {"reset", "done"}
    BY <1>3, <2>1 DEF ResetWrite, Write, AfterCheck
  <2> QED BY <2>2 DEF ExactInv, Adding, Converting
<1>4. CASE FileRegister
  <2>1. op' = op /\ op.is = "boot" /\ pc' \in {"reset", "check"}
    BY <1>4 DEF FileRegister, CoinInv
  <2> QED BY <2>1 DEF ExactInv, Adding, Converting
<1>5. CASE UpdateDone \/ Done \/ RemoveCredit \/ ClearWrite \/ LastUpdate \/ Power
  <2>1. pc' \in {"idle", "update", "done", "clear", "off", "register"}
    BY <1>5 DEF UpdateDone, Done, RemoveCredit, ClearWrite, LastUpdate, Power, PowerLoss, PowerUp,
       Finished, Go, Write
  <2> QED BY <2>1 DEF ExactInv, Adding, Converting
<1>6. CASE FileRegisterPart
  BY <1>6 DEF FileRegisterPart, ExactInv, Adding, Converting
<1> QED BY <1>1, <1>2, <1>3, <1>4, <1>5, <1>6 DEF Next, Writes

LEMMA ExactInvariance == ASSUME Locks = FALSE PROVE Spec /\ []Fits => []ExactInv
<1>1. Init => ExactInv
  BY DEF Init, ExactInv, Adding, Converting
<1>2. CoinInv /\ TypeInv /\ TypeInv' /\ Fits /\ ExactInv /\ [Next]_vars => ExactInv'
  <2> SUFFICES ASSUME CoinInv, TypeInv, TypeInv', Fits, ExactInv, [Next]_vars PROVE ExactInv'
    OBVIOUS
  <2>1. CASE UNCHANGED vars
    BY <2>1 DEF vars, ExactInv, Adding, Converting, Full, Coming, Counted, Due
  <2>2. CASE AddUnitsWrite /\ ~ LastUpdate
    BY <2>2, AddUnitsExact
  <2>3. CASE Next /\ (~ AddUnitsWrite \/ LastUpdate)
    BY <2>3, OthersExact
  <2> QED BY <2>1, <2>2, <2>3
<1> QED BY <1>1, <1>2, CoinInvariant, TypeInvariance, PTL DEF Spec

(* A coin that is accepted counts once, for its units and for its bonuses, *)
(* whatever was there before and whatever losses of power and resets came  *)
(* before: add_units loses and doubles nothing, as long as its sums fit    *)
(* into their bytes and the credits stay below their maximum.              *)
THEOREM CoinsCount == ASSUME Locks = FALSE PROVE Spec /\ []Fits => CoinCounts
<1> DEFINE A == pc = "last" /\ pc' = "idle" /\ nvram.credits < MaxCredits =>
                  Worth(nvram') = hist.before.worth + op.units
                       + UnitsPerCredit * Bonuses(hist.before.total_units + op.units)
<1>1. TypeInv /\ TypeInv' /\ ExactInv /\ [Next]_vars => [A]_vars
  <2> SUFFICES ASSUME TypeInv, TypeInv', ExactInv, Next, pc = "last", pc' = "idle",
                      nvram.credits < MaxCredits
               PROVE  Worth(nvram') = Due
    BY DEF Due
  <2>1. LastUpdate
    BY DEF Next, Calls, Writes, Power, HasCredits, TakeCredit, InsertCoin, Clear, Begin,
         Check, ResetWrite, UpdateDone, Done, RemoveCredit, ClearWrite, AddUnitsWrite, AddUnits,
         AddTotalUnits, Bonus, BonusCredit, Convert, AddCredit, CreditUpdate,
         FileRegisterPart, FileRegister, PowerLoss, PowerUp
  <2>2. /\ nvram \in Nvram /\ Worth(nvram) \in Nat /\ nvram.credits \in Nat /\ MaxCredits \in Nat
        /\ nvram.total_units \in Nat /\ UnitsPerCredit \in Nat
    BY ExactFacts, WorthNat
  <2>3. nvram' \in {nvram, Updated(nvram)}
    BY <2>1 DEF LastUpdate
  <2>4. Worth(nvram') = Worth(nvram)
    BY <2>2, <2>3 DEF Worth, Updated, Nvram
  <2>5. Coming = Due /\ Bonuses(nvram.total_units) = 0
    BY <2>2 DEF ExactInv, Adding, Converting, Full
  <2>6. Coming = Worth(nvram)
    <3>1. Owed(pc, op) = 0 /\ OwedTotal(pc, op) = 0
      BY Owing
    <3>2. Bonuses(nvram.total_units + 0) = 0
      BY <2>2, <2>5
    <3>3. UnitsPerCredit * 0 = 0
      BY <2>2
    <3> QED BY <2>2, <3>1, <3>2, <3>3 DEF Coming, Counted
  <2> QED BY <2>4, <2>5, <2>6
<1> QED BY <1>1, ExactInvariance, TypeInvariance, PTL DEF Spec, CoinCounts
=============================================================================
