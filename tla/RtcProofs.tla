----------------------------- MODULE RtcProofs ------------------------------
(***************************************************************************)
(* Proofs about Rtc, for every set of rates: every step keeps the types    *)
(* and, if nobody opens the device before probe has returned, the          *)
(* inductive invariant IInv, from which follow that the driver holds its   *)
(* interrupt lines exactly while it is open and that an enabled tick has a *)
(* handler.  The tick is on exactly when it was asked for and comes at the *)
(* rate that rtc_setfreq makes of the rate that was set last.              *)
(***************************************************************************)
EXTENDS Rtc, TLAPS

(* The count that goes with a rate fits TICNT. *)
LEMMA CountFits ==
  ASSUME NEW f \in Nat, f # 0, f <= 128
  PROVE  (128 \div f) - 1 \in 0..127
<1>1. 128 \div f \in Nat /\ 128 \div f <= 128
  BY SMT
<1>2. 128 \div f >= 1
  BY SMT
<1> QED BY <1>1, <1>2

(* rtc_setfreq leaves a byte of TICNT. *)
LEMMA FreqTyped ==
  ASSUME NEW t \in Ticnt, NEW f \in Nat
  PROVE  WithFreq(t, f) \in Ticnt
<1>1. CASE ~is_power_of_2(f)
  BY <1>1 DEF WithFreq
<1>2. CASE is_power_of_2(f) /\ f <= 128
  <2>1. f # 0
    BY <1>2 DEF is_power_of_2
  <2> QED BY <1>2, <2>1, CountFits DEF WithFreq, Ticnt
<1>3. CASE is_power_of_2(f) /\ ~(f <= 128)
  BY <1>3 DEF WithFreq, Ticnt, Bit
<1> QED BY <1>1, <1>2, <1>3

(* rtc_setfreq leaves the enable bit alone for a rate of at most 128. *)
LEMMA FreqKeepsEnable ==
  ASSUME NEW t \in Ticnt, NEW f \in Nat, f <= 128
  PROVE  TickOn(WithFreq(t, f)) <=> TickOn(t)
BY DEF WithFreq, Ticnt, TickOn

(* What a suspend and a sleep leave in TICNT. *)
LEMMA QuietTicnt ==
  ASSUME NEW t \in Ticnt
  PROVE  /\ [t EXCEPT !.enable = 0] \in Ticnt /\ ~TickOn([t EXCEPT !.enable = 0])
         /\ ResetTicnt \in Ticnt /\ ~TickOn(ResetTicnt)
BY DEF ResetTicnt, Ticnt, Bit, TickOn

(* The rate that probe sets. *)
LEMMA ProbeFreq ==
  ASSUME NEW t \in Ticnt
  PROVE  /\ WithFreq(t, 1) \in Ticnt /\ (TickOn(WithFreq(t, 1)) <=> TickOn(t))
         /\ [WithFreq(t, 1) EXCEPT !.enable = 0] \in Ticnt
         /\ ~TickOn([WithFreq(t, 1) EXCEPT !.enable = 0])
<1>1. 1 \in Nat /\ 1 <= 128
  OBVIOUS
<1>2. WithFreq(t, 1) \in Ticnt /\ (TickOn(WithFreq(t, 1)) <=> TickOn(t))
  BY <1>1, FreqTyped, FreqKeepsEnable
<1> QED BY <1>2, QuietTicnt

LEMMA ProbeRate == ASSUME ProbeRegister \/ ProbeFail PROVE freq' \in Nat \ {0}
BY DEF ProbeRegister, ProbeFail

(* rtc_setpie sets the enable bit as told. *)
LEMMA PieTyped ==
  ASSUME NEW t \in Ticnt, NEW flag \in Bit
  PROVE  WithPie(t, flag) \in Ticnt /\ (TickOn(WithPie(t, flag)) <=> flag = 1)
BY DEF WithPie, Ticnt, Bit, TickOn

LEMMA PieOff ==
  ASSUME NEW t \in Ticnt
  PROVE  WithPie(t, 0) \in Ticnt /\ ~TickOn(WithPie(t, 0))
BY DEF WithPie, Ticnt, Bit, TickOn
-----------------------------------------------------------------------------
(* Type correctness *)

LEMMA TypeInit == Init => TypeOK
<1>1. Init => orphaned \in BOOLEAN
  BY Zenon DEF Init
<1> QED BY <1>1 DEF Init, TypeOK, Con, Ticnt, ResetTicnt, Bit, Ids, Files

LEMMA TypeStep == TypeOK /\ [Next]_vars => TypeOK'
<1> SUFFICES ASSUME TypeOK, [Next]_vars PROVE TypeOK'
  OBVIOUS
<1> USE DEF TypeOK, Files
<1>1. ASSUME ProbeRegister PROVE TypeOK'
  <2>1. ticnt' \in Ticnt
    BY <1>1, ProbeFreq DEF ProbeRegister
  <2>2. con' \in Con
    BY <1>1 DEF ProbeRegister, Enabled, Con, Bit
  <2>3. freq' \in Nat \ {0}
    BY <1>1, ProbeRate
  <2> QED BY <1>1, <2>1, <2>2, <2>3 DEF ProbeRegister, fileVars
<1>2. ASSUME ProbeFail PROVE TypeOK'
  <2>1. ticnt' \in Ticnt
    BY <1>2, ProbeFreq DEF ProbeFail
  <2>2. con' \in Con
    BY <1>2 DEF ProbeFail, Enabled, Disabled, Con, Bit
  <2>3. freq' \in Nat \ {0}
    BY <1>2, ProbeRate
  <2> QED BY <1>2, <2>1, <2>2, <2>3 DEF ProbeFail, fileVars
<1>3. ASSUME ProbeFinish PROVE TypeOK'
  BY <1>3 DEF ProbeFinish, Ids, deviceVars, fileVars, historyVars
<1>4. \A flag \in Bit : WithPie(ticnt, flag) \in Ticnt
  BY PieTyped
<1>5. ASSUME Remove PROVE TypeOK'
  BY <1>4, <1>5 DEF Remove, RemoveAlarm, Ids, Bit, fileVars
<1>20. ASSUME UnbindBegin PROVE TypeOK'
  <2>1. orphaned' \in BOOLEAN
    BY <1>20, Zenon DEF UnbindBegin
  <2> QED BY <1>20, <2>1 DEF UnbindBegin, Ids, deviceVars, fileVars
<1>21. ASSUME UnbindEnd PROVE TypeOK'
  <2>1. orphaned' \in BOOLEAN
    BY <1>21, Zenon DEF UnbindEnd
  <2> QED BY <1>4, <1>21, <2>1 DEF UnbindEnd, RemoveAlarm, Bit
<1>6. ASSUME OpenBegin PROVE TypeOK'
  BY <1>6 DEF OpenBegin, deviceVars, historyVars
<1>7. \A l \in Lines, v \in {"free", "other"} \cup Ids :
        [line EXCEPT ![l] = v] \in [Lines -> {"free", "other"} \cup Ids]
  OBVIOUS
<1>8. ASSUME OpenAlarm \/ OpenTick PROVE TypeOK'
  BY <1>7, <1>8 DEF OpenAlarm, OpenTick, Lines, deviceVars, historyVars
<1>9. \A l \in Lines, id \in Ids : Freed(l, id) \in [Lines -> {"free", "other"} \cup Ids]
  BY <1>7 DEF Freed
<1>10. ASSUME OpenUndo \/ ReleaseAlarm \/ ReleaseTick PROVE TypeOK'
  BY <1>9, <1>10 DEF OpenUndo, UndoLine, ReleaseAlarm, ReleaseTick, Lines, deviceVars, historyVars
<1>11. ASSUME ReleasePie PROVE TypeOK'
  BY <1>4, <1>11 DEF ReleasePie, Bit
<1>12. ASSUME OtherDriver PROVE TypeOK'
  BY <1>7, <1>12 DEF OtherDriver, deviceVars, historyVars
<1>13. ASSUME SetPie PROVE TypeOK'
  BY <1>4, <1>13 DEF SetPie, fileVars
<1>14. ASSUME NEW f \in Freqs, SetFreq,
              ticnt' = WithFreq(ticnt, f), freq' = IF is_power_of_2(f) THEN f ELSE freq,
              pie' \in {pie, "rate"}
       PROVE  TypeOK'
  <2>1. f \in Nat
    BY RtcAssumption
  <2>2. ticnt' \in Ticnt
    BY <1>14, <2>1, FreqTyped
  <2>3. freq' \in Nat \ {0}
    BY <1>14, <2>1 DEF is_power_of_2
  <2> QED BY <1>14, <2>2, <2>3 DEF SetFreq, fileVars
<1>15. ASSUME SetAlarm PROVE TypeOK'
  BY <1>15 DEF SetAlarm, fileVars, historyVars
<1>16. ASSUME Suspend PROVE TypeOK'
  BY <1>16 DEF Suspend, Disabled, Con, Ticnt, Bit, fileVars, historyVars
<1>17. ASSUME Asleep PROVE TypeOK'
  BY <1>17, QuietTicnt DEF Asleep, fileVars, historyVars
<1>18. ASSUME Resume PROVE TypeOK'
  BY <1>18 DEF Resume, Restored, Enabled, Con, Bit, fileVars, historyVars
<1>19. ASSUME UNCHANGED vars PROVE TypeOK'
  BY <1>19 DEF vars, deviceVars, fileVars, historyVars
<1> QED
  BY <1>1, <1>2, <1>3, <1>5, <1>6, <1>8, <1>10, <1>11, <1>12, <1>13, <1>14, <1>15,
     <1>16, <1>17, <1>18, <1>19, <1>20, <1>21 DEF Next, SetFreq

(* Every variable keeps its type: TICNT's count always fits its 7 bits.     *)
THEOREM TypeCorrect == Spec => []TypeOK
BY TypeInit, TypeStep, PTL DEF Spec
-----------------------------------------------------------------------------
(* The inductive invariant *)

LEMMA InvInit == Init => IInv
BY DEF Init, IInv, LinesMatchFile, InterruptsHandled, DataMatchesPhase, OpenIsBound,
       RequestsAreOurs, SuspendIsQuiet, ReleasedIsOff, Ours, Ids, Lines, ResetTicnt

LEMMA InvStep ==
  ASSUME ~EarlyOpen, TypeOK, IInv, [Next]_vars
  PROVE  IInv'
<1> USE DEF IInv, LinesMatchFile, InterruptsHandled, DataMatchesPhase, OpenIsBound,
            RequestsAreOurs, SuspendIsQuiet, ReleasedIsOff, Ours, Ids, Lines
<1>1. /\ ticnt \in Ticnt /\ file \in Files /\ dev \in {"null", "rtc"}
      /\ line \in [{"alarm", "tick"} -> {"free", "other", "null", "rtc"}]
  BY DEF TypeOK
<1>2. TickOn(WithFreq(ticnt, 1)) <=> TickOn(ticnt)
  BY <1>1, ProbeFreq
<1>3. ASSUME ProbeRegister PROVE IInv'
  BY <1>1, <1>2, <1>3 DEF ProbeRegister, fileVars
<1>4. ASSUME ProbeFail PROVE IInv'
  <2>1. ~TickOn(ticnt')
    BY <1>1, <1>4, ProbeFreq DEF ProbeFail
  <2> QED BY <1>1, <1>4, <2>1 DEF ProbeFail, fileVars
<1>5. ASSUME ProbeFinish PROVE IInv'
  BY <1>1, <1>5 DEF ProbeFinish, deviceVars, fileVars, historyVars
<1>6. ~TickOn(WithPie(ticnt, 0))
  BY <1>1, PieOff
<1>7. ASSUME Remove PROVE IInv'
  BY <1>1, <1>6, <1>7 DEF Remove, RemoveAlarm, fileVars
<1>22. ASSUME UnbindBegin PROVE IInv'
  BY <1>1, <1>22 DEF UnbindBegin, deviceVars, fileVars
<1>23. ASSUME UnbindEnd PROVE IInv'
  BY <1>1, <1>6, <1>23 DEF UnbindEnd, RemoveAlarm
<1>8. ASSUME OpenBegin PROVE IInv'
  BY <1>1, <1>8 DEF OpenBegin, Present, deviceVars, historyVars
<1>9. ASSUME OpenAlarm PROVE IInv'
  BY <1>1, <1>9 DEF OpenAlarm, deviceVars, historyVars
<1>10. ASSUME OpenTick PROVE IInv'
  BY <1>1, <1>10 DEF OpenTick, deviceVars, historyVars
<1>11. ASSUME OpenUndo PROVE IInv'
  BY <1>1, <1>11 DEF OpenUndo, UndoLine, Freed, deviceVars, historyVars
<1>12. ASSUME ReleasePie PROVE IInv'
  BY <1>1, <1>6, <1>12 DEF ReleasePie, Present
<1>13. ASSUME ReleaseAlarm PROVE IInv'
  BY <1>1, <1>13 DEF ReleaseAlarm, Freed, deviceVars, historyVars
<1>14. ASSUME ReleaseTick PROVE IInv'
  BY <1>1, <1>14 DEF ReleaseTick, Freed, deviceVars, historyVars
<1>15. ASSUME OtherDriver PROVE IInv'
  <2>1. UNCHANGED <<phase, ticnt, almen, drvdata, file, dev, save, pie, orphaned>>
    BY <1>15 DEF OtherDriver, deviceVars, historyVars
  <2>2. \A l \in Lines : (Ours(l)' <=> Ours(l)) /\ (Ours(l) => line'[l] = line[l])
    BY <1>1, <1>15 DEF OtherDriver
  <2> QED BY <2>1, <2>2
<1>16. ASSUME SetPie \/ SetFreq PROVE IInv'
  BY <1>1, <1>16 DEF SetPie, SetFreq, Present, fileVars
<1>17. ASSUME SetAlarm PROVE IInv'
  BY <1>1, <1>17 DEF SetAlarm, Present, fileVars, historyVars
<1>18. ASSUME Suspend PROVE IInv'
  BY <1>1, <1>18, QuietTicnt DEF Suspend, fileVars, historyVars
<1>19. ASSUME Asleep PROVE IInv'
  BY <1>1, <1>19, QuietTicnt DEF Asleep, fileVars, historyVars
<1>20. ASSUME Resume PROVE IInv'
  BY <1>1, <1>20 DEF Resume, Restored, fileVars, historyVars
<1>21. ASSUME UNCHANGED vars PROVE IInv'
  BY <1>21 DEF vars, deviceVars, fileVars, historyVars
<1> QED
  BY <1>3, <1>4, <1>5, <1>7, <1>8, <1>9, <1>10, <1>11, <1>12, <1>13, <1>14, <1>15,
     <1>16, <1>17, <1>18, <1>19, <1>20, <1>21, <1>22, <1>23 DEF Next

(* If nobody opens the device before probe has returned, every reachable    *)
(* state satisfies the inductive invariant.                                 *)
THEOREM Invariance == ASSUME ~EarlyOpen PROVE Spec => []IInv
BY InvInit, InvStep, TypeCorrect, PTL DEF Spec

(* The lines are held exactly while the device is open (rtc_open,           *)
(* rtc_release), whatever other drivers request, unless the device was      *)
(* unbound while it was open (rtc_remove).                                  *)
THEOREM HoldsLines == ASSUME ~EarlyOpen PROVE Spec => []LinesMatchFile
<1>1. IInv => LinesMatchFile
  BY DEF IInv
<1> QED BY <1>1, Invariance, PTL

(* The tick is never on without a handler, across release, suspend, resume  *)
(* and unbind, but for a tick that was on before the driver was bound.      *)
THEOREM TickIsHandled == ASSUME ~EarlyOpen PROVE Spec => []InterruptsHandled
<1>1. IInv => InterruptsHandled
  BY DEF IInv
<1> QED BY <1>1, Invariance, PTL
-----------------------------------------------------------------------------
(* The periodic interrupt *)

(* What a resume restores is what was asked for, too.                       *)
SavedAsAsked == phase = "suspended" => (TickOn(save) <=> pie # "off")

UnboundAsAsked == phase = "unbound" => (TickOn(ticnt) <=> pie # "off")

PieInv == PieAsAsked /\ SavedAsAsked /\ UnboundAsAsked

LEMMA PieStep ==
  ASSUME TypeOK, PieInv, [Next]_vars
  PROVE  PieInv'
<1> USE DEF PieInv, PieAsAsked, SavedAsAsked, UnboundAsAsked, Present
<1>1. ticnt \in Ticnt /\ phase \in {"unbound", "registered", "bound", "suspended", "leaving"}
  BY DEF TypeOK
<1>2. TickOn(WithFreq(ticnt, 1)) <=> TickOn(ticnt)
  BY <1>1, ProbeFreq
<1>4. ASSUME ProbeRegister PROVE PieInv'
  BY <1>2, <1>4 DEF ProbeRegister
<1>5. ASSUME ProbeFail PROVE PieInv'
  <2>1. ~TickOn(ticnt')
    BY <1>1, <1>5, ProbeFreq DEF ProbeFail
  <2> QED BY <1>5, <2>1 DEF ProbeFail
<1>6. /\ ~TickOn(WithPie(ticnt, 0))
      /\ \A flag \in Bit : TickOn(WithPie(ticnt, flag)) <=> flag = 1
  BY <1>1, PieOff, PieTyped
<1>7. ASSUME Remove \/ UnbindEnd \/ ReleasePie PROVE PieInv'
  <2>1. ~TickOn(ticnt') /\ pie' = "off"
    BY <1>6, <1>7 DEF Remove, UnbindEnd, ReleasePie
  <2> QED BY <1>1, <1>7, <2>1 DEF Remove, UnbindEnd, ReleasePie
<1>8. ASSUME SetPie PROVE PieInv'
  <2>1. PICK flag \in Bit : /\ ticnt' = WithPie(ticnt, flag)
                            /\ pie' = IF flag = 1 THEN "on" ELSE "off"
    BY <1>8 DEF SetPie
  <2> QED BY <1>6, <1>8, <2>1 DEF SetPie, Bit
<1>9. ASSUME SetFreq PROVE PieInv'
  <2>1. PICK f \in Freqs :
          /\ ticnt' = WithFreq(ticnt, f)
          /\ pie' = IF is_power_of_2(f) /\ f > 128 /\ pie = "off" THEN "rate" ELSE pie
    BY <1>9 DEF SetFreq
  <2>2. f \in Nat
    BY RtcAssumption
  <2>3. CASE is_power_of_2(f) /\ f > 128
    <3>1. TickOn(ticnt') /\ pie' # "off"
      BY <2>1, <2>2, <2>3 DEF WithFreq, TickOn
    <3> QED BY <1>9, <3>1 DEF SetFreq
  <2>4. CASE ~(is_power_of_2(f) /\ f > 128)
    <3>1. (TickOn(ticnt') <=> TickOn(ticnt)) /\ pie' = pie
      BY <1>1, <2>1, <2>2, <2>4, FreqKeepsEnable DEF WithFreq
    <3> QED BY <1>9, <3>1 DEF SetFreq
  <2> QED BY <2>3, <2>4
<1>10. ASSUME Suspend \/ Asleep \/ Resume PROVE PieInv'
  BY <1>10 DEF Suspend, Asleep, Resume, Restored, historyVars
<1>11. ASSUME \/ OpenBegin \/ OpenAlarm \/ OpenTick \/ OpenUndo \/ ReleaseAlarm
              \/ ReleaseTick \/ OtherDriver \/ ProbeFinish \/ UnbindBegin
              \/ UNCHANGED vars
       PROVE  PieInv'
  BY <1>1, <1>11 DEF OpenBegin, OpenAlarm, OpenTick, OpenUndo, ReleaseAlarm, ReleaseTick,
     OtherDriver, ProbeFinish, UnbindBegin, deviceVars, historyVars, vars
<1>12. ASSUME SetAlarm PROVE PieInv'
  BY <1>12 DEF SetAlarm, historyVars
<1> QED
  BY <1>4, <1>5, <1>7, <1>8, <1>9, <1>10, <1>11, <1>12 DEF Next

(* Whatever rates are set, the tick is on exactly when a program has asked  *)
(* for it, with RTC_PIE_ON or with a rate above 128 (rtc_setpie,            *)
(* rtc_setfreq, rtc_suspend, rtc_resume), whether or not the device is      *)
(* opened early or unbound while open.                                      *)
THEOREM PieIsAsAsked == Spec => []PieAsAsked
<1>1. Init => PieInv
  BY DEF Init, PieInv, PieAsAsked, SavedAsAsked, UnboundAsAsked, Present, ResetTicnt
<1>2. PieInv => PieAsAsked
  BY DEF PieInv
<1> QED BY <1>1, <1>2, PieStep, TypeCorrect, PTL DEF Spec
-----------------------------------------------------------------------------
(* The rate *)

(* The rates that the tick counter can divide 128 into. *)
LEMMA SmallPowers ==
  ASSUME NEW f \in Nat, is_power_of_2(f), f <= 128
  PROVE  f \in {1, 2, 4, 8, 16, 32, 64, 128}
BY DEF is_power_of_2

LEMMA OneIsPower == is_power_of_2(1)
<1>1. 2^0 = 1
  OBVIOUS
<1> QED BY <1>1 DEF is_power_of_2

(* Each of them divides 128, so that the count rtc_setfreq computes gives   *)
(* exactly that rate.                                                       *)
LEMMA FreqSetsRate ==
  ASSUME NEW t \in Ticnt, NEW f \in Nat, is_power_of_2(f), f <= 128
  PROVE  (WithFreq(t, f).count + 1) * f = 128
<1>1. WithFreq(t, f).count + 1 = 128 \div f
  BY SmallPowers DEF WithFreq, Ticnt
<1>2. (128 \div f) * f = 128
  BY SmallPowers
<1> QED BY <1>1, <1>2

(* Above 128 it is the slowest. *)
LEMMA FreqSetsSlowest ==
  ASSUME NEW t \in Ticnt, NEW f \in Nat, is_power_of_2(f), f > 128
  PROVE  (WithFreq(t, f).count + 1) * 1 = 128
<1>1. WithFreq(t, f).count = 127
  BY DEF WithFreq
<1> QED BY <1>1

(* What a resume restores is the rate, too.                                 *)
SavedRate == phase = "suspended" => (save.count + 1) * TickRate = 128

RateInv == RateAsSet /\ SavedRate

LEMMA RateStep ==
  ASSUME TypeOK, RateInv, [Next]_vars
  PROVE  RateInv'
<1> USE DEF RateInv, RateAsSet, SavedRate, TickRate, Present
<1>1. /\ ticnt \in Ticnt /\ con \in Con
      /\ phase \in {"unbound", "registered", "bound", "suspended", "leaving"}
      /\ freq \in Nat
  BY DEF TypeOK
<1>2. Enabled(con).rtcen = 1 /\ Enabled(con).clkrst = 0
  BY <1>1 DEF Enabled, Con
<1>3. ASSUME ProbeRegister PROVE RateInv'
  <2>1. (ticnt'.count + 1) * 1 = 128
    BY <1>1, <1>3, OneIsPower, FreqSetsRate DEF ProbeRegister
  <2> QED BY <1>2, <1>3, <2>1 DEF ProbeRegister
<1>4. ASSUME ProbeFail PROVE RateInv'
  BY <1>4 DEF ProbeFail
<1>5. \A flag \in Bit : WithPie(ticnt, flag).count = ticnt.count
  BY <1>1 DEF WithPie, Ticnt
<1>6. ASSUME Remove \/ UnbindEnd \/ ReleasePie \/ SetPie PROVE RateInv'
  BY <1>1, <1>5, <1>6 DEF Remove, UnbindEnd, ReleasePie, SetPie, Bit
<1>7. ASSUME NEW f \in Freqs, SetFreq,
             ticnt' = WithFreq(ticnt, f), freq' = IF is_power_of_2(f) THEN f ELSE freq
      PROVE  RateInv'
  <2>1. f \in Nat
    BY RtcAssumption
  <2>2. CASE is_power_of_2(f)
    <3>1. freq' = f /\ (ticnt'.count + 1) * (IF f <= 128 THEN f ELSE 1) = 128
      BY <1>1, <1>7, <2>1, <2>2, FreqSetsRate, FreqSetsSlowest
    <3> QED BY <1>7, <3>1 DEF SetFreq
  <2>3. CASE ~is_power_of_2(f)
    BY <1>7, <2>3 DEF SetFreq, WithFreq
  <2> QED BY <2>2, <2>3
<1>8. ASSUME Suspend \/ Asleep PROVE RateInv'
  BY <1>8 DEF Suspend, Asleep, historyVars
<1>9. ASSUME Resume PROVE RateInv'
  BY <1>2, <1>9 DEF Resume, Restored, historyVars
<1>10. ASSUME \/ OpenBegin \/ OpenAlarm \/ OpenTick \/ OpenUndo \/ ReleaseAlarm
              \/ ReleaseTick \/ OtherDriver \/ ProbeFinish \/ UnbindBegin
              \/ UNCHANGED vars
       PROVE  RateInv'
  BY <1>1, <1>10 DEF OpenBegin, OpenAlarm, OpenTick, OpenUndo, ReleaseAlarm, ReleaseTick,
     OtherDriver, ProbeFinish, UnbindBegin, deviceVars, historyVars, vars
<1>11. ASSUME SetAlarm PROVE RateInv'
  BY <1>11 DEF SetAlarm, historyVars
<1> QED
  BY <1>3, <1>4, <1>6, <1>7, <1>8, <1>9, <1>10, <1>11 DEF Next, SetFreq

(* Whatever rates are set, the tick comes at the rate that was set last, or *)
(* the slowest if that was above 128, a refused rate changing nothing       *)
(* (rtc_setfreq), and its clock runs, across probe, suspend, a sleep that   *)
(* loses the registers, and resume.                                         *)
THEOREM RateIsAsSet == Spec => []RateAsSet
<1>1. Init => RateInv
  BY DEF Init, RateInv, RateAsSet, SavedRate, Present
<1>2. RateInv => RateAsSet
  BY DEF RateInv
<1> QED BY <1>1, <1>2, RateStep, TypeCorrect, PTL DEF Spec
=============================================================================
