--------------------------- MODULE WatchdogProofs ---------------------------
(***************************************************************************)
(* Proofs about Watchdog, for every set of threads, every clock rate and   *)
(* every width of the counter, of its prescaler and of an unsigned int.    *)
(***************************************************************************)
EXTENDS Watchdog, TLAPS

(* Multiplication by a natural number keeps an order (used for quotients). *)
LEMMA TimesMonotone == \A x, y, d \in Nat : x <= y => d * x <= d * y
  OBVIOUS

(* Division by a positive number, as the SMT solver needs it told. *)
LEMMA Quotient ==
  \A count \in Nat, d \in Nat \ {0} :
    /\ count \div d \in Nat
    /\ d * (count \div d) <= count
    /\ count < d * (count \div d + 1)
  OBVIOUS

(* A count fits the counter after division by d exactly if d counters hold it. *)
LEMMA FitsIff ==
  \A count \in Nat, d \in Nat \ {0} : Fits(count, d) <=> count < d * CountLimit
<1> TAKE count \in Nat, d \in Nat \ {0}
<1> DEFINE q == count \div d
<1>1. q \in Nat /\ d * q <= count /\ count < d * (q + 1)
  BY Quotient
<1>2. CountLimit \in Nat
  BY ConstantsAssumption
<1> HIDE DEF q
<1>3. ASSUME q < CountLimit PROVE count < d * CountLimit
  <2>1. d * (q + 1) <= d * CountLimit
    BY <1>1, <1>2, <1>3, TimesMonotone
  <2> QED BY <1>1, <1>2, <2>1
<1>4. ASSUME ~(q < CountLimit) PROVE ~(count < d * CountLimit)
  <2>1. d * CountLimit <= d * q
    BY <1>1, <1>2, <1>4, TimesMonotone
  <2> QED BY <1>1, <1>2, <2>1
<1> QED BY <1>3, <1>4 DEF Fits, q

(* The arithmetic of watchdog_set_heartbeat stays in unsigned ints. *)
LEMMA CountType == \A timeout \in Int : Count(timeout) \in Nat
  BY ConstantsAssumption DEF Count
(* The divisor that the loop of watchdog_set_heartbeat finds: the least one *)
(* that makes the count fit is count \div CountLimit + 1, and if that is    *)
(* beyond the prescaler the loop leaves one past its last divisor.          *)
THEOREM DivisorValue ==
  \A count \in Nat :
    LET least == count \div CountLimit + 1
    IN  Divisor(count) = IF least <= MaxDivisor THEN least ELSE MaxDivisor + 1
<1> TAKE count \in Nat
<1> DEFINE least == count \div CountLimit + 1
<1>1. CountLimit \in Nat \ {0} /\ MaxDivisor \in Nat \ {0}
  BY ConstantsAssumption
<1>2. /\ least \in Nat \ {0}
      /\ CountLimit * (least - 1) <= count
      /\ count < CountLimit * least
  BY <1>1, Quotient
<1> HIDE DEF least
<1>3. ASSUME NEW d \in Nat \ {0}, d < least PROVE ~Fits(count, d)
  <2>1. d <= least - 1 /\ least - 1 \in Nat
    BY <1>2, <1>3
  <2>2. CountLimit * d <= CountLimit * (least - 1)
    BY <1>1, <2>1, TimesMonotone
  <2>3. d * CountLimit = CountLimit * d
    BY <1>1
  <2> QED BY <1>1, <1>2, <2>2, <2>3, FitsIff
<1>4. Fits(count, least)
  <2>1. least * CountLimit = CountLimit * least
    BY <1>1, <1>2
  <2> QED BY <1>2, <2>1, FitsIff
<1>5. CASE least <= MaxDivisor
  <2> DEFINE First(d) == Fits(count, d) /\ \A e \in 1..(d - 1) : ~Fits(count, e)
  <2>1. least \in 1..MaxDivisor
    BY <1>1, <1>2, <1>5
  <2>2. First(least)
    BY <1>2, <1>3, <1>4
  <2>3. \A d \in 1..MaxDivisor : First(d) => d = least
    BY <1>1, <1>2, <1>3, <1>4
  <2>4. Divisor(count) = CHOOSE d \in 1..MaxDivisor : First(d)
    BY <1>4, <2>1 DEF Divisor
  <2> HIDE DEF First
  <2> QED BY <1>5, <2>1, <2>2, <2>3, <2>4 DEF least
<1>6. CASE ~(least <= MaxDivisor)
  <2>1. \A d \in 1..MaxDivisor : ~Fits(count, d)
    BY <1>1, <1>2, <1>3, <1>6
  <2> QED BY <1>6, <2>1 DEF Divisor, least
<1> QED BY <1>5, <1>6 DEF least

(* What set_heartbeat stores is a count and a divisor at most one too large. *)
LEMMA SettingType ==
  \A timeout \in Int :
    Setting(timeout) \in [count : Nat, divisor : 1..(MaxDivisor + 1)]
<1> TAKE timeout \in Int
<1>1. Count(timeout) \in Nat
  BY CountType
<1> DEFINE d == Divisor(Count(timeout))
<1>2. d \in 1..(MaxDivisor + 1)
  <2>1. Count(timeout) \div CountLimit \in Nat
    BY <1>1, ConstantsAssumption, Quotient
  <2> QED BY <1>1, <2>1, DivisorValue, ConstantsAssumption
<1>3. Count(timeout) \div d \in Nat
  BY <1>1, <1>2, ConstantsAssumption, Quotient
<1> HIDE DEF d
<1> QED BY <1>2, <1>3 DEF Setting, d

(* The prescaler field holds what PRESCALE puts into it. *)
LEMMA PrescaleType ==
  \A d \in 1..(MaxDivisor + 1) : Prescale(d) \in 0..(MaxDivisor - 1)
  BY ConstantsAssumption DEF Prescale
(* The margins asked for have the settings that set_heartbeat computes.     *)
LEMMA MarginType ==
  ASSUME NEW margin \in Margins \cup {DefaultTime}
  PROVE  /\ Setting(margin).count \in Nat
         /\ Setting(margin).divisor \in 1..(MaxDivisor + 1)
         /\ Prescale(Setting(margin).divisor) \in 0..(MaxDivisor - 1)
<1>1. margin \in Int
  BY ConstantsAssumption
<1>2. Setting(margin) \in [count : Nat, divisor : 1..(MaxDivisor + 1)]
  BY <1>1, SettingType
<1> QED BY <1>2, PrescaleType

(* What may happen to the timer leaves values in its registers.             *)
LEMMA RegistersStep ==
  ASSUME RegistersOK, param.soft_noboot \in Bit, wdt_count \in Nat,
         Start \/ Stop \/ KeepAlive \/ UNCHANGED regs
  PROVE  RegistersOK'
<1>1. \A w \in Register : Stopped(w) \in Register
  BY DEF Stopped, Register, Bit
<1>2. \A w \in Register : Started(w) \in Register
  <2>1. param.soft_noboot \in {0, 1} /\ 1 - param.soft_noboot \in {0, 1}
    BY DEF Bit
  <2>2. \A w \in Register, x, y \in {0, 1} :
          [w EXCEPT !.enable = 1, !.rsten = x, !.inten = y] \in Register
    BY DEF Register, Bit
  <2> QED BY <2>1, <2>2 DEF Started
<1>3. CASE Start
  BY <1>1, <1>2, <1>3 DEF Start, RegistersOK
<1>4. CASE Stop
  BY <1>1, <1>4 DEF Stop, RegistersOK
<1>5. CASE KeepAlive
  BY <1>5 DEF KeepAlive, RegistersOK
<1>6. CASE UNCHANGED regs
  BY <1>6 DEF regs, RegistersOK
<1> QED BY <1>3, <1>4, <1>5, <1>6

(* Writing back a copy of WTCON with another prescale value is harmless.     *)
LEMMA PrescaleStep ==
  \A w \in Register, p \in 0..(MaxDivisor - 1) : [w EXCEPT !.prescale = p] \in Register
  BY DEF Register

(* Every variable keeps its C type or register width in every step.         *)
LEMMA TypeStep == TypeOK /\ [Next]_vars => TypeOK'
<1> SUFFICES ASSUME TypeOK, [Next]_vars PROVE TypeOK'
  OBVIOUS
<1> USE DEF TypeOK, RegistersOK, Bit, Pcs, Phases
<1>1. RegistersOK /\ param.soft_noboot \in Bit /\ wdt_count \in Nat
  OBVIOUS
<1>2. /\ ProbeMargin \in Margins \cup {DefaultTime}
      /\ Setting(ProbeMargin).count \in Nat
      /\ Prescale(Setting(ProbeMargin).divisor) \in 0..(MaxDivisor - 1)
  BY MarginType DEF ProbeMargin
<1>3. MaxDivisor \in Nat \ {0} /\ CountLimit \in Nat \ {0}
  BY ConstantsAssumption
<1>4. ASSUME ProbeRegister PROVE TypeOK'
  <2>1. RegistersOK'
    BY <1>4, <1>1, <1>2, PrescaleStep DEF ProbeRegister, ProbeHeartbeat
  <2>2. wdt_count' \in Nat /\ tmr_margin' \in Margins \cup {DefaultTime}
    BY <1>4, <1>2 DEF ProbeRegister, ProbeHeartbeat
  <2> QED BY <1>4, <2>1, <2>2 DEF ProbeRegister
<1>5. ASSUME ProbeFail PROVE TypeOK'
  <2>1. RegistersOK'
    BY <1>5, <1>1, <1>2, PrescaleStep DEF ProbeFail, ProbeHeartbeat
  <2>2. wdt_count' \in Nat /\ tmr_margin' \in Margins \cup {DefaultTime}
    BY <1>5, <1>2 DEF ProbeFail, ProbeHeartbeat
  <2> QED BY <1>5, <2>1, <2>2 DEF ProbeFail, calls, own
<1>6. ASSUME ProbeFinish PROVE TypeOK'
  <2>1. RegistersOK'
    BY <1>6, <1>1, RegistersStep DEF ProbeFinish
  <2> QED BY <1>6, <2>1 DEF ProbeFinish, calls, own
<1>7. ASSUME Remove \/ Unbind PROVE TypeOK'
  BY <1>7 DEF Remove, Unbind, regs, calls, own
<1>8. ASSUME Shutdown PROVE TypeOK'
  <2>1. RegistersOK'
    BY <1>8, <1>1, RegistersStep DEF Shutdown
  <2> QED BY <1>8, <2>1 DEF Shutdown, calls, own
<1>9. ASSUME Boot PROVE TypeOK'
  <2>1. BootCon \subseteq Register
    BY <1>3 DEF BootCon, Register
  <2>2. wtcon' \in Register /\ con' \in [Threads -> Register]
    BY <1>9, <2>1 DEF Boot
  <2>3. req' \in [Threads -> [count : Nat, divisor : 1..(MaxDivisor + 1)]]
    BY <1>3, <1>9 DEF Boot, NoRequest
  <2>4. wtdat' \in Nat /\ wtcnt' \in Nat
    BY <1>3, <1>9 DEF Boot
  <2> QED BY <1>9, <2>2, <2>3, <2>4 DEF Boot
<1>10. ASSUME NEW t \in Threads, OpenStart(t) PROVE TypeOK'
  <2>1. RegistersOK'
    BY <1>10, <1>1, RegistersStep DEF OpenStart, own
  <2> QED BY <1>10, <2>1 DEF OpenStart, own, Pinned, Goto
<1>11. ASSUME NEW t \in Threads, ReleaseUnlock(t) PROVE TypeOK'
  BY <1>11 DEF ReleaseUnlock, own, Goto, regs
<1>12. ASSUME NEW t \in Threads, WriteEnd(t) PROVE TypeOK'
  BY <1>12 DEF WriteEnd, own, Goto, regs
<1>13. ASSUME NEW t \in Threads, Feed(t) PROVE TypeOK'
  <2>1. RegistersOK'
    BY <1>13, <1>1, RegistersStep DEF Feed, own
  <2> QED BY <1>13, <2>1 DEF Feed, own, Goto
<1>14. ASSUME NEW t \in Threads, SetCount(t) PROVE TypeOK'
  BY <1>14 DEF SetCount, own, Goto, regs
<1>15. ASSUME NEW t \in Threads, ReadCon(t) PROVE TypeOK'
  BY <1>15 DEF ReadCon, Goto, regs
<1>16. ASSUME NEW t \in Threads, WriteDat(t) PROVE TypeOK'
  BY <1>16 DEF WriteDat, own, Goto
<1>17. ASSUME NEW t \in Threads, WriteCon(t) PROVE TypeOK'
  <2>1. wtcon' \in Register
    BY <1>17, PrescaleType, PrescaleStep DEF WriteCon, own
  <2> QED BY <1>17, <2>1 DEF WriteCon, own, Goto
<1>18. ASSUME NEW t \in Threads, OpenLock(t) PROVE TypeOK'
  BY <1>18 DEF OpenLock, own, TryLock, Goto, regs
<1>19. ASSUME NEW t \in Threads, ReleaseStop(t) PROVE TypeOK'
  <2>1. RegistersOK'
    BY <1>19, <1>1, RegistersStep DEF ReleaseStop, own, ReleaseTimer
  <2>2. abandoned' \in BOOLEAN
    BY <1>19 DEF ReleaseStop, own
  <2> QED BY <1>19, <2>1, <2>2 DEF ReleaseStop, own, Goto
<1>20. ASSUME NEW t \in Threads, WriteBegin(t) PROVE TypeOK'
  <2>1. pc' \in [Threads -> Pcs]
    BY <1>20 DEF WriteBegin, own, Goto
  <2>2. expect_close' \in {0, 42}
    BY <1>20 DEF WriteBegin, own
  <2>3. saidV' \in BOOLEAN
    BY <1>20, Zenon DEF WriteBegin
  <2>4. UNCHANGED <<param, phase, wtcon, wtdat, wtcnt, open_lock, wdt_count,
          tmr_margin, pinned, file, req, con, mixed, abandoned>>
    BY <1>20 DEF WriteBegin, own, regs
  <2> QED BY <2>1, <2>2, <2>3, <2>4
<1>21. ASSUME NEW t \in Threads, WriteV(t) PROVE TypeOK'
  BY <1>21 DEF WriteV, regs, calls, own
<1>22. ASSUME NEW t \in Threads, IoctlKeepAlive(t) PROVE TypeOK'
  BY <1>22 DEF IoctlKeepAlive, own, Goto, regs
<1>23. ASSUME NEW t \in Threads, NEW margin \in Margins, SetMargin(t, margin) PROVE TypeOK'
  BY <1>23, MarginType, SettingType, ConstantsAssumption DEF SetMargin, Goto, regs
<1>24. ASSUME Tick PROVE TypeOK'
  BY <1>24 DEF Tick, calls, own
<1>25. ASSUME Expire PROVE TypeOK'
  <2>1. RegistersOK'
    BY <1>25, <1>1, RegistersStep DEF Expire, RegistersOK
  <2>2. phase' \in Phases /\ abandoned' \in BOOLEAN
    BY <1>25 DEF Expire
  <2> QED BY <1>25, <2>1, <2>2 DEF Expire, calls, own
<1>26. ASSUME UNCHANGED vars PROVE TypeOK'
  BY <1>26 DEF vars, regs, calls, own
<1> QED BY <1>4, <1>5, <1>6, <1>7, <1>8, <1>9, <1>10, <1>11, <1>12, <1>13,
           <1>14, <1>15, <1>16, <1>17, <1>18, <1>19, <1>20, <1>21, <1>22, <1>23,
           <1>24, <1>25, <1>26
           DEF Next, Driver, User

(* Type correctness of the watchdog driver, whoever opens it and when: no   *)
(* register field, count or state leaves its range.                         *)
THEOREM TypeCorrect == Spec => []TypeOK
<1>1. Init => TypeOK
  <2> SUFFICES ASSUME Init PROVE TypeOK
    OBVIOUS
  <2>1. RegistersOK /\ con \in [Threads -> Register]
    BY ConstantsAssumption DEF Init, RegistersOK, Register, Bit, BootCon
  <2>2. req \in [Threads -> [count : Nat, divisor : 1..(MaxDivisor + 1)]]
    BY ConstantsAssumption DEF Init, NoRequest
  <2> QED BY <2>1, <2>2 DEF Init, TypeOK, Bit, Pcs, Phases
<1> QED BY <1>1, TypeStep, PTL DEF Spec

(* The parts of the inductive invariant beyond type correctness. *)
Parts == CallsMatchFile /\ MagicWasGiven /\ HeldIsArmed /\ HeldIsPinned

(* Starting the timer arms it; programming a prescaler keeps it armed. *)
LEMMA Arming ==
  ASSUME TypeOK
  PROVE  /\ Armed(Started(Stopped(wtcon)))
         /\ \A w \in Register : \A p : Armed(w) => Armed([w EXCEPT !.prescale = p])
  BY DEF TypeOK, RegistersOK, Armed, Started, Stopped, Register, Bit

(* Every step keeps the inductive invariant, if nobody can open the device  *)
(* before probe has returned.                                               *)
LEMMA PartsStep ==
  ASSUME ~EarlyOpen, TypeOK, Parts, [Next]_vars
  PROVE  Parts'
<1> USE DEF Parts, CallsMatchFile, MagicWasGiven, HeldIsArmed, HeldIsPinned, InProbe, Unprobed
<1>1. /\ pc \in [Threads -> Pcs] /\ con \in [Threads -> Register] /\ wtcon \in Register
      /\ param.nowayout \in BOOLEAN /\ saidV \in BOOLEAN /\ pinned \in BOOLEAN
  BY DEF TypeOK, RegistersOK
<1>2. ASSUME ProbeRegister PROVE Parts'
  BY <1>1, <1>2, Arming DEF ProbeRegister, ProbeHeartbeat, Armed
<1>3. ASSUME ProbeFail PROVE Parts'
  <2>1. /\ file = "closed" /\ UNCHANGED <<param, pinned, file, pc, con, abandoned>>
        /\ phase \in {"out", "unbound"} /\ phase' = "unbound" /\ open_lock' = open_lock
    BY <1>3 DEF ProbeFail, calls, own
  <2>2. /\ wtcon'.enable = wtcon.enable /\ wtcon'.rsten = wtcon.rsten
        /\ wtcon'.inten = wtcon.inten
    BY <1>1, <1>3 DEF ProbeFail, ProbeHeartbeat, Register
  <2> QED BY <1>1, <2>1, <2>2 DEF Armed
<1>4. ASSUME ProbeFinish PROVE Parts'
  BY <1>1, <1>4 DEF ProbeFinish, calls, own, Armed
<1>5. ASSUME Remove \/ Unbind PROVE Parts'
  BY <1>1, <1>5 DEF Remove, Unbind, regs, calls, own, Armed
<1>6. ASSUME Shutdown PROVE Parts'
  BY <1>1, <1>6 DEF Shutdown, calls, own, Armed
<1>7. ASSUME Boot PROVE Parts'
  BY <1>1, <1>7 DEF Boot, Armed
<1>8. ASSUME NEW t \in Threads, OpenStart(t) PROVE Parts'
  BY <1>1, <1>8, Arming DEF OpenStart, own, Start, Pinned, Goto, Live, Pcs, Armed
<1>9. ASSUME NEW t \in Threads, ReleaseUnlock(t) PROVE Parts'
  BY <1>1, <1>9 DEF ReleaseUnlock, own, Goto, Live, regs, Pcs, Armed
<1>10. ASSUME NEW t \in Threads, WriteEnd(t) PROVE Parts'
  BY <1>1, <1>10 DEF WriteEnd, own, Goto, regs, Pcs, Armed
<1>11. ASSUME NEW t \in Threads, Feed(t) PROVE Parts'
  BY <1>1, <1>11 DEF Feed, own, KeepAlive, Goto, Pcs, Armed
<1>12. ASSUME NEW t \in Threads, SetCount(t) PROVE Parts'
  BY <1>1, <1>12 DEF SetCount, own, Goto, regs, Pcs, Armed
<1>13. ASSUME NEW t \in Threads, ReadCon(t) PROVE Parts'
  BY <1>1, <1>13 DEF ReadCon, Goto, Live, regs, Pcs, Armed
<1>14. ASSUME NEW t \in Threads, WriteDat(t) PROVE Parts'
  BY <1>1, <1>14 DEF WriteDat, own, Goto, Pcs, Armed
<1>15. ASSUME NEW t \in Threads, WriteCon(t) PROVE Parts'
  BY <1>1, <1>15, Arming DEF WriteCon, own, Goto, Live, Pcs, Armed
<1>16. ASSUME NEW t \in Threads, OpenLock(t) PROVE Parts'
  BY <1>1, <1>16 DEF OpenLock, own, TryLock, Goto, regs, Pcs, Armed
<1>17. ASSUME NEW t \in Threads, ReleaseStop(t) PROVE Parts'
  BY <1>1, <1>17 DEF ReleaseStop, own, ReleaseTimer, KeepAlive, Goto, Live, Pcs, Armed
<1>18. ASSUME NEW t \in Threads, WriteBegin(t) PROVE Parts'
  BY <1>1, <1>18 DEF WriteBegin, own, Scans, Goto, regs, Pcs, Armed
<1>19. ASSUME NEW t \in Threads, WriteV(t) PROVE Parts'
  BY <1>1, <1>19 DEF WriteV, regs, calls, own, Pcs, Armed
<1>20. ASSUME NEW t \in Threads, IoctlKeepAlive(t) PROVE Parts'
  BY <1>1, <1>20 DEF IoctlKeepAlive, own, Goto, regs, Pcs, Armed
<1>21. ASSUME NEW t \in Threads, NEW margin \in Margins, SetMargin(t, margin) PROVE Parts'
  BY <1>1, <1>21 DEF SetMargin, Goto, regs, Pcs, Armed
<1>22. ASSUME Tick PROVE Parts'
  BY <1>1, <1>22 DEF Tick, calls, own, Armed
<1>23. ASSUME Expire PROVE Parts'
  BY <1>1, <1>23 DEF Expire, KeepAlive, Live, regs, calls, own, Armed
<1>24. ASSUME UNCHANGED vars PROVE Parts'
  BY <1>1, <1>24 DEF vars, regs, calls, own, Armed
<1> QED BY <1>2, <1>3, <1>4, <1>5, <1>6, <1>7, <1>8, <1>9, <1>10, <1>11, <1>12,
           <1>13, <1>14, <1>15, <1>16, <1>17, <1>18, <1>19, <1>20, <1>21, <1>22,
           <1>23, <1>24
           DEF Next, Driver, User

(* The inductive invariant holds from the first probe on.                   *)
THEOREM Invariance == ~EarlyOpen => (Spec => []IInv)
<1> SUFFICES ASSUME ~EarlyOpen PROVE Spec => []IInv
  OBVIOUS
<1>1. Init => Parts
  BY DEF Init, Parts, CallsMatchFile, MagicWasGiven, HeldIsArmed, HeldIsPinned
<1>2. TypeOK /\ Parts /\ [Next]_vars => Parts'
  BY PartsStep
<1>3. TypeOK /\ Parts <=> IInv
  BY DEF IInv, Parts
<1> QED BY <1>1, <1>2, <1>3, TypeCorrect, PTL DEF Spec

(* While /dev/watchdog is open the watchdog runs in the configured mode,    *)
(* although its holder's threads rewrite WTCON without a lock.              *)
THEOREM OpenIsArmed == ~EarlyOpen => (Spec => []OpenedIsArmed)
<1>1. IInv => OpenedIsArmed
  BY DEF IInv, HeldIsArmed, OpenedIsArmed
<1> QED BY <1>1, Invariance, PTL

(* A watchdog that was let go without the magic word stays armed.           *)
THEOREM AbandonedIsArmed == ~EarlyOpen => (Spec => []AbandonedStaysArmed)
<1>1. IInv => AbandonedStaysArmed
  BY DEF IInv, HeldIsArmed, AbandonedStaysArmed
<1> QED BY <1>1, Invariance, PTL

(* open_lock keeps every other call out of an open and of a release.        *)
THEOREM OpenIsExclusive == ~EarlyOpen => (Spec => []ExclusiveOpen)
<1>1. IInv => ExclusiveOpen
  BY DEF IInv, TypeOK, Pcs, CallsMatchFile, ExclusiveOpen
<1> QED BY <1>1, Invariance, PTL

(* Under nowayout a watchdog that was ever held keeps its driver.           *)
THEOREM DriverStays == ~EarlyOpen => (Spec => []NoWayoutKeepsDriver)
<1>1. IInv => NoWayoutKeepsDriver
  BY DEF IInv, HeldIsPinned, NoWayoutKeepsDriver
<1> QED BY <1>1, Invariance, PTL
-----------------------------------------------------------------------------
(* The margin in force *)

(* The margins that are asked for and accepted are margins that the timer   *)
(* can count.  watchdog_set_heartbeat does not make sure of that: it also   *)
(* accepts a divisor one past the last, and products that wrap.             *)
MarginsFit ==
  /\ MaxDivisor * CountLimit <= WordSize
  /\ \A margin \in Margins \cup {DefaultTime} :
       Accepts(margin) => margin * Freq < MaxDivisor * CountLimit

(* The count and the prescaler are those of the margin the driver reports.  *)
Programmed ==
  /\ wdt_count = Setting(tmr_margin).count /\ wtdat = wdt_count
  /\ wtcon.prescale = Prescale(Setting(tmr_margin).divisor)

(* How far the one call that sets the margin has got. *)
Progress(t) ==
  /\ req[t] = Setting(tmr_margin)
  /\ pc[t] # "count" => wdt_count = req[t].count
  /\ pc[t] = "writecon" => wtdat = req[t].count

(* The counter is within its period, or a refresh is about to see to it.    *)
InPeriod == file = "open" => wtcnt <= wtdat \/ \E t \in Threads : pc[t] = "feed"

(* Unless two calls set margins at once, the registers have the margin as   *)
(* soon as no call is setting it.                                           *)
MarginInv ==
  Settable /\ ~mixed /\ Live =>
    /\ Accepts(tmr_margin)
    /\ \A t, u \in Threads : InHeartbeat(t) /\ InHeartbeat(u) => t = u
    /\ \A t \in Threads : InHeartbeat(t) => Progress(t)
    /\ (\A t \in Threads : ~InHeartbeat(t)) => Programmed /\ InPeriod

(* What the scaled count of an accepted margin is worth. *)
LEMMA MarginCounts ==
  ASSUME MarginsFit, NEW margin \in Margins \cup {DefaultTime}, Accepts(margin)
  PROVE  LET count == Setting(margin).count
             divisor == Prescale(Setting(margin).divisor) + 1
         IN  count * divisor <= margin * Freq /\ margin * Freq < (count + 1) * divisor
<1>1. /\ margin \in Nat /\ Freq \in Nat \ {0} /\ CountLimit \in Nat \ {0} /\ WordSize \in Nat \ {0}
      /\ MaxDivisor \in Nat \ {0}
  BY ConstantsAssumption DEF Accepts
<1> DEFINE c == margin * Freq
<1>2. c \in Nat /\ c < MaxDivisor * CountLimit /\ MaxDivisor * CountLimit <= WordSize
  BY <1>1 DEF MarginsFit
<1>3. MaxDivisor * CountLimit \in Nat
  BY <1>1
<1> HIDE DEF c
<1>4. Count(margin) = c
  <2>1. c < WordSize
    BY <1>1, <1>2, <1>3
  <2>2. \A n \in Nat, w \in Nat \ {0} : n < w => n % w = n
    OBVIOUS
  <2> QED BY <1>1, <1>2, <2>1, <2>2 DEF Count, c
<1> DEFINE d == c \div CountLimit + 1
<1>5. d \in Nat \ {0} /\ d <= MaxDivisor
  <2> DEFINE q == c \div CountLimit
  <2>1. q \in Nat /\ CountLimit * q <= c
    BY <1>1, <1>2, Quotient
  <2> HIDE DEF q
  <2>2. ~(MaxDivisor <= q)
    <3>1. MaxDivisor <= q => CountLimit * MaxDivisor <= CountLimit * q
      BY <1>1, <2>1, TimesMonotone
    <3>2. CountLimit * MaxDivisor = MaxDivisor * CountLimit
      BY <1>1
    <3> QED BY <1>1, <1>2, <1>3, <2>1, <3>1, <3>2
  <2> QED BY <1>1, <2>1, <2>2 DEF q
<1>6. Divisor(c) = d
  BY <1>2, <1>5, DivisorValue
<1> HIDE DEF d
<1>7. Setting(margin) = [count |-> c \div d, divisor |-> d]
  BY <1>4, <1>6 DEF Setting
<1>8. Prescale(d) + 1 = d
  <2>1. \A n \in Nat, w \in Nat \ {0} : n < w => n % w = n
    OBVIOUS
  <2>2. d - 1 \in Nat /\ d - 1 < MaxDivisor
    BY <1>1, <1>5
  <2>3. (d - 1) % MaxDivisor = d - 1
    BY <1>1, <2>1, <2>2
  <2> QED BY <1>5, <2>3 DEF Prescale
<1> DEFINE q == c \div d
<1>9. q \in Nat /\ d * q <= c /\ c < d * (q + 1)
  BY <1>2, <1>5, Quotient
<1> HIDE DEF q
<1>10. q * d = d * q /\ (q + 1) * d = d * (q + 1)
  BY <1>5, <1>9
<1>11. Setting(margin).count = q /\ Setting(margin).divisor = d
  BY <1>7 DEF q
<1> QED BY <1>8, <1>9, <1>10, <1>11 DEF c

(* A step that leaves the margin, its registers and the calls that set it   *)
(* alone.                                                                   *)
LEMMA MarginFrame ==
  ASSUME MarginInv, Settable /\ ~mixed /\ Live, UNCHANGED <<tmr_margin, wdt_count, wtdat, req>>,
         wtcon'.prescale = wtcon.prescale,
         \A t \in Threads : /\ InHeartbeat(t)' <=> InHeartbeat(t)
                            /\ InHeartbeat(t) => pc'[t] = pc[t],
         (\A t \in Threads : ~InHeartbeat(t)) => InPeriod'
  PROVE  MarginInv'
<1>1. \A t \in Threads : InHeartbeat(t) => (Progress(t)' <=> Progress(t))
  BY DEF Progress
<1>2. Programmed' <=> Programmed
  BY DEF Programmed
<1> QED BY <1>1, <1>2 DEF MarginInv

LEMMA MarginStep ==
  ASSUME ~EarlyOpen, IInv, [Next]_vars, MarginInv PROVE MarginInv'
<1> SUFFICES ASSUME (Settable /\ ~mixed /\ Live)' PROVE MarginInv'
  BY DEF MarginInv
<1>0. /\ TypeOK /\ CallsMatchFile /\ pc \in [Threads -> Pcs] /\ wtcon \in Register
      /\ con \in [Threads -> Register] /\ wtcnt \in Nat /\ wtdat \in Nat /\ wdt_count \in Nat
      /\ DOMAIN req = Threads
  BY DEF IInv, TypeOK, RegistersOK
<1>a. \A t \in Threads : InHeartbeat(t) => file = "open"
  BY <1>0 DEF InHeartbeat, CallsMatchFile
<1>b. Settable' <=> (Accepts(tmr_margin') \/ Accepts(DefaultTime))
  BY DEF Settable
<1>1. CASE ProbeRegister
  <2>1. file = "closed" /\ UNCHANGED <<param, pc, file>> /\ Settable
    BY <1>0, <1>1, <1>b DEF ProbeRegister, ProbeHeartbeat, Unprobed, CallsMatchFile, Settable
  <2>2. \A t \in Threads : ~InHeartbeat(t)'
    BY <1>a, <2>1 DEF InHeartbeat
  <2>3. Accepts(ProbeMargin) /\ tmr_margin' = ProbeMargin
        /\ wdt_count' = Setting(ProbeMargin).count /\ ProbeHeartbeat
    BY <1>1, <2>1 DEF ProbeRegister, ProbeHeartbeat, Settable, ProbeMargin
  <2>4. Programmed'
    BY <1>0, <2>1, <2>3 DEF Programmed, ProbeHeartbeat, Register
  <2>5. InPeriod'
    BY <2>1 DEF InPeriod
  <2> QED BY <2>2, <2>3, <2>4, <2>5 DEF MarginInv
<1>2. CASE ProbeFail \/ Unbind \/ Remove \/ Shutdown \/ Boot
  BY <1>2 DEF ProbeFail, Unbind, Remove, Shutdown, Boot, Live, InProbe
<1>3. CASE ProbeFinish
  <2>1. /\ file = "closed" /\ UNCHANGED <<param, pc, file, mixed, tmr_margin, wdt_count, req>>
        /\ Settable /\ ~mixed /\ Live
    BY <1>0, <1>3, <1>b DEF ProbeFinish, calls, own, CallsMatchFile, Settable, Live, InProbe
  <2>2. \A t \in Threads : ~InHeartbeat(t) /\ ~InHeartbeat(t)'
    BY <1>a, <2>1 DEF InHeartbeat
  <2>3. wtdat = wdt_count
    BY <2>1, <2>2 DEF MarginInv, Programmed
  <2>4. wtdat' = wtdat /\ wtcon'.prescale = wtcon.prescale
    BY <1>0, <1>3, <2>3 DEF ProbeFinish, Start, Stop, Started, Stopped, regs, Register
  <2> QED BY <2>1, <2>2, <2>4, MarginFrame DEF InPeriod
<1>4. ASSUME NEW t \in Threads, OpenLock(t) \/ ReleaseUnlock(t) PROVE MarginInv'
  <2>1. /\ UNCHANGED <<param, phase, mixed, tmr_margin, wdt_count, req, regs>>
        /\ file' # "open" /\ Settable /\ ~mixed /\ Live
    BY <1>4, <1>b DEF OpenLock, ReleaseUnlock, own, Settable, Live, InProbe
  <2>2. \A u \in Threads : /\ InHeartbeat(u)' <=> InHeartbeat(u)
                           /\ InHeartbeat(u) => pc'[u] = pc[u]
    BY <1>0, <1>4 DEF OpenLock, ReleaseUnlock, Goto, InHeartbeat
  <2> QED BY <2>1, <2>2, MarginFrame DEF InPeriod, regs
<1>5. ASSUME NEW t \in Threads, OpenStart(t) PROVE MarginInv'
  <2>1. /\ UNCHANGED <<param, phase, mixed, tmr_margin, wdt_count, req>> /\ file = "opening"
        /\ Start /\ Settable /\ ~mixed /\ Live
    BY <1>0, <1>5, <1>b DEF OpenStart, own, Settable, Live, InProbe, Goto, CallsMatchFile
  <2>2. \A u \in Threads : ~InHeartbeat(u) /\ ~InHeartbeat(u)'
    BY <1>0, <1>5, <1>a, <2>1 DEF OpenStart, Goto, InHeartbeat
  <2>3. wtdat = wdt_count
    BY <2>1, <2>2 DEF MarginInv, Programmed
  <2>4. wtdat' = wtdat /\ wtcon'.prescale = wtcon.prescale /\ wtcnt' = wtdat'
    BY <1>0, <2>1, <2>3 DEF Start, Started, Stopped, Register
  <2>5. InPeriod'
    BY <1>0, <2>4 DEF InPeriod
  <2> QED BY <2>1, <2>2, <2>4, <2>5, MarginFrame
<1>6. ASSUME NEW t \in Threads, ReleaseStop(t) PROVE MarginInv'
  <2>1. /\ UNCHANGED <<param, phase, mixed, tmr_margin, wdt_count, req, wtdat>>
        /\ file' = "closing" /\ Settable /\ ~mixed /\ Live /\ wtcon'.prescale = wtcon.prescale
    BY <1>0, <1>6, <1>b DEF ReleaseStop, ReleaseTimer, Stop, KeepAlive, Stopped, Register, own, Settable, Live, InProbe
  <2>2. \A u \in Threads : /\ InHeartbeat(u)' <=> InHeartbeat(u)
                           /\ InHeartbeat(u) => pc'[u] = pc[u]
    BY <1>0, <1>6 DEF ReleaseStop, Goto, InHeartbeat
  <2> QED BY <2>1, <2>2, MarginFrame DEF InPeriod
<1>7. ASSUME NEW t \in Threads, WriteBegin(t) \/ WriteV(t) \/ WriteEnd(t) \/ IoctlKeepAlive(t)
      PROVE  MarginInv'
  <2>1. /\ UNCHANGED <<param, phase, mixed, tmr_margin, wdt_count, req, regs, file>>
        /\ Settable /\ ~mixed /\ Live
    BY <1>7, <1>b DEF WriteBegin, WriteV, WriteEnd, IoctlKeepAlive, own, calls, Settable, Live, InProbe
  <2>2. \A u \in Threads : /\ InHeartbeat(u)' <=> InHeartbeat(u)
                           /\ InHeartbeat(u) => pc'[u] = pc[u]
                           /\ pc[u] = "feed" => pc'[u] = "feed"
    BY <1>0, <1>7 DEF WriteBegin, WriteV, WriteEnd, IoctlKeepAlive, Goto, InHeartbeat, calls
  <2>3. (\A u \in Threads : ~InHeartbeat(u)) => InPeriod'
    BY <2>1, <2>2 DEF MarginInv, InPeriod, regs
  <2> QED BY <2>1, <2>2, <2>3, MarginFrame DEF regs
<1>8. ASSUME NEW t \in Threads, Feed(t) PROVE MarginInv'
  <2>1. /\ UNCHANGED <<param, phase, mixed, tmr_margin, wdt_count, req, wtdat, wtcon>>
        /\ Settable /\ ~mixed /\ Live /\ wtcnt' = wdt_count
    BY <1>8, <1>b DEF Feed, KeepAlive, own, Settable, Live, InProbe
  <2>2. \A u \in Threads : /\ InHeartbeat(u)' <=> InHeartbeat(u)
                           /\ InHeartbeat(u) => pc'[u] = pc[u]
    BY <1>0, <1>8 DEF Feed, Goto, InHeartbeat
  <2>3. (\A u \in Threads : ~InHeartbeat(u)) => wtcnt' = wtdat'
    BY <2>1 DEF MarginInv, Programmed
  <2>4. wtcnt' = wtdat' => InPeriod'
    BY <1>0, <2>1 DEF InPeriod
  <2> QED BY <2>1, <2>2, <2>3, <2>4, MarginFrame
<1>9. ASSUME NEW t \in Threads, NEW margin \in Margins, SetMargin(t, margin) PROVE MarginInv'
  <2>1. /\ \A u \in Threads : ~InHeartbeat(u)
        /\ Accepts(margin) /\ tmr_margin' = margin
        /\ req' = [req EXCEPT ![t] = Setting(margin)] /\ pc' = [pc EXCEPT ![t] = "count"]
    BY <1>9 DEF SetMargin, Goto
  <2>2. \A u \in Threads : InHeartbeat(u)' <=> u = t
    BY <1>0, <2>1 DEF InHeartbeat
  <2>3. pc'[t] = "count" /\ req'[t] = Setting(tmr_margin')
    BY <1>0, <2>1
  <2> QED BY <2>1, <2>2, <2>3 DEF MarginInv, Progress
<1>10. ASSUME NEW t \in Threads, SetCount(t) \/ ReadCon(t) \/ WriteDat(t) PROVE MarginInv'
  <2>1. /\ UNCHANGED <<param, phase, mixed, tmr_margin, req>> /\ Settable /\ ~mixed /\ Live
    BY <1>10, <1>b DEF SetCount, ReadCon, WriteDat, own, Settable, Live, InProbe
  <2>2. InHeartbeat(t) /\ InHeartbeat(t)' /\ pc'[t] # "count"
    BY <1>0, <1>10 DEF SetCount, ReadCon, WriteDat, Goto, InHeartbeat
  <2>3. \A u \in Threads \ {t} : ~InHeartbeat(u) /\ ~InHeartbeat(u)'
    BY <1>0, <1>10, <2>1, <2>2 DEF SetCount, ReadCon, WriteDat, Goto, InHeartbeat, MarginInv
  <2>4. Progress(t) /\ Accepts(tmr_margin)
    BY <2>1, <2>2 DEF MarginInv
  <2>5. Progress(t)'
    BY <1>0, <1>10, <2>1, <2>2, <2>4 DEF SetCount, ReadCon, WriteDat, Goto, Progress
  <2> QED BY <2>1, <2>2, <2>3, <2>4, <2>5 DEF MarginInv
<1>11. ASSUME NEW t \in Threads, WriteCon(t) PROVE MarginInv'
  <2>1. /\ UNCHANGED <<param, phase, mixed, tmr_margin, wdt_count, wtdat>>
        /\ Settable /\ ~mixed /\ Live /\ pc[t] = "writecon"
    BY <1>11, <1>b DEF WriteCon, own, Settable, Live, InProbe, Goto
  <2>2. InHeartbeat(t) /\ pc'[t] = "feed" /\ ~InHeartbeat(t)'
    BY <1>0, <1>11 DEF WriteCon, Goto, InHeartbeat
  <2>3. \A u \in Threads \ {t} : ~InHeartbeat(u) /\ ~InHeartbeat(u)'
    BY <1>0, <1>11, <2>1, <2>2 DEF WriteCon, Goto, InHeartbeat, MarginInv
  <2>4. Progress(t) /\ Accepts(tmr_margin)
    BY <2>1, <2>2 DEF MarginInv
  <2>5. wtcon'.prescale = Prescale(req[t].divisor)
    BY <1>0, <1>11 DEF WriteCon, Register
  <2>6. Programmed' /\ InPeriod'
    BY <2>1, <2>2, <2>4, <2>5 DEF Programmed, Progress, InPeriod
  <2> QED BY <2>1, <2>2, <2>3, <2>4, <2>6 DEF MarginInv
<1>12. CASE Tick \/ Expire
  <2>1. /\ UNCHANGED <<param, phase, mixed, tmr_margin, wdt_count, req, wtdat, wtcon, file, pc>>
        /\ Settable /\ ~mixed /\ Live
    BY <1>12, <1>b DEF Tick, Expire, KeepAlive, own, calls, Settable, Live, InProbe, regs
  <2>2. wtcnt' \in {wtcnt - 1, wdt_count, wtdat}
    BY <1>12, <2>1 DEF Tick, Expire, KeepAlive, regs, Live
  <2>3. \A u \in Threads : InHeartbeat(u)' <=> InHeartbeat(u)
    BY <2>1 DEF InHeartbeat
  <2>4. (\A u \in Threads : ~InHeartbeat(u)) => InPeriod'
    BY <1>0, <2>1, <2>2 DEF MarginInv, Programmed, InPeriod
  <2> QED BY <2>1, <2>3, <2>4, MarginFrame
<1>13. CASE UNCHANGED vars
  <2>1. /\ UNCHANGED <<param, phase, mixed, tmr_margin, wdt_count, req, regs, file, pc>>
        /\ Settable /\ ~mixed /\ Live
    BY <1>13, <1>b DEF vars, calls, own, regs, Settable, Live, InProbe
  <2>2. \A u \in Threads : InHeartbeat(u)' <=> InHeartbeat(u)
    BY <2>1 DEF InHeartbeat
  <2>3. (\A u \in Threads : ~InHeartbeat(u)) => InPeriod'
    BY <2>1 DEF MarginInv, InPeriod, regs
  <2> QED BY <2>1, <2>2, <2>3, MarginFrame DEF regs
<1> QED BY <1>1, <1>2, <1>3, <1>4, <1>5, <1>6, <1>7, <1>8, <1>9, <1>10, <1>11, <1>12, <1>13
        DEF Next, Driver, User

(* The period in the hardware is the margin that WDIOC_GETTIMEOUT reports,  *)
(* to within one prescaled count, however the threads of the holder         *)
(* interleave their writes, refreshes and margins (watchdog_set_heartbeat,  *)
(* watchdog_ioctl), for every timer and all margins that the timer can      *)
(* count.                                                                   *)
THEOREM MarginIsInForce == ~EarlyOpen /\ MarginsFit => (Spec => []MarginInForce)
<1> SUFFICES ASSUME ~EarlyOpen, MarginsFit PROVE Spec => []MarginInForce
  OBVIOUS
<1>1. Init => MarginInv
  BY DEF Init, MarginInv, Live, InProbe
<1>2. IInv /\ MarginInv /\ [Next]_vars => MarginInv'
  BY MarginStep
<1>3. IInv /\ MarginInv => MarginInForce
  <2> SUFFICES ASSUME IInv, MarginInv,
                      file = "open" /\ phase = "bound" /\ Quiescent /\ Settable /\ ~mixed
               PROVE  MarginInForce
    BY DEF MarginInForce
  <2>1. \A t \in Threads : ~InHeartbeat(t) /\ pc[t] # "feed"
    BY DEF Quiescent, InHeartbeat
  <2>2. Accepts(tmr_margin) /\ Programmed /\ wtcnt <= wtdat
    BY <2>1 DEF MarginInv, Live, InPeriod
  <2>3. tmr_margin \in Margins \cup {DefaultTime}
    BY DEF IInv, TypeOK
  <2> QED BY <2>2, <2>3, MarginCounts DEF Programmed, MarginInForce
<1> QED BY <1>1, <1>2, <1>3, Invariance, PTL DEF Spec
-----------------------------------------------------------------------------
(* Every step of the driver is a step of the contract, or changes nothing   *)
(* the contract speaks of.                                                  *)
LEMMA ContractStep ==
  ASSUME IInv, [Next]_vars
  PROVE  [Contract!Next]_(Contract!vars)
<1> USE DEF Contract!vars, IInv, CallsMatchFile, MagicWasGiven, HeldIsArmed, HeldIsPinned,
            InProbe, Unprobed
<1>1. /\ param.nowayout \in BOOLEAN /\ pinned \in BOOLEAN /\ pc \in [Threads -> Pcs]
      /\ wtcon \in Register /\ con \in [Threads -> Register]
  BY DEF TypeOK, RegistersOK
<1>2. ASSUME ProbeRegister PROVE Contract!BeginBind
  <2>1. wtcon'.enable = wtcon.enable
    BY <1>1, <1>2 DEF ProbeRegister, ProbeHeartbeat, Register
  <2> QED BY <1>2, <2>1 DEF ProbeRegister, Contract!BeginBind
<1>3. ASSUME ProbeFail PROVE Contract!BeginBind
  <2>1. wtcon'.enable = wtcon.enable
    BY <1>1, <1>3 DEF ProbeFail, ProbeHeartbeat, Register
  <2> QED BY <1>3, <2>1 DEF ProbeFail, Contract!BeginBind
<1>4. ASSUME ProbeFinish PROVE Contract!EndBind
  BY <1>1, <1>4 DEF ProbeFinish, Contract!EndBind
<1>5. ASSUME Remove \/ Unbind PROVE Contract!Unload \/ Contract!Unbind
  BY <1>1, <1>5 DEF Remove, Unbind, regs, Contract!Unload, Contract!Unbind
<1>6. ASSUME Shutdown PROVE Contract!GoDown
  <2>1. wtcon'.enable = 0 \/ wtcon' = wtcon
    BY <1>1, <1>6 DEF Shutdown, Stop, Stopped, Register, regs
  <2> QED BY <1>6, <2>1 DEF Shutdown, Contract!GoDown
<1>7. ASSUME Boot PROVE Contract!ComeUp
  BY <1>1, <1>7 DEF Boot, Contract!ComeUp
<1>8. ASSUME NEW t \in Threads, OpenStart(t) PROVE Contract!Take
  BY <1>1, <1>8, Arming DEF OpenStart, own, Start, Pinned, Goto, Live, Armed, Contract!Take
<1>9. ASSUME NEW t \in Threads, ReleaseUnlock(t) PROVE UNCHANGED Contract!vars
  BY <1>1, <1>9 DEF ReleaseUnlock, own, Goto, Live, regs
<1>10. ASSUME NEW t \in Threads, WriteEnd(t) PROVE UNCHANGED Contract!vars
  BY <1>1, <1>10 DEF WriteEnd, own, Goto, Live, regs
<1>11. ASSUME NEW t \in Threads, Feed(t) PROVE UNCHANGED Contract!vars
  BY <1>1, <1>11 DEF Feed, own, Goto, Live, regs, KeepAlive
<1>12. ASSUME NEW t \in Threads, SetCount(t) PROVE UNCHANGED Contract!vars
  BY <1>1, <1>12 DEF SetCount, own, Goto, Live, regs
<1>13. ASSUME NEW t \in Threads, ReadCon(t) PROVE UNCHANGED Contract!vars
  BY <1>1, <1>13 DEF ReadCon, Goto, Live, regs
<1>14. ASSUME NEW t \in Threads, WriteDat(t) PROVE UNCHANGED Contract!vars
  BY <1>1, <1>14 DEF WriteDat, own, Goto, Live, regs
<1>15. ASSUME NEW t \in Threads, OpenLock(t) PROVE UNCHANGED Contract!vars
  BY <1>1, <1>15 DEF OpenLock, own, TryLock, regs
<1>16. ASSUME NEW t \in Threads, IoctlKeepAlive(t) PROVE UNCHANGED Contract!vars
  BY <1>1, <1>16 DEF IoctlKeepAlive, own, Goto, Live, regs
<1>17. ASSUME NEW t \in Threads, WriteCon(t) PROVE UNCHANGED Contract!vars
  BY <1>1, <1>17, Arming DEF WriteCon, own, Goto, Live, Armed, Pcs
<1>18. ASSUME NEW t \in Threads, ReleaseStop(t) PROVE Contract!LetGo
  <2>1. /\ phase = "bound" /\ file = "open" /\ file' = "closing"
        /\ UNCHANGED <<param, phase, pinned>>
    BY <1>18 DEF ReleaseStop, own, Live
  <2>2. CASE expect_close = 42
    <3>1. wtcon'.enable = 0
      BY <1>1, <1>18, <2>2 DEF ReleaseStop, own, ReleaseTimer, Stop, Stopped, Register
    <3> QED BY <2>1, <2>2, <3>1 DEF Contract!LetGo
  <2>3. CASE expect_close # 42
    <3>1. wtcon' = wtcon
      BY <1>18, <2>3 DEF ReleaseStop, own, ReleaseTimer, KeepAlive
    <3> QED BY <2>1, <2>3, <3>1 DEF Contract!LetGo
  <2> QED BY <2>2, <2>3
<1>19. ASSUME NEW t \in Threads, WriteBegin(t) PROVE Contract!Write
  BY <1>1, <1>19 DEF WriteBegin, own, Scans, Goto, Live, regs, Contract!Write
<1>20. ASSUME NEW t \in Threads, WriteV(t) PROVE Contract!Write
  BY <1>1, <1>20 DEF WriteV, Live, regs, Contract!Write
<1>21. ASSUME NEW t \in Threads, NEW margin \in Margins, SetMargin(t, margin) PROVE UNCHANGED Contract!vars
  BY <1>1, <1>21 DEF SetMargin, Goto, regs
<1>22. ASSUME Tick PROVE UNCHANGED Contract!vars
  BY <1>1, <1>22 DEF Tick, calls, own
<1>23. ASSUME Expire PROVE Contract!GoDown \/ UNCHANGED Contract!vars
  BY <1>1, <1>23 DEF Expire, KeepAlive, Live, regs, Contract!GoDown
<1>24. ASSUME UNCHANGED vars PROVE UNCHANGED Contract!vars
  BY <1>1, <1>24 DEF vars, regs
<1> QED BY <1>2, <1>3, <1>4, <1>5, <1>6, <1>7, <1>8, <1>9, <1>10, <1>11, <1>12,
           <1>13, <1>14, <1>15, <1>16, <1>17, <1>18, <1>19, <1>20, <1>21, <1>22,
           <1>23, <1>24
           DEF Next, Driver, User, Contract!Next

(* The driver implements the contract of /dev/watchdog.                     *)
THEOREM Refinement == ~EarlyOpen => (Spec => ContractSpec)
<1> SUFFICES ASSUME ~EarlyOpen PROVE Spec => ContractSpec
  OBVIOUS
<1>1. Init => Contract!Init
  BY DEF Init, BootCon, Bit, Contract!Init
<1>2. IInv /\ [Next]_vars => [Contract!Next]_(Contract!vars)
  BY ContractStep
<1> QED BY <1>1, <1>2, Invariance, PTL DEF Spec, ContractSpec, Contract!Spec
=============================================================================
