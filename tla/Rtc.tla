-------------------------------- MODULE Rtc ---------------------------------
(***************************************************************************)
(* The life of the real-time clock driver, rtc/driver/rtc.c: it is bound   *)
(* to its device, opened and released, suspended and resumed, removed or   *)
(* unbound, and in between the periodic tick is set up.  RtcClock models   *)
(* the time and alarm calls; here an alarm is only on or off.              *)
(*                                                                         *)
(* The RTC core lets one program at a time open /dev/rtc and one call at a *)
(* time run.  Other drivers request the same interrupt lines meanwhile.    *)
(* Processes are frozen outside the kernel before a suspend.               *)
(***************************************************************************)
EXTENDS Integers

CONSTANTS
  Freqs,     \* rates given to the RTC_IRQP_SET ioctl
  EarlyOpen  \* may a program open the device before probe has returned?

ASSUME RtcAssumption == Freqs \subseteq Nat /\ EarlyOpen \in BOOLEAN

VARIABLES
  phase,   \* "unbound", "registered" (probe is not over), "bound", "suspended"
           \* or "leaving" (an unbind has taken the driver data)
  con,     \* bits of RTCCON
  ticnt,   \* bits of TICNT
  almen,   \* ALMEN of RTCALM: "off", "on", or "boot" if on since before the driver
  drvdata, \* what platform_get_drvdata returns, "null" or "rtc"
  line,    \* each interrupt line: "free", "other", or the dev_id of our request
  file,    \* /dev/rtc: "closed", "open", or where an open or a release is
  dev,     \* rtc_dev of the open in progress
  save,    \* ticnt_save
  pie,     \* history: the periodic interrupt asked for: "off", "on", "rate" if a rate
           \* above 128 turned it on, or "boot", as in almen
  freq,    \* history: the rate set last
  orphaned \* history: has the device been unbound while it was open?

deviceVars  == <<con, ticnt, almen>>
fileVars    == <<line, file, dev>>
historyVars == <<pie, freq, orphaned>>
vars        == <<phase, deviceVars, drvdata, fileVars, save, historyVars>>

Bit   == {0, 1}
Con   == [rtcen : Bit, cntsel : Bit, clkrst : Bit]
Ticnt == [enable : Bit, count : 0..127]
Ids   == {"null", "rtc"}
Lines == {"alarm", "tick"}

ResetTicnt == [enable |-> 0, count |-> 0]
TickOn(t)  == t.enable = 1

(* A boot loader may have used the clock. *)
Init ==
  /\ phase = "unbound" /\ drvdata = "null"
  /\ con \in Con /\ almen \in {"off", "boot"}
  /\ ticnt \in {ResetTicnt, [enable |-> 1, count |-> 3]}
  /\ line \in [Lines -> {"free", "other"}]
  /\ file = "closed" /\ dev = "null" /\ save = ResetTicnt
  /\ pie = IF TickOn(ticnt) THEN "boot" ELSE "off"
  /\ freq = 1 /\ orphaned = FALSE

Present == phase \in {"registered", "bound", "leaving"}
-----------------------------------------------------------------------------
(* Register updates *)

(* rtc_enable(pdev, 1).  What it clears in place of CNTSEL is the address   *)
(* of RTCCON, 0x40, none of whose bits the register has.                    *)
Enabled(c) == [c EXCEPT !.rtcen = 1, !.clkrst = 0]

(* rtc_enable(pdev, 0) *)
Disabled(c) == [c EXCEPT !.rtcen = 0]

(* rtc_setpie *)
WithPie(t, flag) == [t EXCEPT !.enable = flag]

is_power_of_2(f) == f # 0 /\ f \in {2^n : n \in 0..30}

(* rtc_setfreq: (128 / freq) - 1 is or-ed into the byte, where -1 has every *)
(* bit set, and the enable bit is one of them.                              *)
WithFreqOff(t, f) == [t EXCEPT !.enable = 0, !.count = (128 \div f) - 1]
WithFreq(t, f) ==
  IF ~is_power_of_2(f) THEN t
  ELSE IF f <= 128 THEN [t EXCEPT !.count = (128 \div f) - 1]
                   ELSE [enable |-> 1, count |-> 127]
-----------------------------------------------------------------------------
(* probe and remove *)

(* probe up to rtc_device_register, from which on the device can be opened. *)
ProbeRegister ==
  /\ phase = "unbound"
  /\ con' = Enabled(con) /\ ticnt' = WithFreq(ticnt, 1)
  /\ phase' = "registered"
  /\ freq' = 1
  /\ UNCHANGED <<almen, drvdata, fileVars, save, pie, orphaned>>

(* The registration fails: rtc_enable(pdev, 0), and everything is undone. *)
ProbeFail ==
  /\ phase = "unbound"
  /\ con' = Disabled(Enabled(con))
  /\ ticnt' = [WithFreq(ticnt, 1) EXCEPT !.enable = 0]
  /\ pie' = "off" /\ freq' = 1
  /\ UNCHANGED <<phase, almen, drvdata, fileVars, save, orphaned>>

ProbeFinish ==
  /\ phase = "registered"
  /\ phase' = "bound" /\ drvdata' = "rtc"
  /\ UNCHANGED <<deviceVars, fileVars, save, historyVars>>

(* rtc_remove, from an rmmod: the module cannot be removed while the device *)
(* is in use, nor opened while it is removed.                               *)
RemoveKeepsAlarm == almen
RemoveAlarm == "off"

Remove ==
  /\ phase = "bound" /\ file = "closed"
  /\ phase' = "unbound" /\ drvdata' = "null"
  /\ ticnt' = WithPie(ticnt, 0) /\ pie' = "off"
  /\ almen' = RemoveAlarm
  /\ UNCHANGED <<con, fileVars, save, freq, orphaned>>

(* rtc_remove, from an unbind through sysfs, which asks for neither: up to  *)
(* rtc_device_unregister the device can be opened and released, without its *)
(* driver data.  A file that is open then is cut off from the driver: the   *)
(* requests it made are never freed.                                        *)
UnbindBegin ==
  /\ phase = "bound"
  /\ phase' = "leaving" /\ drvdata' = "null"
  /\ orphaned' = (orphaned \/ file # "closed")
  /\ UNCHANGED <<deviceVars, fileVars, save, pie, freq>>

UnbindEnd ==
  /\ phase = "leaving" /\ file \in {"closed", "open"}
  /\ phase' = "unbound" /\ file' = "closed"
  /\ ticnt' = WithPie(ticnt, 0) /\ pie' = "off"
  /\ almen' = RemoveAlarm
  /\ orphaned' = (orphaned \/ file # "closed")
  /\ UNCHANGED <<con, drvdata, line, dev, save, freq>>
-----------------------------------------------------------------------------
(* rtc_open and rtc_release *)

OpenBegin ==
  /\ file = "closed" /\ Present /\ (EarlyOpen \/ phase # "registered")
  /\ file' = "request alarm" /\ dev' = drvdata
  /\ UNCHANGED <<phase, deviceVars, drvdata, line, save, historyVars>>

OpenAlarm ==
  /\ file = "request alarm"
  /\ IF line["alarm"] = "free"
     THEN line' = [line EXCEPT !["alarm"] = dev] /\ file' = "request tick"
     ELSE file' = "closed" /\ UNCHANGED line
  /\ UNCHANGED <<phase, deviceVars, drvdata, dev, save, historyVars>>

OpenTick ==
  /\ file = "request tick"
  /\ IF line["tick"] = "free"
     THEN line' = [line EXCEPT !["tick"] = dev] /\ file' = "open"
     ELSE file' = "undo alarm" /\ UNCHANGED line
  /\ UNCHANGED <<phase, deviceVars, drvdata, dev, save, historyVars>>

(* free_irq takes back the request with this dev_id, if there is one. *)
Freed(l, id) == IF line[l] = id THEN [line EXCEPT ![l] = "free"] ELSE line

(* The line that an open without the tick's gives back. *)
UndoLineTick == "tick"
UndoLine == "alarm"

OpenUndo ==
  /\ file = "undo alarm"
  /\ line' = Freed(UndoLine, dev) /\ file' = "closed"
  /\ UNCHANGED <<phase, deviceVars, drvdata, dev, save, historyVars>>

ReleasePie ==
  /\ file = "open" /\ Present
  /\ ticnt' = WithPie(ticnt, 0) /\ pie' = "off"
  /\ file' = "free alarm"
  /\ UNCHANGED <<phase, con, almen, drvdata, line, dev, save, freq, orphaned>>

ReleaseAlarm ==
  /\ file = "free alarm"
  /\ line' = Freed("alarm", drvdata) /\ file' = "free tick"
  /\ UNCHANGED <<phase, deviceVars, drvdata, dev, save, historyVars>>

ReleaseTick ==
  /\ file = "free tick"
  /\ line' = Freed("tick", drvdata) /\ file' = "closed"
  /\ UNCHANGED <<phase, deviceVars, drvdata, dev, save, historyVars>>

(* Another driver requests a line or gives it back. *)
OtherDriver ==
  \E l \in Lines :
    /\ line[l] \in {"free", "other"}
    /\ line' = [line EXCEPT ![l] = IF line[l] = "free" THEN "other" ELSE "free"]
    /\ UNCHANGED <<phase, deviceVars, drvdata, file, dev, save, historyVars>>
-----------------------------------------------------------------------------
(* Calls on the open file *)

SetPie ==
  /\ file = "open" /\ Present
  /\ \E flag \in Bit : /\ ticnt' = WithPie(ticnt, flag)
                         /\ pie' = IF flag = 1 THEN "on" ELSE "off"
  /\ UNCHANGED <<phase, con, almen, drvdata, fileVars, save, freq, orphaned>>

SetFreq ==
  /\ file = "open" /\ Present
  /\ \E f \in Freqs :
       /\ ticnt' = WithFreq(ticnt, f)
       /\ freq' = IF is_power_of_2(f) THEN f ELSE freq
       /\ pie' = IF is_power_of_2(f) /\ f > 128 /\ pie = "off" THEN "rate" ELSE pie
  /\ UNCHANGED <<phase, con, almen, drvdata, fileVars, save, orphaned>>

(* rtc_setalarm, of which ALMEN is what matters here. *)
SetAlarm ==
  /\ file = "open" /\ Present
  /\ almen' \in {"on", "off"}
  /\ UNCHANGED <<phase, con, ticnt, drvdata, fileVars, save, historyVars>>
-----------------------------------------------------------------------------
(* rtc_suspend and rtc_resume *)

Suspend ==
  /\ phase = "bound" /\ file \in {"closed", "open"}
  /\ phase' = "suspended"
  /\ save' = ticnt
  /\ con' = Disabled(con) /\ ticnt' = [ticnt EXCEPT !.enable = 0]
  /\ UNCHANGED <<almen, drvdata, fileVars, historyVars>>

(* The machine sleeps, and a reset starts the boot loader. *)
Asleep ==
  /\ phase = "suspended"
  /\ con' \in Con /\ ticnt' = ResetTicnt
  /\ UNCHANGED <<phase, almen, drvdata, fileVars, save, historyVars>>

RestoredNot == ticnt
Restored == save

Resume ==
  /\ phase = "suspended"
  /\ phase' = "bound"
  /\ con' = Enabled(con) /\ ticnt' = Restored
  /\ UNCHANGED <<almen, drvdata, fileVars, save, historyVars>>

Next ==
  \/ ProbeRegister \/ ProbeFail \/ ProbeFinish
  \/ Remove \/ UnbindBegin \/ UnbindEnd
  \/ OpenBegin \/ OpenAlarm \/ OpenTick \/ OpenUndo
  \/ ReleasePie \/ ReleaseAlarm \/ ReleaseTick \/ OtherDriver
  \/ SetPie \/ SetFreq \/ SetAlarm
  \/ Suspend \/ Asleep \/ Resume

Spec == Init /\ [][Next]_vars
-----------------------------------------------------------------------------
(* Properties *)

Files == {"closed", "request alarm", "request tick", "undo alarm", "open",
          "free alarm", "free tick"}

(* Every variable holds a value of its type; TICNT's count fits 7 bits. *)
TypeOK ==
  /\ phase \in {"unbound", "registered", "bound", "suspended", "leaving"}
  /\ con \in Con /\ ticnt \in Ticnt /\ almen \in {"off", "on", "boot"}
  /\ drvdata \in Ids /\ line \in [Lines -> {"free", "other"} \cup Ids]
  /\ file \in Files /\ dev \in Ids /\ save \in Ticnt
  /\ pie \in {"off", "on", "rate", "boot"} /\ freq \in Nat \ {0} /\ orphaned \in BOOLEAN

Ours(l) == line[l] \in Ids

(* The driver holds both interrupt lines while the device is open, and none *)
(* when it is closed, whatever requests of other drivers come in between,   *)
(* as long as the device is never unbound while it is open.                 *)
LinesMatchFile ==
  ~orphaned =>
    /\ Ours("alarm") <=> file \in {"request tick", "undo alarm", "open", "free alarm"}
    /\ Ours("tick") <=> file \in {"open", "free alarm", "free tick"}

(* The tick interrupt is off unless its line is the driver's, or it has     *)
(* been on since before the driver was bound.  No alarm set through the     *)
(* driver outlives it.                                                      *)
InterruptsHandled ==
  /\ TickOn(ticnt) => Ours("tick") \/ pie = "boot"
  /\ almen = "on" => phase # "unbound"

(* The tick is on when a program has asked for it, and off when it has not, *)
(* across rate changes, suspends, sleeps that lose the register, resumes.   *)
(* A program asks with RTC_PIE_ON, or with a rate above 128, which turns    *)
(* the tick on as well: its count of -1 has the enable bit.                 *)
PieAsAsked == Present => (TickOn(ticnt) <=> pie # "off")

(* What rtc_setfreq makes of a rate: above 128 it gives the slowest tick.   *)
TickRate == IF freq <= 128 THEN freq ELSE 1

(* The tick comes at the rate that was set last, or the slowest if that was *)
(* above 128, across the same, and the clock that feeds it is enabled and   *)
(* not held in reset.                                                       *)
RateAsSet ==
  Present => (ticnt.count + 1) * TickRate = 128 /\ con.rtcen = 1 /\ con.clkrst = 0

(* The tick comes at the rate that an RTC_IRQP_SET set last and was told    *)
(* had been set, as RTC_IRQP_SET_test has it with its rate of 512.          *)
RateHonoured == Present => (ticnt.count + 1) * freq = 128

(* The driver data is there from the end of probe to remove. *)
DataMatchesPhase == drvdata = IF phase \in {"bound", "suspended"} THEN "rtc" ELSE "null"

(* An open device has its tick line, and its driver is there.               *)
OpenIsBound ==
  /\ file # "closed" => phase \in {"bound", "suspended", "leaving"}
  /\ file \in {"open", "free alarm"} => Ours("tick")

(* Requests carry the driver data, unless an unbind took it from an open    *)
(* file.                                                                    *)
RequestsAreOurs ==
  ~orphaned =>
    /\ file \in {"request alarm", "request tick", "undo alarm"} => dev = drvdata
    /\ \A l \in Lines : Ours(l) => line[l] = drvdata

(* No call is in progress in a suspend, and the tick that a resume restores *)
(* has a handler.                                                           *)
SuspendIsQuiet ==
  phase = "suspended" => /\ file \in {"closed", "open"}
                         /\ TickOn(save) => Ours("tick") \/ pie = "boot"

(* A release has turned the tick off before it frees the lines.             *)
ReleasedIsOff == file \in {"free alarm", "free tick"} => ~TickOn(ticnt)

(* What every step preserves, if nobody opens the device before probe has   *)
(* returned: LinesMatchFile and InterruptsHandled, and why they hold.       *)
IInv == /\ LinesMatchFile /\ InterruptsHandled /\ DataMatchesPhase
        /\ OpenIsBound /\ RequestsAreOurs /\ SuspendIsQuiet /\ ReleasedIsOff
=============================================================================
