------------------------------ MODULE Watchdog ------------------------------
(***************************************************************************)
(* The S3C2410 watchdog driver, watchdog/driver/watchdog.c: a character    *)
(* device that one opener at a time may hold, a hardware counter that      *)
(* resets the machine unless it is refreshed, the magic close, the margin  *)
(* set by ioctl, and the life of the module around them.                   *)
(*                                                                         *)
(* The threads of the opener share its file, so their calls overlap.  A    *)
(* section under wdt_lock is one step; watchdog_set_heartbeat, which runs  *)
(* without that lock, is one step per access to shared state.  The release *)
(* handler runs when the last reference to the file is dropped, hence      *)
(* never beside another call on that file.  The interrupt handler may cut  *)
(* into a locked section, but it stores the count that the section stores, *)
(* so it needs no finer steps.                                             *)
(***************************************************************************)
EXTENDS Integers

CONSTANTS
  Threads,      \* threads that may open and use /dev/watchdog
  Freq,         \* clk_get_rate(wdt_clock) / 128, in counts per second
  CountLimit,   \* 0x10000: one more than the 16-bit counter holds
  MaxDivisor,   \* 0x100: the prescaler divides by 1 .. MaxDivisor
  WordSize,     \* 2^32: an unsigned int holds 0 .. WordSize - 1
  DefaultTime,  \* CONFIG_S3C2410_WATCHDOG_DEFAULT_TIME
  Margins,      \* margins asked for, as module parameter or by ioctl
  EarlyOpen     \* may a user open the device before probe has returned?

ASSUME ConstantsAssumption ==
  /\ Freq \in Nat \ {0} /\ CountLimit \in Nat \ {0} /\ MaxDivisor \in Nat \ {0}
  /\ WordSize \in Nat \ {0} /\ DefaultTime \in Int /\ Margins \subseteq Int
  /\ EarlyOpen \in BOOLEAN

VARIABLES
  param,         \* module parameters nowayout, soft_noboot, tmr_atboot, tmr_margin
  phase,         \* of driver and machine, see Phases
  wtcon,         \* register WTCON: enable, rsten and inten bits, prescale field
  wtdat,         \* register WTDAT: the reload value
  wtcnt,         \* register WTCNT: the running counter
  open_lock,     \* bit 0 of open_lock
  expect_close,  \* 42 after a write with a 'V', else 0
  wdt_count,     \* counts of one period
  tmr_margin,    \* the margin in seconds the driver reports
  pinned,        \* __module_get was called and is never undone
  file,          \* "closed", "opening", "open" or "closing"
  pc,            \* where each thread is
  req,           \* each thread's count and divisor inside set_heartbeat
  con,           \* each thread's copy of WTCON inside set_heartbeat
  mixed,         \* history: the latest set_heartbeat began inside another one
  saidV,         \* history: the latest write contained a 'V' so far
  abandoned      \* history: closed without a valid magic close, not taken over

regs  == <<wtcon, wtdat, wtcnt>>
own   == <<req, con, mixed>>
calls == <<pc, own>>
vars  == <<param, phase, regs, open_lock, expect_close, wdt_count, tmr_margin,
           pinned, file, calls, saidV, abandoned>>

Bit == {0, 1}

(* Not loaded; loaded, with no device bound; in probe after misc_register,  *)
(* with a margin set or without one; bound; unbound under an open file;     *)
(* machine down.                                                            *)
Phases == {"out", "unbound", "registered", "unset", "bound", "torn", "dead"}

InProbe == phase \in {"registered", "unset"}
Unprobed == phase \in {"out", "unbound"}
-----------------------------------------------------------------------------
(* watchdog_set_heartbeat's arithmetic, in unsigned ints *)

Count(timeout) == (timeout * Freq) % WordSize

Fits(count, divisor) == count \div divisor < CountLimit

(* The loop stops at the first divisor that fits, or runs past the last. *)
Divisor(count) ==
  IF \E d \in 1..MaxDivisor : Fits(count, d)
  THEN CHOOSE d \in 1..MaxDivisor :
         Fits(count, d) /\ \A e \in 1..(d - 1) : ~Fits(count, e)
  ELSE MaxDivisor + 1

Accepts(timeout) ==
  timeout >= 1 /\ Fits(Count(timeout), Divisor(Count(timeout)))

(* What an accepted timeout stores: the scaled count and the divisor. *)
SettingUnscaled(timeout) ==
  [count |-> Count(timeout), divisor |-> Divisor(Count(timeout))]
Setting(timeout) ==
  LET divisor == Divisor(Count(timeout))
  IN  [count |-> Count(timeout) \div divisor, divisor |-> divisor]

(* PRESCALE(divisor - 1), cut to the width of its field. *)
Prescale(divisor) == (divisor - 1) % MaxDivisor

Stopped(w) == [w EXCEPT !.enable = 0, !.rsten = 0]

StartedSameMode(w) == [w EXCEPT !.enable = 1]
Started(w) == [w EXCEPT !.enable = 1, !.rsten = 1 - param.soft_noboot,
                        !.inten = param.soft_noboot]

(* watchdog_start: stop, program WTDAT and WTCNT, then enable. *)
Start == /\ wtcon' = Started(Stopped(wtcon))
         /\ wtdat' = wdt_count
         /\ wtcnt' = wdt_count

Stop == wtcon' = Stopped(wtcon) /\ UNCHANGED <<wtdat, wtcnt>>

KeepAlive == wtcnt' = wdt_count /\ UNCHANGED <<wtcon, wtdat>>

(* test_and_set_bit: of several openers one wins, the others get -EBUSY. *)
TryLockUnchecked == open_lock' = 1
TryLock == open_lock = 0 /\ open_lock' = 1

(* __module_get at every open under nowayout. *)
PinnedNever == pinned
Pinned == pinned \/ param.nowayout

(* Is a write searched for the magic 'V'? *)
ScansAlways == TRUE
Scans == ~param.nowayout

(* What release does to the timer: stop after a magic close, else refresh. *)
ReleaseTimerStops == Stop
ReleaseTimer == IF expect_close = 42 THEN Stop ELSE KeepAlive
-----------------------------------------------------------------------------
(* Boot, probe, remove and shutdown *)

(* The boot loader may have left the counter running. *)
BootCon == [enable : Bit, rsten : {1}, inten : {0}, prescale : {0}]

NoRequest == [count |-> 0, divisor |-> 1]

Init ==
  /\ param \in [nowayout : BOOLEAN, soft_noboot : Bit, tmr_atboot : BOOLEAN,
                tmr_margin : Margins]
  /\ phase = "out"
  /\ wtcon \in BootCon /\ wtdat = CountLimit - 1 /\ wtcnt = CountLimit - 1
  /\ open_lock = 0 /\ expect_close = 0 /\ wdt_count = 0
  /\ tmr_margin = param.tmr_margin /\ pinned = FALSE
  /\ file = "closed"
  /\ pc = [t \in Threads |-> "idle"]
  /\ req = [t \in Threads |-> NoRequest]
  /\ con = [t \in Threads |-> wtcon] /\ mixed = FALSE
  /\ saidV = FALSE /\ abandoned = FALSE

(* Does either margin suit?  If neither, probe's local started is not 0. *)
Settable == Accepts(tmr_margin) \/ Accepts(DefaultTime)

(* watchdog_probe's margin: the one asked for as parameter, or set by ioctl *)
(* while the module was bound before, or the default if that is refused.    *)
ProbeMargin == IF Accepts(tmr_margin) THEN tmr_margin ELSE DefaultTime

ProbeHeartbeat ==
  \/ /\ Settable
     /\ LET setting == Setting(ProbeMargin)
        IN  /\ wtdat' = setting.count
            /\ wtcon' = [wtcon EXCEPT !.prescale = Prescale(setting.divisor)]
            /\ wdt_count' = setting.count
     /\ tmr_margin' = ProbeMargin
  \/ ~Settable /\ UNCHANGED <<wtdat, wtcon, tmr_margin, wdt_count>>

(* watchdog_probe up to misc_register: from here on the device can be opened. *)
ProbeRegister ==
  /\ Unprobed
  /\ phase' = IF Settable THEN "registered" ELSE "unset"
  /\ ProbeHeartbeat
  /\ mixed' = FALSE /\ abandoned' = FALSE
  /\ UNCHANGED <<param, wtcnt, open_lock, expect_close, pinned, file, pc, req, con, saidV>>

(* misc_register fails and probe undoes its requests but not the registers, *)
(* or one of those requests fails.  The module stays loaded.                *)
ProbeFail ==
  /\ Unprobed
  /\ phase' = "unbound"
  /\ ProbeHeartbeat \/ UNCHANGED <<wtdat, wtcon, tmr_margin, wdt_count>>
  /\ UNCHANGED <<param, wtcnt, open_lock, expect_close, pinned, file, calls, saidV, abandoned>>

(* The rest of watchdog_probe: start at boot, or make sure it is off. *)
ProbeFinish ==
  /\ phase' = "bound"
  /\ \/ phase = "registered" /\ param.tmr_atboot /\ Start
     \/ phase = "unset" /\ param.tmr_atboot /\ UNCHANGED regs
     \/ InProbe /\ ~param.tmr_atboot /\ Stop
  /\ UNCHANGED <<param, open_lock, expect_close, wdt_count, tmr_margin, pinned,
                 file, calls, saidV, abandoned>>

(* Unbinding the device through sysfs calls watchdog_remove, pinned or not. *)
(* The counter stays as it is and the module keeps its statics.  If the     *)
(* device is open its registers are unmapped under its user, and what a     *)
(* call does from then on is not defined: the model allows none.            *)
Unbind ==
  /\ phase = "bound"
  /\ phase' = IF file = "closed" THEN "unbound" ELSE "torn"
  /\ UNCHANGED <<param, regs, open_lock, expect_close, wdt_count, tmr_margin, pinned,
                 file, calls, saidV, abandoned>>

(* rmmod, refused while the module is referenced.  watchdog_remove leaves   *)
(* the counter as it is; the statics go away with the module.               *)
Remove ==
  /\ phase \in {"bound", "unbound"} /\ file = "closed" /\ ~pinned
  /\ phase' = "out"
  /\ open_lock' = 0 /\ expect_close' = 0 /\ wdt_count' = 0
  /\ tmr_margin' = param.tmr_margin
  /\ UNCHANGED <<param, regs, pinned, file, calls, saidV, abandoned>>

(* The kernel restarts the machine, after watchdog_shutdown if it is bound. *)
Shutdown ==
  /\ \/ phase = "bound" /\ Stop
     \/ phase \in {"out", "unbound", "torn"} /\ UNCHANGED regs
  /\ phase' = "dead"
  /\ abandoned' = FALSE
  /\ UNCHANGED <<param, open_lock, expect_close, wdt_count, tmr_margin, pinned,
                 file, calls, saidV>>

(* The machine comes up again. *)
Boot ==
  /\ phase = "dead"
  /\ phase' = "out"
  /\ \E w \in BootCon : wtcon' = w /\ con' = [t \in Threads |-> w]
  /\ wtdat' = CountLimit - 1 /\ wtcnt' = CountLimit - 1
  /\ open_lock' = 0 /\ expect_close' = 0 /\ wdt_count' = 0
  /\ tmr_margin' = param.tmr_margin /\ pinned' = FALSE
  /\ file' = "closed"
  /\ pc' = [t \in Threads |-> "idle"]
  /\ req' = [t \in Threads |-> NoRequest] /\ mixed' = FALSE
  /\ saidV' = FALSE /\ abandoned' = FALSE
  /\ UNCHANGED param
-----------------------------------------------------------------------------
(* /dev/watchdog *)

Goto(t, from, to) == pc[t] = from /\ pc' = [pc EXCEPT ![t] = to]

Live == phase = "bound" \/ InProbe

OpenLock(t) ==
  /\ phase = "bound" \/ (EarlyOpen /\ InProbe)
  /\ TryLock
  /\ Goto(t, "idle", "start")
  /\ file' = "opening"
  /\ UNCHANGED <<param, phase, regs, expect_close, wdt_count, tmr_margin, pinned,
                 own, saidV, abandoned>>

(* The rest of watchdog_open. *)
OpenStart(t) ==
  /\ Live
  /\ Goto(t, "start", "idle")
  /\ pinned' = Pinned
  /\ expect_close' = 0
  /\ Start
  /\ file' = "open"
  /\ saidV' = FALSE /\ abandoned' = FALSE
  /\ UNCHANGED <<param, phase, open_lock, wdt_count, tmr_margin, own>>

(* watchdog_release, first half; no other call is using the file. *)
ReleaseStop(t) ==
  /\ Live /\ file = "open" /\ \A u \in Threads : pc[u] = "idle"
  /\ Goto(t, "idle", "unlock")
  /\ ReleaseTimer
  /\ file' = "closing"
  /\ abandoned' = (param.nowayout \/ ~saidV)
  /\ UNCHANGED <<param, phase, open_lock, expect_close, wdt_count, tmr_margin,
                 pinned, own, saidV>>

(* watchdog_release, second half. *)
ReleaseUnlock(t) ==
  /\ Live
  /\ Goto(t, "unlock", "idle")
  /\ expect_close' = 0
  /\ open_lock' = 0
  /\ file' = "closed"
  /\ UNCHANGED <<param, phase, regs, wdt_count, tmr_margin, pinned, own,
                 saidV, abandoned>>

(* A write of some bytes; without nowayout its bytes are scanned for a 'V'. *)
WriteBegin(t) ==
  /\ Live /\ file = "open"
  /\ saidV' = FALSE
  /\ \/ Scans /\ Goto(t, "idle", "scan") /\ expect_close' = 0
     \/ ~Scans /\ Goto(t, "idle", "feed") /\ UNCHANGED expect_close
  /\ UNCHANGED <<param, phase, regs, open_lock, wdt_count, tmr_margin, pinned,
                 file, own, abandoned>>

(* The scan meets a 'V'. *)
WriteV(t) ==
  /\ Live /\ pc[t] = "scan"
  /\ expect_close' = 42
  /\ saidV' = TRUE
  /\ UNCHANGED <<param, phase, regs, open_lock, wdt_count, tmr_margin, pinned,
                 file, calls, abandoned>>

(* The scan is over, or get_user faults and the write fails unrefreshed. *)
WriteEnd(t) ==
  /\ Live
  /\ Goto(t, "scan", "feed") \/ Goto(t, "scan", "idle")
  /\ UNCHANGED <<param, phase, regs, open_lock, expect_close, wdt_count,
                 tmr_margin, pinned, file, own, saidV, abandoned>>

(* WDIOC_KEEPALIVE, which is just the refresh. *)
IoctlKeepAlive(t) ==
  /\ Live /\ file = "open"
  /\ Goto(t, "idle", "feed")
  /\ UNCHANGED <<param, phase, regs, open_lock, expect_close, wdt_count,
                 tmr_margin, pinned, file, own, saidV, abandoned>>

(* watchdog_keepalive at the end of a write or of an ioctl. *)
Feed(t) ==
  /\ Live
  /\ Goto(t, "feed", "idle")
  /\ KeepAlive
  /\ UNCHANGED <<param, phase, open_lock, expect_close, wdt_count, tmr_margin,
                 pinned, file, own, saidV, abandoned>>
-----------------------------------------------------------------------------
(* WDIOC_SETTIMEOUT: watchdog_set_heartbeat step by step, then a refresh.   *)
(* A margin that is not accepted is refused with nothing changed.           *)

InHeartbeat(t) == pc[t] \in {"count", "readcon", "writedat", "writecon"}

SetMargin(t, margin) ==
  /\ Live /\ file = "open" /\ Accepts(margin)
  /\ Goto(t, "idle", "count")
  /\ tmr_margin' = margin
  /\ req' = [req EXCEPT ![t] = Setting(margin)]
  /\ mixed' = (\E u \in Threads : InHeartbeat(u))
  /\ UNCHANGED <<param, phase, regs, open_lock, expect_close, wdt_count, pinned,
                 file, con, saidV, abandoned>>

SetCount(t) ==
  /\ Live
  /\ Goto(t, "count", "readcon")
  /\ wdt_count' = req[t].count
  /\ UNCHANGED <<param, phase, regs, open_lock, expect_close, tmr_margin, pinned,
                 file, own, saidV, abandoned>>

ReadCon(t) ==
  /\ Live
  /\ Goto(t, "readcon", "writedat")
  /\ con' = [con EXCEPT ![t] = wtcon]
  /\ UNCHANGED <<param, phase, regs, open_lock, expect_close, wdt_count,
                 tmr_margin, pinned, file, req, mixed, saidV, abandoned>>

WriteDat(t) ==
  /\ Live
  /\ Goto(t, "writedat", "writecon")
  /\ wtdat' = req[t].count
  /\ UNCHANGED <<param, phase, wtcon, wtcnt, open_lock, expect_close, wdt_count,
                 tmr_margin, pinned, file, own, saidV, abandoned>>

WriteCon(t) ==
  /\ Live
  /\ Goto(t, "writecon", "feed")
  /\ wtcon' = [con[t] EXCEPT !.prescale = Prescale(req[t].divisor)]
  /\ UNCHANGED <<param, phase, wtdat, wtcnt, open_lock, expect_close, wdt_count,
                 tmr_margin, pinned, file, own, saidV, abandoned>>
-----------------------------------------------------------------------------
(* The hardware counter *)

Tick ==
  /\ phase # "dead" /\ wtcon.enable = 1 /\ wtcnt > 0
  /\ wtcnt' = wtcnt - 1
  /\ UNCHANGED <<param, phase, wtcon, wtdat, open_lock, expect_close, wdt_count,
                 tmr_margin, pinned, file, calls, saidV, abandoned>>

(* The counter has run out: the machine is reset, or watchdog_irq refreshes *)
(* it, or, with nobody on the interrupt line, WTDAT is reloaded.            *)
Expire ==
  /\ phase # "dead" /\ wtcon.enable = 1 /\ wtcnt = 0
  /\ IF wtcon.rsten = 1
     THEN phase' = "dead" /\ abandoned' = FALSE /\ UNCHANGED regs
     ELSE /\ UNCHANGED <<phase, abandoned>>
          /\ IF wtcon.inten = 1 /\ Live
             THEN KeepAlive
             ELSE wtcnt' = wtdat /\ UNCHANGED <<wtcon, wtdat>>
  /\ UNCHANGED <<param, open_lock, expect_close, wdt_count, tmr_margin, pinned,
                 file, calls, saidV>>

Driver(t) ==
  \/ OpenStart(t) \/ ReleaseUnlock(t) \/ WriteEnd(t) \/ Feed(t)
  \/ SetCount(t) \/ ReadCon(t) \/ WriteDat(t) \/ WriteCon(t)

User(t) ==
  \/ OpenLock(t) \/ ReleaseStop(t) \/ WriteBegin(t) \/ WriteV(t)
  \/ IoctlKeepAlive(t) \/ \E margin \in Margins : SetMargin(t, margin)

Next ==
  \/ ProbeRegister \/ ProbeFail \/ ProbeFinish \/ Unbind \/ Remove \/ Shutdown \/ Boot
  \/ \E t \in Threads : Driver(t) \/ User(t)
  \/ Tick \/ Expire

Spec == Init /\ [][Next]_vars

(* The counter is hardware and keeps counting.  Nothing else need happen:   *)
(* the user may never call again and no call need be scheduled.             *)
FairSpec == Spec /\ WF_vars(Tick) /\ WF_vars(Expire)
-----------------------------------------------------------------------------
(* Properties *)

Pcs == {"idle", "start", "unlock", "scan", "feed", "count", "readcon",
        "writedat", "writecon"}

Register == [enable : Bit, rsten : Bit, inten : Bit, prescale : 0..(MaxDivisor - 1)]

RegistersOK == wtcon \in Register /\ wtdat \in Nat /\ wtcnt \in Nat

(* Every variable holds a value of its C type or register width. *)
TypeOK ==
  /\ param \in [nowayout : BOOLEAN, soft_noboot : Bit, tmr_atboot : BOOLEAN,
                tmr_margin : Margins]
  /\ phase \in Phases
  /\ RegistersOK
  /\ open_lock \in Bit /\ expect_close \in {0, 42}
  /\ wdt_count \in Nat /\ tmr_margin \in Margins \cup {DefaultTime}
  /\ pinned \in BOOLEAN
  /\ file \in {"closed", "opening", "open", "closing"}
  /\ pc \in [Threads -> Pcs]
  /\ req \in [Threads -> [count : Nat, divisor : 1..(MaxDivisor + 1)]]
  /\ con \in [Threads -> Register] /\ mixed \in BOOLEAN
  /\ saidV \in BOOLEAN /\ abandoned \in BOOLEAN

(* The register value is a running watchdog in the mode soft_noboot selects. *)
Armed(w) == /\ w.enable = 1
            /\ w.rsten = 1 - param.soft_noboot
            /\ w.inten = param.soft_noboot

(* While the device is open on a bound driver the watchdog runs in the      *)
(* configured mode, whatever margins are being written to WTCON meanwhile   *)
(* (watchdog_open's "Start the timer").                                     *)
OpenedIsArmed == file = "open" /\ phase = "bound" => Armed(wtcon)

(* A device closed without a valid magic close is still counting, in the    *)
(* configured mode, until somebody opens it again or binds the driver       *)
(* afresh: with nowayout every close is such a close, and otherwise every   *)
(* close whose latest write had no 'V' (watchdog_release, watchdog_write).  *)
AbandonedStaysArmed == abandoned => Armed(wtcon)

(* open_lock admits one opener: no second thread is inside open or release, *)
(* and no other call overlaps either of them.                               *)
ExclusiveOpen ==
  \A t \in Threads :
    pc[t] \in {"start", "unlock"} =>
      /\ open_lock = 1
      /\ \A u \in Threads \ {t} : pc[u] = "idle"

(* A module that handed out the device under nowayout cannot be unloaded,   *)
(* not even when its device is unbound meanwhile, so the running watchdog   *)
(* keeps its driver and its settings (__module_get in open).                *)
NoWayoutKeepsDriver ==
  param.nowayout /\ (abandoned \/ file = "open") => phase # "out"

Quiescent == \A t \in Threads : pc[t] = "idle"

(* When no call is in progress on an open device, the period in the         *)
(* hardware is tmr_margin, the value WDIOC_GETTIMEOUT reports, to within    *)
(* one prescaled count, and no refresh is longer than it.  Only two calls   *)
(* that set margins at once may leave the margin of one with the period of  *)
(* the other, until the next margin is set.                                 *)
MarginInForce ==
  file = "open" /\ phase = "bound" /\ Quiescent /\ Settable /\ ~mixed =>
    LET divisor == wtcon.prescale + 1
    IN  /\ wtdat * divisor <= tmr_margin * Freq
        /\ tmr_margin * Freq < (wtdat + 1) * divisor
        /\ wdt_count = wtdat
        /\ wtcnt <= wtdat

(* A watchdog abandoned in reset mode does its work: the machine is reset   *)
(* unless somebody takes the device over.                                   *)
AbandonedBites == (abandoned /\ param.soft_noboot = 0) ~> ~abandoned

(* What the driver promises its users: WatchdogContract, with the device    *)
(* held from the end of watchdog_open to the start of watchdog_release.     *)
Contract == INSTANCE WatchdogContract WITH
  nowayout <- param.nowayout,
  locked   <- pinned,
  driver   <- CASE phase = "bound" -> "in"
                [] phase \in {"registered", "unset"} -> "binding"
                [] phase \in {"unbound", "torn"} -> "unbound"
                [] phase = "dead" -> "down"
                [] OTHER -> "out",
  held     <- file = "open",
  running  <- wtcon.enable = 1,
  magic    <- file = "open" /\ expect_close = 42
ContractSpec == Contract!Spec
-----------------------------------------------------------------------------
(* The inductive invariant behind the safety properties, in named parts.    *)
(* It holds when nobody opens the device before probe has returned.         *)

(* Calls use the file only in the states in which it admits them, and one   *)
(* thread at most is inside open or release.                                *)
CallsMatchFile ==
  /\ file # "closed" => open_lock = 1 /\ phase \in {"bound", "torn", "dead"}
  /\ \A t \in Threads :
       /\ pc[t] = "start" => file = "opening"
       /\ pc[t] = "unlock" => file = "closing"
       /\ pc[t] \notin {"idle", "start", "unlock"} => file = "open"
  /\ \A t, u \in Threads : pc[t] = pc[u] /\ pc[t] \in {"start", "unlock"} => t = u

(* The magic word stands only if the latest write gave it and may give it.  *)
MagicWasGiven ==
  /\ file = "open" /\ expect_close = 42 => saidV /\ ~param.nowayout
  /\ \A t \in Threads : pc[t] = "scan" => ~param.nowayout

(* What runs while the device is held, or abandoned, is armed, and so is    *)
(* every copy of WTCON that set_heartbeat is about to write back.           *)
HeldIsArmed ==
  /\ file = "open" /\ phase = "bound" => Armed(wtcon)
  /\ \A t \in Threads : pc[t] \in {"writedat", "writecon"} => Armed(con[t])
  /\ abandoned => Armed(wtcon) /\ ~InProbe /\ phase # "dead" /\ file # "open"

(* Under nowayout the driver is pinned before the device is held.           *)
HeldIsPinned ==
  /\ param.nowayout /\ (abandoned \/ file \in {"open", "closing"}) => pinned
  /\ pinned => phase # "out"

IInv == TypeOK /\ CallsMatchFile /\ MagicWasGiven /\ HeldIsArmed /\ HeldIsPinned
=============================================================================
